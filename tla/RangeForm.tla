----------------------------- MODULE RangeForm -----------------------------
(***************************************************************************)
(* The two text fields in which the user types a range of years, the same  *)
(* code in the intermediary (dapp2) and the relying party (dapp3):         *)
(* handleInputChange, handleInputClick and the button they unlock.         *)
(*                                                                         *)
(* In an event handler React queues every setState and applies them when   *)
(* the handler returns; this.state read in the handler is the state        *)
(* before the event.                                                       *)
(***************************************************************************)
EXTENDS Integers

CONSTANT Entries    \* what may be typed: is it an integer, and which (years are
                    \* not negative; a text that is no integer has any value)

VARIABLES
    text,           \* what each input field shows
    bound,          \* rangeStart and rangeEnd of this.state
    entered,        \* rangeStartEntered and rangeEndEntered
    rangeEntered    \* the button that uses the range is unlocked

formVars == <<text, bound, entered, rangeEntered>>

Fields == {"rangeStart", "rangeEnd"}

\* The defaultValue of the fields, 'begin' and 'end'.
Prompt == [integer |-> FALSE, value |-> 0]

\* Number("") is the integer 0.
Blank == [integer |-> TRUE, value |-> 0]

NoBound == -1

ASSUME EntriesAreTyped == Entries \subseteq [integer : BOOLEAN, value : Nat]

FormInit ==
    /\ text = [f \in Fields |-> Prompt]
    /\ bound = [f \in Fields |-> NoBound]
    /\ entered = [f \in Fields |-> FALSE]
    /\ rangeEntered = FALSE

\* Slip: the number is stored whether or not the text is an integer.
HandleInputChangeStoresAnything(f, e) ==
    /\ text' = [text EXCEPT ![f] = e]
    /\ entered' = [entered EXCEPT ![f] = e.integer]
    /\ bound' = [bound EXCEPT ![f] = e.value]
    /\ rangeEntered' = (entered["rangeStart"] /\ entered["rangeEnd"])

\* Slip: one valid field unlocks the button.
HandleInputChangeEither(f, e) ==
    /\ text' = [text EXCEPT ![f] = e]
    /\ entered' = [entered EXCEPT ![f] = e.integer]
    /\ bound' = [bound EXCEPT ![f] = IF e.integer THEN e.value ELSE bound[f]]
    /\ rangeEntered' = (entered["rangeStart"] \/ entered["rangeEnd"])

\* The user edits a field.  rangeEntered is computed from the flags as they
\* were before this event.
HandleInputChange(f, e) ==
    /\ text' = [text EXCEPT ![f] = e]
    /\ entered' = [entered EXCEPT ![f] = e.integer]
    /\ bound' = [bound EXCEPT ![f] = IF e.integer THEN e.value ELSE bound[f]]
    /\ rangeEntered' = (entered["rangeStart"] /\ entered["rangeEnd"])

\* A click clears the prompt; assigning to the field raises no change event.
HandleInputClick(f) ==
    /\ text[f] = Prompt
    /\ text' = [text EXCEPT ![f] = Blank]
    /\ UNCHANGED <<bound, entered, rangeEntered>>

FormNext ==
    \/ \E f \in Fields, e \in Entries : HandleInputChange(f, e)
    \/ \E f \in Fields : HandleInputClick(f)

FormSpec == FormInit /\ [][FormNext]_formVars

-----------------------------------------------------------------------------
\* Every variable stays in its type; a bound is -1 or an integer that was typed,
\* never the NaN of a text that is no integer.
FormTypeOK ==
    /\ text \in [Fields -> Entries \cup {Prompt, Blank}]
    /\ bound \in [Fields -> {NoBound} \cup {e.value : e \in {x \in Entries : x.integer}}]
    /\ entered \in [Fields -> BOOLEAN]
    /\ rangeEntered \in BOOLEAN

\* Although the button may be unlocked too late or stay unlocked too long, it
\* is never unlocked before both bounds were typed: no range is ever built
\* from the initial bounds -1.
UnlockedHasBounds == rangeEntered => \A f \in Fields : bound[f] # NoBound

\* handleInputChange says of itself: "Unlock the button for uploading the range
\* proof attestation only if both are integers."
UnlockedOnlyIfIntegers == rangeEntered => \A f \in Fields : text[f].integer

=============================================================================
