SPECIFICATION FormSpec
CONSTANT Entries <- MCEntries
INVARIANTS FormTypeOK UnlockedHasBounds
