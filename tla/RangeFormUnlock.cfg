SPECIFICATION FormSpec
CONSTANT Entries <- MCEntries
INVARIANT UnlockedOnlyIfIntegers
