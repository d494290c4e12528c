\* A terminal of four columns, lists of up to nine items, lines of code of up to three
\* characters, with the quotes of a paste five; texts of up to three characters and two keys.
SPECIFICATION Spec
INVARIANTS ScreenShowsBuffer WindowsAreFair
PROPERTIES StylesKeepText TypedKeysAreRead EditsAreExact
CHECK_DEADLOCK FALSE
