\* Four lines, ended by LF or CR LF, with both size limits within reach; a decoding ends.
SPECIFICATION Spec
CONSTANTS
    MaxLines = 4
    Texts <- MCTexts
    Limit = 9
    BufferLimit = 7
CHECK_DEADLOCK FALSE
INVARIANT ChatTypeOK
INVARIANT DecodeFaithful
