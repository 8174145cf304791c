CONSTANTS
  Thread = {t1, t2}
  Password = {p, q}
  MaxKeys = 3
  MaxNonce = 1
  Garbage = Garbage
  NoFile = NoFile
SPECIFICATION FileSpec
INVARIANTS FileTypeOK OnePassword KeysKept
SYMMETRY Symmetric
\* After a crash in the middle of a write nothing can be done with the file.
CHECK_DEADLOCK FALSE
