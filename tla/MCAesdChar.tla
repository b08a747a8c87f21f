----------------------------- MODULE MCAesdChar -----------------------------
(***************************************************************************)
(* Small instances of the driver for TLC.                                  *)
(***************************************************************************)
EXTENDS AesdChar

CONSTANTS a, b, nl

\* Part of a command, the rest of one, and a newline with the start of the next.
WriterChunks == {<<a>>, <<b, nl>>, <<nl, a>>}

\* A part of a command and its end, for commands of several lengths.
ReaderChunks == {<<a>>, <<nl>>}

\* Seeks that succeed, one that may run below 0, and one the driver does not know.
AnySeek == {[whence |-> "SET", off |-> 0], [whence |-> "CUR", off |-> -1],
            [whence |-> "END", off |-> 0], [whence |-> "other", off |-> 0]}

\* The start of the second command and the inside or the end of the first. With two
\* slots, write_cmd 2 names no command.
AnySeekTo == {[write_cmd |-> 1, write_cmd_offset |-> 0],
              [write_cmd |-> 0, write_cmd_offset |-> 1],
              [write_cmd |-> 2, write_cmd_offset |-> 0]}

\* The start of the second command, and of one that a ring of two does not have.
CommandStarts == [write_cmd : {1, 2}, write_cmd_offset : {0}]

OneCommand == {<<nl>>}
EndOnly == {[whence |-> "END", off |-> 0]}
FirstByte == {[write_cmd |-> 0, write_cmd_offset |-> 0]}

Symmetry == Permutations(Addrs) \cup Permutations(Tasks)

=============================================================================
