----------------------------- MODULE MCIntelFdc -----------------------------
(* Small instances of IntelFdc. *)
EXTENDS IntelFdc

Setup == {"specify_timings", "specify_tracks", "set_mode", "drive_status"}

\* Seeks on two drives; transfers on one.  The drive port is written to, and the
\* write gate opened, before seeks and before writes.
Seeks == [commands |-> Setup \cup {"seek", "set_drive_out", "read_special"},
          drives |-> {Drive0, Drive1}, tracks |-> {0, 1}, media |-> {"writable"},
          unload |-> 1, load |-> TRUE, settle |-> TRUE]
Reads == [commands |-> Setup \cup {"read", "read_deleted", "verify", "scan", "read_id"},
          drives |-> {Drive0}, tracks |-> {0}, media |-> {"writable", "empty"},
          unload |-> 1, load |-> TRUE, settle |-> FALSE]
Writes == [commands |-> Setup \cup {"write", "format", "read_id", "set_drive_out"},
           drives |-> {Drive0, None}, tracks |-> {0}, media |-> Media,
           unload |-> Never, load |-> FALSE, settle |-> FALSE]

\* The head is unloaded at the next pulse, also under a read id that goes on where
\* it is, with the write gate open.
Unloads == [commands |-> {"specify_timings", "specify_tracks", "set_mode", "set_drive_out", "read_id"},
            drives |-> {Drive0}, tracks |-> {0}, media |-> {"writable"},
            unload |-> 1, load |-> FALSE, settle |-> FALSE]

\* The head is unloaded at once at the end of a command.
SeeksUnloading == [commands |-> Setup \cup {"seek", "set_drive_out"},
                   drives |-> {Drive0}, tracks |-> {0, 1}, media |-> {"writable"},
                   unload |-> 0, load |-> TRUE, settle |-> TRUE]

AllPrograms == {Seeks, Reads, Writes, SeeksUnloading, Unloads}
=============================================================================
