------------------------------ MODULE MCWdFdc ------------------------------
(* Small instances of WdFdc. *)
EXTENDS WdFdc

CONSTANTS d0, d1

BothDrives == {d0, d1}
OneDrive == {d0}

\* Seeks and restores on two drives.
Seeks == [commands |-> {"restore", "seek", "step_in_update"},
          flags |-> {"verify", "no_spin_up"}, rewrites |-> FALSE,
          drives |-> {d0, d1}, media |-> {"writable"},
          interrupts |-> {FALSE}, registers |-> {0, 2}, bytes |-> {0, 2}]

\* Transfers on one drive, of a 6502 that writes registers at any time.
Transfers == [commands |-> {"read_sector", "write_sector", "read_address",
                            "read_track", "write_track"},
              flags |-> {"multi", "settle"}, rewrites |-> TRUE,
              drives |-> {d0}, media |-> {"writable", "protected", "empty"},
              interrupts |-> {FALSE}, registers |-> {0}, bytes |-> {0, 1}]

\* Commands that are left alone.
Calm == [commands |-> {"step_out", "read_sector", "write_sector", "read_track", "write_track"},
         flags |-> {"settle"}, rewrites |-> FALSE,
         drives |-> {d0}, media |-> {"writable"},
         interrupts |-> BOOLEAN, registers |-> {0}, bytes |-> {0, 1}]

OneSeek == {[Calm EXCEPT !.commands = {"seek"}, !.flags = {}, !.registers = {0, 1}]}
AllPrograms == {Seeks, Transfers, Calm}
=============================================================================
