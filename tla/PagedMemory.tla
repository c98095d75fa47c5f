----------------------------- MODULE PagedMemory -----------------------------
(***************************************************************************)
(* The memory of a model B or a Master as a programmer has it: every chip   *)
(* keeps what was written to it, and two registers say which chip an access *)
(* reaches. Nothing is ever copied.                                         *)
(***************************************************************************)
EXTENDS Integers

CONSTANTS
  NumRoms,    \* sideways banks
  Sockets,    \* those there are without extended addressing: the last ones
  Cleared,    \* what cleared RAM holds
  PowerOn     \* what main RAM holds at power on

VARIABLES
  contents,   \* by chip
  romsel,     \* bank and andy
  acccon,     \* d, e, x and y
  extended,
  ram         \* the banks that are RAM
vars == <<contents, romsel, acccon, extended, ram>>

Bank == 0 .. NumRoms - 1
Regions == {"shadow", "andy", "side", "hazel"}
(* A bank's first 4k, which ANDY may cover, is a chip of its own here. *)
Chips == ({"main", "lynne", "hazel", "andy", "os"} \X {0}) \cup ({"under", "side"} \X Bank)
Current == IF extended THEN romsel.bank ELSE (romsel.bank % Sockets) + NumRoms - Sockets

(* Code in the first 8k of the operating system draws: it has its own idea   *)
(* of where the screen is.                                                   *)
Shadow(vdu) ==
  IF vdu THEN IF acccon.y THEN acccon.x ELSE acccon.e ELSE acccon.x
Chip(region, vdu) ==
  CASE region = "shadow" -> <<IF Shadow(vdu) THEN "lynne" ELSE "main", 0>>
    [] region = "andy"   -> IF romsel.andy THEN <<"andy", 0>> ELSE <<"under", Current>>
    [] region = "side"   -> <<"side", Current>>
    [] region = "hazel"  -> <<IF acccon.y THEN "hazel" ELSE "os", 0>>
IsRam(chip) == chip[1] # "os" /\ (chip[1] \in {"under", "side"} => chip[2] \in ram)

Read(region, vdu) == contents[Chip(region, vdu)]
Displayed == contents[<<IF acccon.d THEN "lynne" ELSE "main", 0>>]

Write(region, vdu) ==
  /\ UNCHANGED <<romsel, acccon, extended, ram>>
  /\ IsRam(Chip(region, vdu))
  /\ \A chip \in Chips \ {Chip(region, vdu)} : contents'[chip] = contents[chip]
Select == UNCHANGED <<acccon, extended, ram, contents>>
Control == UNCHANGED <<romsel, extended, ram, contents>>
Fit(bank) ==
  /\ extended' = (extended \/ bank < NumRoms - Sockets) /\ UNCHANGED <<romsel, acccon>>
  /\ \/ ram' = ram \cup {bank} /\ UNCHANGED contents
     \/ /\ UNCHANGED ram
        /\ \A chip \in Chips \ {<<"under", bank>>, <<"side", bank>>} : contents'[chip] = contents[chip]

(* A hard reset clears the RAM that is not paged in. What is paged in of the *)
(* other kinds keeps its contents; of main RAM and LYNNE the one that is     *)
(* paged in gets the power on pattern.                                       *)
AfterReset(chip) ==
  CASE chip[1] = "main"  -> IF acccon.x THEN Cleared ELSE PowerOn
    [] chip[1] = "lynne" -> IF acccon.x THEN PowerOn ELSE Cleared
    [] chip[1] = "hazel" -> IF acccon.y THEN contents[chip] ELSE Cleared
    [] chip[1] = "andy"  -> IF romsel.andy THEN contents[chip] ELSE Cleared
    [] ~IsRam(chip) -> contents[chip]
    [] OTHER -> IF chip[2] = Current /\ ~(chip[1] = "under" /\ romsel.andy) THEN contents[chip] ELSE Cleared
Reset ==
  /\ romsel' = [bank |-> 0, andy |-> FALSE]
  /\ acccon' = [d |-> FALSE, e |-> FALSE, x |-> FALSE, y |-> FALSE]
  /\ UNCHANGED <<extended, ram>>
  /\ \A chip \in Chips : contents'[chip] = AfterReset(chip)

Init ==
  /\ acccon = [d |-> FALSE, e |-> FALSE, x |-> FALSE, y |-> FALSE]
  /\ romsel = [bank |-> 0, andy |-> FALSE] /\ ram = {}
Next ==
  \/ \E region \in Regions, vdu \in BOOLEAN : Write(region, vdu)
  \/ Select \/ Control \/ Reset
  \/ \E bank \in Bank : Fit(bank)
Spec == Init /\ [][Next]_vars
=============================================================================
