---------------------------- MODULE MemoryProofs ----------------------------
(***************************************************************************)
(* Proofs about Memory: for every number of banks, every machine and every   *)
(* order of writes, register writes and hard resets, paging by copying is    *)
(* the paging of PagedMemory, in which nothing is copied; and what the 6502, *)
(* the display and the debugger see is what is in its chips.                 *)
(***************************************************************************)
EXTENDS Memory, TLAPS

-----------------------------------------------------------------------------
(* Where the contents of each chip are, of a memory that need not be m. *)

Values == Written \cup {Cleared, PowerOn, OsRom} \cup {RomOf(b) : b \in Bank}
Halves == [andy : Values, side : Values]
Memories ==
  [raw : [shadow : Values, andy : Values, side : Values, hazel : Values],
   bank : [Bank -> Halves], lynne : Values, hazel : Values, andy : Values,
   romsel : Romsels, acccon : Acccons, extended : BOOLEAN, invalidated : BOOLEAN,
   ram : SUBSET Bank, through : BOOLEAN, different : BOOLEAN, shown : BOOLEAN]

Curr(s) == EffectiveBank(s, s.romsel)
MainOf(s) == IF s.acccon.x THEN s.lynne ELSE s.raw.shadow
LynneOf(s) == IF s.acccon.x THEN s.raw.shadow ELSE s.lynne
HazelOf(s) == IF s.acccon.y THEN s.raw.hazel ELSE s.hazel
AndyOf(s) == IF s.romsel.andy THEN s.raw.andy ELSE s.andy
UnderOf(s, b) == IF b = Curr(s) /\ ~s.romsel.andy THEN s.raw.andy ELSE s.bank[b].andy
SideOf(s, b) == IF b = Curr(s) THEN s.raw.side ELSE s.bank[b].side

SameShadow(s, t) == MainOf(t) = MainOf(s) /\ LynneOf(t) = LynneOf(s)
SameBank(s, t, b) == UnderOf(t, b) = UnderOf(s, b) /\ SideOf(t, b) = SideOf(s, b)

(* A bank that is not RAM is paged in as a copy of what it holds. *)
Backed(s) ==
  Curr(s) \notin s.ram =>
    /\ s.raw.side = s.bank[Curr(s)].side
    /\ ~s.romsel.andy => s.raw.andy = s.bank[Curr(s)].andy

-----------------------------------------------------------------------------
(* The inductive invariant. *)

Typed ==
  /\ m \in Memories /\ trapped \in BOOLEAN /\ slot \in 0 .. NumRoms /\ fitted \in Fitted
  /\ untold \in BOOLEAN /\ romPaged \in BOOLEAN

(* A model B has neither ANDY nor ACCCON; a Master has all its sockets. *)
OfItsModel ==
  /\ IsMaster => m.extended
  /\ ~IsMaster => ~m.romsel.andy /\ m.acccon = NoAcccon

(* What is derived when ACCCON is written is of what it holds; but a hard    *)
(* reset, which writes it too, does not tell the interpreter.                *)
Derived ==
  /\ m.different = (MosAccessShadow(m.acccon) # m.acccon.x)
  /\ m.shown = (m.acccon.d # m.acccon.x)
  /\ trapped <=> m.different \/ untold
  /\ untold => IsMaster /\ m.acccon = NoAcccon
  /\ ~m.acccon.y => m.raw.hazel = OsRom

(* A model B's writes go through to RAM alone, and to all of it once a bank  *)
(* that is not RAM has been current.                                         *)
Through ==
  /\ m.through => ~IsMaster /\ Curr(m) \in m.ram
  /\ ~IsMaster /\ romPaged /\ Curr(m) \in m.ram => m.through

(* main() deals with the banks in order; what it has not come to is cleared. *)
Low(b) == b < NumRoms - Sockets
InOrder ==
  /\ \A b \in m.ram : b <= slot /\ b \in fitted.ram /\ (Low(b) => m.extended)
  /\ ~Running =>
       /\ m.romsel = NoRomsel /\ m.acccon = NoAcccon /\ ~m.through /\ ~romPaged
       /\ \A b \in Bank : b > slot \/ (~m.extended /\ Low(b)) =>
            m.bank[b] = [andy |-> Cleared, side |-> Cleared]

IInv == Typed /\ OfItsModel /\ Derived /\ Through /\ InOrder /\ Backed(m)

-----------------------------------------------------------------------------
(* A write of ROMSEL: bbc_sideways_select. *)

\* The current bank is one there is.
LEMMA CurrIn ==
  ASSUME NEW s \in Memories, NEW romsel \in Romsels
  PROVE  EffectiveBank(s, romsel) \in Bank
<1>1. romsel.bank \in 0 .. NumRoms - 1
  BY DEF Romsels, Bank
<1>2. romsel.bank % Sockets \in 0 .. Sockets - 1
  BY <1>1, MemoryAssumption
<1> QED
  BY <1>1, <1>2, MemoryAssumption DEF EffectiveBank, Bank

\* What ANDY gives back when it is taken out of the bank.
UnderNow(s) == IF s.romsel.andy THEN s.bank[Curr(s)].andy ELSE s.raw.andy
AndyNow(s) == IF s.romsel.andy THEN s.raw.andy ELSE s.andy
Changing(s, val) == EffectiveBank(s, val) # Curr(s) \/ s.invalidated
\* The banks once the current one has been saved, if it is RAM.
Saved(s) ==
  IF Curr(s) \in s.ram
  THEN [s.bank EXCEPT ![Curr(s)] = [andy |-> UnderNow(s), side |-> s.raw.side]]
  ELSE s.bank

\* From s to t only the sideways region, its banks and ANDY may differ.
SidewaysOnly(s, t) ==
  /\ t.lynne = s.lynne /\ t.hazel = s.hazel /\ t.acccon = s.acccon
  /\ t.raw.shadow = s.raw.shadow /\ t.raw.hazel = s.raw.hazel
  /\ t.extended = s.extended /\ t.ram = s.ram /\ t.different = s.different /\ t.shown = s.shown

\* The saved banks are banks.
LEMMA SavedIn ==
  ASSUME NEW s \in Memories
  PROVE  /\ Curr(s) \in Bank /\ UnderNow(s) \in Values /\ AndyNow(s) \in Values /\ s.raw.side \in Values
         /\ Saved(s) \in [Bank -> Halves]
         /\ \A b \in Bank : Saved(s)[b] =
              IF b = Curr(s) /\ b \in s.ram THEN [andy |-> UnderNow(s), side |-> s.raw.side] ELSE s.bank[b]
<1>1. s.romsel \in Romsels /\ s.bank \in [Bank -> Halves] /\ s.raw.andy \in Values /\ s.raw.side \in Values
      /\ s.andy \in Values
  BY DEF Memories
<1>2. Curr(s) \in Bank
  BY <1>1, CurrIn DEF Curr
<1>3. s.bank[Curr(s)] \in Halves
  BY <1>1, <1>2
<1>4. UnderNow(s) \in Values /\ AndyNow(s) \in Values
  BY <1>1, <1>3 DEF UnderNow, AndyNow, Halves
<1>5. [andy |-> UnderNow(s), side |-> s.raw.side] \in Halves
  BY <1>1, <1>4 DEF Halves
<1> QED
  BY <1>1, <1>2, <1>4, <1>5 DEF Saved

\* ANDY taken out, or left: what follows finds the bank's own first part there.
LEMMA AndyOutOn ==
  ASSUME NEW s \in Memories, NEW out \in BOOLEAN, s.romsel.andy => out, out => s.romsel.andy
  PROVE  LET t == IF out THEN AndyOut(s, Curr(s)) ELSE s
         IN  /\ t \in Memories /\ SidewaysOnly(s, t) /\ t.raw.side = s.raw.side
             /\ t.raw.andy = UnderNow(s) /\ t.andy = AndyNow(s)
             /\ t.bank = s.bank /\ t.romsel = s.romsel /\ t.invalidated = s.invalidated /\ t.through = s.through
<1>1. UnderNow(s) \in Values /\ AndyNow(s) \in Values
  BY SavedIn
<1>2. CASE s.romsel.andy
  <2> DEFINE under == s.bank[Curr(s)].andy
             t == [s EXCEPT !.andy = s.raw.andy, !.raw.andy = under]
  <2>1. UnderNow(s) = under /\ AndyNow(s) = s.raw.andy /\ AndyOut(s, Curr(s)) = t
    BY <1>2 DEF UnderNow, AndyNow, AndyOut
  <2>2. under \in Values
    BY <1>1, <2>1
  <2> HIDE DEF under
  <2>3. /\ t \in Memories /\ SidewaysOnly(s, t) /\ t.raw.side = s.raw.side
        /\ t.raw.andy = under /\ t.andy = s.raw.andy
        /\ t.bank = s.bank /\ t.romsel = s.romsel /\ t.invalidated = s.invalidated /\ t.through = s.through
    BY <2>2 DEF Memories, SidewaysOnly
  <2> QED
    BY <1>2, <2>1, <2>3
<1>3. CASE ~s.romsel.andy
  BY <1>3 DEF UnderNow, AndyNow, SidewaysOnly
<1> QED
  BY <1>2, <1>3

\* bbc_page_rom saves the old bank if it is RAM and copies the new one in.
LEMMA PageRomOn ==
  ASSUME NEW s \in Memories, s.raw.andy = UnderNow(s), NEW new \in Bank
  PROVE  LET t == PageRom(s, Curr(s), new)
         IN  /\ t \in Memories /\ SidewaysOnly(s, t) /\ t.andy = s.andy
             /\ t.bank = Saved(s) /\ t.raw.andy = Saved(s)[new].andy /\ t.raw.side = Saved(s)[new].side
             /\ t.romsel = s.romsel /\ t.invalidated = s.invalidated
             /\ t.through = IF IsMaster \/ (Curr(s) \in s.ram <=> new \in s.ram) THEN s.through ELSE new \in s.ram
<1> DEFINE bank == Saved(s)
           through == IF IsMaster \/ (Curr(s) \in s.ram <=> new \in s.ram) THEN s.through ELSE new \in s.ram
           andy == bank[new].andy
           side == bank[new].side
           t == [s EXCEPT !.bank = bank, !.raw.andy = andy, !.raw.side = side, !.through = through]
<1>1. bank = IF Curr(s) \in s.ram THEN [s.bank EXCEPT ![Curr(s)] = Sideways(s.raw)] ELSE s.bank
  BY DEF Saved, Sideways
<1>2. PageRom(s, Curr(s), new) = t
  BY <1>1 DEF PageRom
<1>3. bank \in [Bank -> Halves] /\ bank[new] \in Halves
  BY SavedIn
<1>4. through \in BOOLEAN
  <2>1. s.through \in BOOLEAN
    BY DEF Memories
  <2>2. CASE IsMaster \/ (Curr(s) \in s.ram <=> new \in s.ram)
    BY <2>1, <2>2
  <2>3. CASE ~(IsMaster \/ (Curr(s) \in s.ram <=> new \in s.ram))
    BY <2>3
  <2> QED
    BY <2>2, <2>3
<1> HIDE DEF bank, through
<1>5. andy \in Values /\ side \in Values
  BY <1>3 DEF Halves
<1> HIDE DEF andy, side
<1>6. /\ t \in Memories /\ SidewaysOnly(s, t) /\ t.andy = s.andy
      /\ t.bank = bank /\ t.raw.andy = andy /\ t.raw.side = side
      /\ t.romsel = s.romsel /\ t.invalidated = s.invalidated /\ t.through = through
  BY <1>3, <1>4, <1>5 DEF Memories, SidewaysOnly
<1> QED
  BY <1>2, <1>6 DEF bank, through, andy, side

\* ANDY put over a bank: what was there is kept in the bank.
LEMMA AndyInOn ==
  ASSUME NEW s \in Memories, NEW new \in Bank
  PROVE  LET t == AndyIn(s, new)
         IN  /\ t \in Memories /\ SidewaysOnly(s, t) /\ t.raw.side = s.raw.side /\ t.raw.andy = s.andy
             /\ t.andy = s.andy /\ t.romsel = s.romsel /\ t.invalidated = s.invalidated /\ t.through = s.through
             /\ t.bank \in [Bank -> Halves]
             /\ \A b \in Bank : t.bank[b].side = s.bank[b].side
             /\ \A b \in Bank : t.bank[b].andy = IF b = new THEN s.raw.andy ELSE s.bank[b].andy
<1> DEFINE bank == [s.bank EXCEPT ![new].andy = s.raw.andy]
           t == [s EXCEPT !.bank = bank, !.raw.andy = s.andy]
<1>1. s.bank \in [Bank -> Halves] /\ s.raw.andy \in Values
  BY DEF Memories
<1>2. bank \in [Bank -> Halves]
  BY <1>1 DEF Halves
<1>3. \A b \in Bank : /\ bank[b].side = s.bank[b].side
                      /\ bank[b].andy = IF b = new THEN s.raw.andy ELSE s.bank[b].andy
  BY <1>1 DEF Halves
<1>4. AndyIn(s, new) = t
  BY DEF AndyIn
<1> HIDE DEF bank
<1>5. /\ t \in Memories /\ SidewaysOnly(s, t) /\ t.raw.side = s.raw.side /\ t.raw.andy = s.andy
      /\ t.andy = s.andy /\ t.romsel = s.romsel /\ t.invalidated = s.invalidated /\ t.through = s.through
      /\ t.bank = bank
  BY <1>2 DEF Memories, SidewaysOnly
<1> QED
  BY <1>2, <1>3, <1>4, <1>5

\* Whether the mapping of a model B's writes is that of RAM once val is selected.
ThroughNow(s, val) ==
  IF IsMaster \/ (Curr(s) \in s.ram <=> EffectiveBank(s, val) \in s.ram) THEN s.through
  ELSE EffectiveBank(s, val) \in s.ram

\* After bbc_sideways_select every bank holds what was saved of it when the bank
\* changes, or else what it held; ANDY holds what it held.
Selected(s, val, t) ==
  /\ t \in Memories /\ SidewaysOnly(s, t) /\ t.romsel = val /\ ~t.invalidated
  /\ AndyOf(t) = AndyOf(s)
  /\ Changing(s, val) =>
       /\ \A b \in Bank : UnderOf(t, b) = Saved(s)[b].andy /\ SideOf(t, b) = Saved(s)[b].side
       /\ \A b \in Bank : t.bank[b] = Saved(s)[b]
       /\ t.through = ThroughNow(s, val) /\ Backed(t)
  /\ ~Changing(s, val) => t.through = s.through /\ \A b \in Bank : SameBank(s, t, b)
  /\ Backed(s) => Backed(t)

\* The record that SidewaysSelect ends with.
LEMMA RegisterOn ==
  ASSUME NEW s \in Memories, NEW val \in Romsels
  PROVE  LET t == [s EXCEPT !.romsel = val, !.invalidated = FALSE]
         IN  /\ t \in Memories /\ SidewaysOnly(s, t) /\ t.romsel = val /\ ~t.invalidated
             /\ t.raw = s.raw /\ t.andy = s.andy /\ t.bank = s.bank /\ t.through = s.through
BY DEF Memories, SidewaysOnly

\* bbc_sideways_select, of a machine with ANDY only if it is a Master.
LEMMA SelectOn ==
  ASSUME NEW s \in Memories, NEW val \in Romsels, s.romsel.andy \/ val.andy => IsMaster
  PROVE  Selected(s, val, SidewaysSelect(s, val))
<1> DEFINE curr     == Curr(s)
           new      == EffectiveBank(s, val)
           changing == Changing(s, val)
           taken    == IsMaster /\ s.romsel.andy /\ (~val.andy \/ changing)
           out      == IF taken THEN AndyOut(s, curr) ELSE s
           paged    == IF changing THEN PageRom(out, curr, new) ELSE out
           put      == IsMaster /\ val.andy /\ (~s.romsel.andy \/ changing)
           result   == IF put THEN AndyIn(paged, new) ELSE paged
           t        == [result EXCEPT !.romsel = val, !.invalidated = FALSE]
<1>1. SidewaysSelect(s, val) = t
  BY DEF SidewaysSelect, Curr, Changing
<1>2. /\ curr \in Bank /\ new \in Bank /\ s.romsel \in Romsels /\ s.romsel.andy \in BOOLEAN /\ val.andy \in BOOLEAN
      /\ (taken <=> s.romsel.andy /\ (~val.andy \/ changing))
      /\ (put <=> val.andy /\ (~s.romsel.andy \/ changing))
      /\ (~changing => curr = new)
      /\ s.raw.andy \in Values /\ s.raw.side \in Values /\ s.bank \in [Bank -> Halves]
  BY CurrIn DEF Memories, Curr, Changing, Romsels
<1>3. /\ \A b \in Bank : UnderOf(s, b) = IF b = curr THEN UnderNow(s) ELSE s.bank[b].andy
      /\ AndyOf(s) = AndyNow(s)
      /\ \A b \in Bank : SideOf(s, b) = IF b = curr THEN s.raw.side ELSE s.bank[b].side
  BY DEF UnderOf, UnderNow, AndyOf, AndyNow, SideOf
<1> HIDE DEF curr, new, changing, taken, put
<1>4. CASE changing
  <2>1. taken <=> s.romsel.andy
    BY <1>2, <1>4
  <2>2. put <=> val.andy
    BY <1>2, <1>4
  <2>3. /\ out \in Memories /\ SidewaysOnly(s, out) /\ out.raw.side = s.raw.side
        /\ out.raw.andy = UnderNow(s) /\ out.andy = AndyNow(s) /\ out.bank = s.bank
        /\ out.romsel = s.romsel /\ out.through = s.through
    <3>1. out = IF s.romsel.andy THEN AndyOut(s, Curr(s)) ELSE s
      BY <2>1 DEF curr
    <3> QED
      BY <1>2, <3>1, AndyOutOn
  <2> HIDE DEF out
  <2>4. Curr(out) = curr /\ out.ram = s.ram
    BY <2>3 DEF Curr, curr, EffectiveBank, SidewaysOnly
  <2>6. UnderNow(out) = UnderNow(s) /\ Saved(out) = Saved(s)
    <3>1. UnderNow(out) = UnderNow(s)
      BY <2>3, <2>4 DEF UnderNow, curr
    <3> QED
      BY <2>3, <2>4, <3>1 DEF Saved, curr
  <2>7. /\ paged \in Memories /\ SidewaysOnly(out, paged) /\ paged.andy = out.andy
        /\ paged.bank = Saved(s) /\ paged.raw.andy = Saved(s)[new].andy /\ paged.raw.side = Saved(s)[new].side
        /\ paged.through = IF IsMaster \/ (curr \in s.ram <=> new \in s.ram) THEN s.through ELSE new \in s.ram
    <3>1. paged = PageRom(out, Curr(out), new)
      BY <1>4, <2>4
    <3> QED
      BY <1>2, <2>3, <2>4, <2>6, <3>1, PageRomOn
  <2> HIDE DEF paged
  <2>8. /\ result \in Memories /\ SidewaysOnly(paged, result) /\ result.andy = AndyNow(s)
        /\ result.raw.andy = (IF val.andy THEN AndyNow(s) ELSE Saved(s)[new].andy)
        /\ result.raw.side = Saved(s)[new].side /\ result.through = paged.through
        /\ \A b \in Bank : result.bank[b] = Saved(s)[b]
    <3>1. CASE put
      <4>1. result = AndyIn(paged, new)
        BY <3>1
      <4> HIDE DEF result
      <4>2. /\ result \in Memories /\ SidewaysOnly(paged, result) /\ result.raw.side = paged.raw.side
            /\ result.raw.andy = paged.andy /\ result.andy = paged.andy /\ result.through = paged.through
            /\ result.bank \in [Bank -> Halves]
            /\ \A b \in Bank : result.bank[b].side = paged.bank[b].side
            /\ \A b \in Bank : result.bank[b].andy = IF b = new THEN paged.raw.andy ELSE paged.bank[b].andy
        <5>1. paged \in Memories /\ new \in Bank
          BY <1>2, <2>7
        <5> QED
          BY <4>1, <5>1, AndyInOn, SMTT(60)
      <4>3. \A b \in Bank : result.bank[b] = Saved(s)[b]
        <5>1. ASSUME NEW b \in Bank PROVE result.bank[b] = Saved(s)[b]
          <6>1. result.bank[b] \in Halves /\ Saved(s)[b] \in Halves
            BY <4>2, SavedIn
          <6>2. result.bank[b].side = Saved(s)[b].side /\ result.bank[b].andy = Saved(s)[b].andy
            BY <2>7, <4>2
          <6> QED
            BY <6>1, <6>2 DEF Halves
        <5> QED
          BY <5>1
      <4> QED
        BY <2>2, <2>3, <2>7, <3>1, <4>2, <4>3
    <3>2. CASE ~put
      <4>1. result = paged
        BY <3>2
      <4> QED
        BY <2>2, <2>3, <2>7, <3>2, <4>1 DEF SidewaysOnly
    <3> QED
      BY <3>1, <3>2
  <2> HIDE DEF result
  <2>9. /\ t \in Memories /\ SidewaysOnly(result, t) /\ t.romsel = val /\ ~t.invalidated
        /\ t.raw = result.raw /\ t.andy = result.andy /\ t.bank = result.bank /\ t.through = result.through
    BY <2>8, RegisterOn
  <2> HIDE DEF t
  <2>10. SidewaysOnly(s, t)
    BY <2>3, <2>7, <2>8, <2>9 DEF SidewaysOnly
  <2>11. Curr(t) = new
    BY <2>9, <2>10 DEF Curr, new, EffectiveBank, SidewaysOnly
  <2>12. AndyOf(t) = AndyOf(s)
    BY <1>3, <2>8, <2>9 DEF AndyOf
  <2>13. \A b \in Bank : UnderOf(t, b) = Saved(s)[b].andy /\ SideOf(t, b) = Saved(s)[b].side
    BY <1>2, <2>8, <2>9, <2>11 DEF UnderOf, SideOf
  <2>14. Backed(t)
    BY <1>2, <2>8, <2>9, <2>11 DEF Backed
  <2>15. t.through = ThroughNow(s, val)
    BY <2>7, <2>8, <2>9 DEF ThroughNow, curr, new
  <2> QED
    BY <1>1, <1>4, <2>8, <2>9, <2>10, <2>12, <2>13, <2>14, <2>15 DEF Selected, changing
<1>5. CASE ~changing
  <2>1. (taken <=> s.romsel.andy /\ ~val.andy) /\ (put <=> val.andy /\ ~s.romsel.andy) /\ curr = new
    BY <1>2, <1>5
  <2>2. paged = out
    BY <1>5
  <2>3. CASE taken
    <3>1. result = AndyOut(s, Curr(s))
      BY <2>1, <2>2, <2>3 DEF curr
    <3> HIDE DEF result
    <3>9. result = IF s.romsel.andy THEN AndyOut(s, Curr(s)) ELSE s
      BY <2>1, <2>3, <3>1
    <3>2. /\ result \in Memories /\ SidewaysOnly(s, result) /\ result.raw.side = s.raw.side
          /\ result.raw.andy = UnderNow(s) /\ result.andy = AndyNow(s) /\ result.bank = s.bank
          /\ result.through = s.through
      BY <1>2, <3>9, AndyOutOn
    <3>3. /\ t \in Memories /\ SidewaysOnly(result, t) /\ t.romsel = val /\ ~t.invalidated
          /\ t.raw = result.raw /\ t.andy = result.andy /\ t.bank = result.bank /\ t.through = result.through
      BY <3>2, RegisterOn
    <3> HIDE DEF t
    <3>4. SidewaysOnly(s, t)
      BY <3>2, <3>3 DEF SidewaysOnly
    <3>5. Curr(t) = curr
      BY <2>1, <3>3, <3>4 DEF Curr, new, EffectiveBank, SidewaysOnly
    <3>6. AndyOf(t) = AndyOf(s)
      BY <1>3, <2>1, <2>3, <3>2, <3>3 DEF AndyOf
    <3>7. \A b \in Bank : SameBank(s, t, b)
      BY <1>3, <2>1, <2>3, <3>2, <3>3, <3>5 DEF SameBank, UnderOf, SideOf
    <3>8. Backed(s) => Backed(t)
      BY <2>1, <2>3, <3>2, <3>3, <3>4, <3>5 DEF Backed, UnderNow, SidewaysOnly, curr
    <3> QED
      BY <1>1, <1>5, <3>2, <3>3, <3>4, <3>6, <3>7, <3>8 DEF Selected, changing
  <2>4. CASE put
    <3>1. result = AndyIn(s, new)
      BY <2>1, <2>2, <2>4
    <3> HIDE DEF result
    <3>2. /\ result \in Memories /\ SidewaysOnly(s, result) /\ result.raw.side = s.raw.side
          /\ result.raw.andy = s.andy /\ result.andy = s.andy /\ result.through = s.through
          /\ \A b \in Bank : result.bank[b].side = s.bank[b].side
          /\ \A b \in Bank : result.bank[b].andy = IF b = new THEN s.raw.andy ELSE s.bank[b].andy
      BY <1>2, <3>1, AndyInOn
    <3>3. /\ t \in Memories /\ SidewaysOnly(result, t) /\ t.romsel = val /\ ~t.invalidated
          /\ t.raw = result.raw /\ t.andy = result.andy /\ t.bank = result.bank /\ t.through = result.through
      BY <3>2, RegisterOn
    <3> HIDE DEF t
    <3>4. SidewaysOnly(s, t)
      BY <3>2, <3>3 DEF SidewaysOnly
    <3>5. Curr(t) = curr
      BY <2>1, <3>3, <3>4 DEF Curr, new, EffectiveBank, SidewaysOnly
    <3>6. AndyOf(t) = AndyOf(s)
      BY <2>1, <2>4, <3>2, <3>3 DEF AndyOf
    <3>7. \A b \in Bank : SameBank(s, t, b)
      BY <1>2, <1>3, <2>1, <2>4, <3>2, <3>3, <3>5 DEF SameBank, UnderOf, SideOf, UnderNow
    <3>8. Backed(s) => Backed(t)
      BY <1>2, <2>1, <2>4, <3>2, <3>3, <3>4, <3>5 DEF Backed, SidewaysOnly, curr
    <3> QED
      BY <1>1, <1>5, <3>2, <3>3, <3>4, <3>6, <3>7, <3>8 DEF Selected, changing
  <2>5. CASE ~taken /\ ~put
    <3>1. result = s
      BY <2>2, <2>5
    <3>2. s.romsel.andy <=> val.andy
      BY <2>1, <2>5
    <3> HIDE DEF result
    <3>9. t = [s EXCEPT !.romsel = val, !.invalidated = FALSE]
      BY <3>1
    <3> HIDE DEF t
    <3>3. /\ t \in Memories /\ SidewaysOnly(s, t) /\ t.romsel = val /\ ~t.invalidated
          /\ t.raw = s.raw /\ t.andy = s.andy /\ t.bank = s.bank /\ t.through = s.through
      BY <3>9, RegisterOn
    <3>5. Curr(t) = curr
      BY <2>1, <3>3 DEF Curr, new, EffectiveBank, SidewaysOnly
    <3>6. AndyOf(t) = AndyOf(s)
      BY <3>2, <3>3 DEF AndyOf
    <3>7. \A b \in Bank : SameBank(s, t, b)
      BY <3>2, <3>3, <3>5 DEF SameBank, UnderOf, SideOf, curr
    <3>8. Backed(s) => Backed(t)
      BY <3>2, <3>3, <3>5 DEF Backed, SidewaysOnly, curr
    <3> QED
      BY <1>1, <1>5, <3>3, <3>6, <3>7, <3>8 DEF Selected, changing
  <2> QED
    BY <2>3, <2>4, <2>5
<1> QED
  BY <1>4, <1>5

-----------------------------------------------------------------------------
(* A write of ACCCON: bbc_set_acccon. *)

\* The display and the operating system's shadow accesses as ACCCON has them.
DerivedOf(s) ==
  /\ s.different = (MosAccessShadow(s.acccon) # s.acccon.x)
  /\ s.shown = (s.acccon.d # s.acccon.x)
  /\ ~s.acccon.y => s.raw.hazel = OsRom

\* From s to t only LYNNE, HAZEL and ACCCON may differ.
ShadowOnly(s, t) ==
  /\ t.raw.andy = s.raw.andy /\ t.raw.side = s.raw.side /\ t.bank = s.bank /\ t.andy = s.andy
  /\ t.romsel = s.romsel /\ t.extended = s.extended /\ t.invalidated = s.invalidated
  /\ t.ram = s.ram /\ t.through = s.through

\* The derived bits of ACCCON are bits.
LEMMA MosIsBoolean ==
  ASSUME NEW val \in Acccons
  PROVE  MosAccessShadow(val) \in BOOLEAN /\ (MosAccessShadow(val) # val.x) \in BOOLEAN /\ (val.d # val.x) \in BOOLEAN
BY DEF MosAccessShadow, Acccons

\* The copies of LYNNE and main memory are exchanged when X changes.
LEMMA LynneOn ==
  ASSUME NEW s \in Memories, NEW swap \in BOOLEAN
  PROVE  LET t == IF swap THEN SwapLynne(s) ELSE s
         IN  /\ t \in Memories /\ ShadowOnly(s, t) /\ t.acccon = s.acccon
             /\ t.raw.hazel = s.raw.hazel /\ t.hazel = s.hazel
             /\ t.lynne = (IF swap THEN s.raw.shadow ELSE s.lynne)
             /\ t.raw.shadow = (IF swap THEN s.lynne ELSE s.raw.shadow)
<1> DEFINE t == [s EXCEPT !.lynne = s.raw.shadow, !.raw.shadow = s.lynne]
<1>1. /\ t \in Memories /\ ShadowOnly(s, t) /\ t.acccon = s.acccon
      /\ t.raw.hazel = s.raw.hazel /\ t.hazel = s.hazel
      /\ t.lynne = s.raw.shadow /\ t.raw.shadow = s.lynne
  BY DEF Memories, ShadowOnly
<1>2. SwapLynne(s) = t
  BY DEF SwapLynne
<1>3. ShadowOnly(s, s)
  BY DEF ShadowOnly
<1> HIDE DEF t
<1> QED
  BY <1>1, <1>2, <1>3

\* HAZEL is copied in and out when Y changes.
LEMMA HazelOn ==
  ASSUME NEW s \in Memories, NEW in \in BOOLEAN
  PROVE  LET t == IF in THEN HazelIn(s) ELSE HazelOut(s)
         IN  /\ t \in Memories /\ ShadowOnly(s, t) /\ t.acccon = s.acccon
             /\ t.lynne = s.lynne /\ t.raw.shadow = s.raw.shadow
             /\ t.hazel = (IF in THEN s.hazel ELSE s.raw.hazel)
             /\ t.raw.hazel = (IF in THEN s.hazel ELSE OsRom)
<1> DEFINE t == [s EXCEPT !.raw.hazel = s.hazel]
           u == [s EXCEPT !.hazel = s.raw.hazel, !.raw.hazel = OsRom]
<1>0. OsRom \in Values
  BY DEF Values
<1>1. /\ t \in Memories /\ ShadowOnly(s, t) /\ t.acccon = s.acccon
      /\ t.lynne = s.lynne /\ t.raw.shadow = s.raw.shadow
      /\ t.hazel = s.hazel /\ t.raw.hazel = s.hazel
  BY DEF Memories, ShadowOnly
<1>2. /\ u \in Memories /\ ShadowOnly(s, u) /\ u.acccon = s.acccon
      /\ u.lynne = s.lynne /\ u.raw.shadow = s.raw.shadow
      /\ u.hazel = s.raw.hazel /\ u.raw.hazel = OsRom
  BY <1>0 DEF Memories, ShadowOnly
<1>3. HazelIn(s) = t /\ HazelOut(s) = u
  BY DEF HazelIn, HazelOut
<1> HIDE DEF t, u
<1> QED
  BY <1>1, <1>2, <1>3

\* bbc_set_acccon moves LYNNE and HAZEL and changes what no chip holds.
LEMMA SetAccconOn ==
  ASSUME NEW s \in Memories, NEW val \in Acccons
  PROVE  LET t == SetAcccon(s, val)
         IN  /\ t \in Memories /\ ShadowOnly(s, t) /\ t.acccon = val
             /\ SameShadow(s, t) /\ HazelOf(t) = HazelOf(s)
             /\ DerivedOf(s) => DerivedOf(t)
<1> DEFINE swap == val.x # s.acccon.x
           lynne == IF swap THEN SwapLynne(s) ELSE s
           moved == IF val.y THEN HazelIn(lynne) ELSE HazelOut(lynne)
           hazel == IF val.y = s.acccon.y THEN lynne ELSE moved
           shown == ShadowDisplay(s, val)
           different == MosAccessShadow(val) # val.x
           t == [hazel EXCEPT !.acccon = val, !.shown = shown, !.different = different]
<1>1. SetAcccon(s, val) = t
  BY DEF SetAcccon
<1>2. swap \in BOOLEAN /\ val.y \in BOOLEAN /\ s.acccon.y \in BOOLEAN /\ val.x \in BOOLEAN /\ s.acccon.x \in BOOLEAN
  BY DEF Memories, Acccons
<1>3. different \in BOOLEAN /\ shown \in BOOLEAN
  <2>1. (val.d # val.x) \in BOOLEAN /\ s.shown \in BOOLEAN
    BY DEF Memories
  <2> QED
    BY <2>1, MosIsBoolean DEF ShadowDisplay
<1>4. s.shown = (s.acccon.d # s.acccon.x) => shown = (val.d # val.x)
  BY DEF ShadowDisplay
<1>5. swap <=> val.x # s.acccon.x
  OBVIOUS
<1> HIDE DEF swap
<1>6. /\ lynne \in Memories /\ ShadowOnly(s, lynne) /\ lynne.acccon = s.acccon
      /\ lynne.raw.hazel = s.raw.hazel /\ lynne.hazel = s.hazel
      /\ lynne.lynne = (IF swap THEN s.raw.shadow ELSE s.lynne)
      /\ lynne.raw.shadow = (IF swap THEN s.lynne ELSE s.raw.shadow)
  BY <1>2, LynneOn
<1> HIDE DEF lynne
<1>7. /\ moved \in Memories /\ ShadowOnly(lynne, moved) /\ moved.acccon = lynne.acccon
      /\ moved.lynne = lynne.lynne /\ moved.raw.shadow = lynne.raw.shadow
      /\ moved.hazel = (IF val.y THEN lynne.hazel ELSE lynne.raw.hazel)
      /\ moved.raw.hazel = (IF val.y THEN lynne.hazel ELSE OsRom)
  BY <1>2, <1>6, HazelOn
<1> HIDE DEF moved
<1>8. /\ hazel \in Memories /\ ShadowOnly(s, hazel)
      /\ hazel.lynne = lynne.lynne /\ hazel.raw.shadow = lynne.raw.shadow
      /\ hazel.hazel = (IF val.y = s.acccon.y \/ val.y THEN s.hazel ELSE s.raw.hazel)
      /\ hazel.raw.hazel = (IF val.y = s.acccon.y THEN s.raw.hazel ELSE IF val.y THEN s.hazel ELSE OsRom)
  BY <1>6, <1>7 DEF ShadowOnly
<1> HIDE DEF hazel, shown, different
<1>9. /\ t \in Memories /\ ShadowOnly(hazel, t) /\ t.acccon = val /\ t.raw.hazel = hazel.raw.hazel
      /\ t.hazel = hazel.hazel /\ t.lynne = hazel.lynne /\ t.raw.shadow = hazel.raw.shadow
      /\ t.shown = shown /\ t.different = different
  BY <1>3, <1>8 DEF Memories, ShadowOnly
<1> HIDE DEF t
<1>10. ShadowOnly(s, t)
  BY <1>8, <1>9 DEF ShadowOnly
<1>11. SameShadow(s, t)
  BY <1>2, <1>5, <1>6, <1>8, <1>9 DEF SameShadow, MainOf, LynneOf
<1>12. HazelOf(t) = HazelOf(s)
  BY <1>2, <1>8, <1>9 DEF HazelOf
<1>13. ASSUME DerivedOf(s) PROVE DerivedOf(t)
  <2>1. t.different = (MosAccessShadow(val) # val.x)
    BY <1>9 DEF different
  <2>2. t.shown = (val.d # val.x)
    BY <1>4, <1>9, <1>13 DEF DerivedOf
  <2>3. ~val.y => t.raw.hazel = OsRom
    BY <1>2, <1>8, <1>9, <1>13 DEF DerivedOf
  <2> QED
    BY <1>9, <2>1, <2>2, <2>3 DEF DerivedOf
<1> QED
  BY <1>1, <1>9, <1>10, <1>11, <1>12, <1>13

-----------------------------------------------------------------------------
(* The chips of PagedMemory. *)

At(s, chip) ==
  CASE chip[1] = "main"  -> MainOf(s)
    [] chip[1] = "lynne" -> LynneOf(s)
    [] chip[1] = "hazel" -> HazelOf(s)
    [] chip[1] = "andy"  -> AndyOf(s)
    [] chip[1] = "os"    -> OsRom
    [] chip[1] = "under" -> UnderOf(s, chip[2])
    [] chip[1] = "side"  -> SideOf(s, chip[2])

\* The chips, one by one.
LEMMA ChipsAre ==
  ASSUME NEW chip \in Chips
  PROVE  \/ chip \in {<<"main", 0>>, <<"lynne", 0>>, <<"hazel", 0>>, <<"andy", 0>>, <<"os", 0>>}
         \/ \E b \in Bank : chip \in {<<"under", b>>, <<"side", b>>}
BY DEF Chips

\* What each of them holds.
LEMMA AtThem ==
  ASSUME NEW s
  PROVE  /\ At(s, <<"main", 0>>) = MainOf(s) /\ At(s, <<"lynne", 0>>) = LynneOf(s)
         /\ At(s, <<"hazel", 0>>) = HazelOf(s) /\ At(s, <<"andy", 0>>) = AndyOf(s)
         /\ At(s, <<"os", 0>>) = OsRom
         /\ \A b : At(s, <<"under", b>>) = UnderOf(s, b) /\ At(s, <<"side", b>>) = SideOf(s, b)
BY DEF At

\* They are what Memory says is held, now and after a step.
LEMMA HeldIs ==
  ASSUME NEW chip \in Chips
  PROVE  Held(chip) = At(m, chip) /\ Held(chip)' = At(m', chip)
<1>1. CASE chip \in {<<"main", 0>>, <<"lynne", 0>>, <<"hazel", 0>>, <<"andy", 0>>, <<"os", 0>>}
  BY <1>1 DEF Held, At, MainOf, LynneOf, HazelOf, AndyOf
<1>2. ASSUME NEW b \in Bank, chip \in {<<"under", b>>, <<"side", b>>}
      PROVE  Held(chip) = At(m, chip) /\ Held(chip)' = At(m', chip)
  BY <1>2 DEF Held, At, UnderOf, SideOf, Curr
<1> QED
  BY <1>1, <1>2, ChipsAre

SameAll(s, t) ==
  /\ SameShadow(s, t) /\ HazelOf(t) = HazelOf(s) /\ AndyOf(t) = AndyOf(s)
  /\ \A b \in Bank : SameBank(s, t, b)

\* Nothing but the chips named may differ.
LEMMA Others ==
  ASSUME NEW s, NEW t
  PROVE  /\ SameAll(s, t) => \A chip \in Chips : At(t, chip) = At(s, chip)
         /\ \A b \in Bank :
              SameShadow(s, t) /\ HazelOf(t) = HazelOf(s) /\ AndyOf(t) = AndyOf(s)
              /\ (\A c \in Bank \ {b} : SameBank(s, t, c))
                => \A chip \in Chips \ {<<"under", b>>, <<"side", b>>} : At(t, chip) = At(s, chip)
<1>1. ASSUME SameAll(s, t), NEW chip \in Chips PROVE At(t, chip) = At(s, chip)
  <2>1. CASE chip \in {<<"main", 0>>, <<"lynne", 0>>, <<"hazel", 0>>, <<"andy", 0>>, <<"os", 0>>}
    BY <1>1, <2>1, AtThem DEF SameAll, SameShadow
  <2>2. ASSUME NEW b \in Bank, chip \in {<<"under", b>>, <<"side", b>>} PROVE At(t, chip) = At(s, chip)
    BY <1>1, <2>2, AtThem DEF SameAll, SameBank
  <2> QED
    BY <2>1, <2>2, ChipsAre
<1>2. ASSUME NEW b \in Bank, SameShadow(s, t), HazelOf(t) = HazelOf(s), AndyOf(t) = AndyOf(s),
             \A c \in Bank \ {b} : SameBank(s, t, c), NEW chip \in Chips \ {<<"under", b>>, <<"side", b>>}
      PROVE  At(t, chip) = At(s, chip)
  <2>1. CASE chip \in {<<"main", 0>>, <<"lynne", 0>>, <<"hazel", 0>>, <<"andy", 0>>, <<"os", 0>>}
    BY <1>2, <2>1, AtThem DEF SameShadow
  <2>2. ASSUME NEW c \in Bank, chip \in {<<"under", c>>, <<"side", c>>} PROVE At(t, chip) = At(s, chip)
    <3>1. c \in Bank \ {b}
      BY <1>2, <2>2
    <3> QED
      BY <1>2, <2>2, <3>1, AtThem DEF SameBank
  <2> QED
    BY <1>2, <2>1, <2>2, ChipsAre
<1> QED
  BY <1>1, <1>2

\* What is saved of a bank that may be dropped is what it holds.
LEMMA SavedIsHeld ==
  ASSUME NEW s \in Memories, Backed(s), NEW b \in Bank
  PROVE  Saved(s)[b].andy = UnderOf(s, b) /\ Saved(s)[b].side = SideOf(s, b)
<1>1. Saved(s)[b] = IF b = Curr(s) /\ b \in s.ram THEN [andy |-> UnderNow(s), side |-> s.raw.side] ELSE s.bank[b]
  BY SavedIn
<1>2. s.romsel.andy \in BOOLEAN
  BY DEF Memories, Romsels
<1> QED
  BY <1>1, <1>2 DEF Backed, UnderNow, UnderOf, SideOf

\* Selecting a bank changes no chip.
LEMMA SelectHolds ==
  ASSUME NEW s \in Memories, Backed(s), NEW val \in Romsels, s.romsel.andy \/ val.andy => IsMaster
  PROVE  SameAll(s, SidewaysSelect(s, val))
<1> DEFINE t == SidewaysSelect(s, val)
<1>1. Selected(s, val, t)
  BY SelectOn
<1> HIDE DEF t
<1>2. SameShadow(s, t) /\ HazelOf(t) = HazelOf(s) /\ AndyOf(t) = AndyOf(s)
  BY <1>1 DEF Selected, SidewaysOnly, SameShadow, MainOf, LynneOf, HazelOf
<1>3. \A b \in Bank : SameBank(s, t, b)
  BY <1>1, SavedIsHeld DEF Selected, SameBank
<1> QED
  BY <1>2, <1>3 DEF SameAll, t

-----------------------------------------------------------------------------
(* The banks main() fills: bbc_load_rom and bbc_make_sideways_ram. *)

\* s is m with the bank that is dealt with made RAM or given other contents.
Fitting(s) ==
  /\ s \in Memories /\ s.romsel = m.romsel /\ s.invalidated /\ s.extended = Extended(m, slot)
  /\ s.raw = m.raw /\ s.lynne = m.lynne /\ s.hazel = m.hazel /\ s.andy = m.andy /\ s.acccon = m.acccon
  /\ s.through = m.through /\ s.different = m.different /\ s.shown = m.shown
  /\ \/ s.ram = m.ram /\ \A b \in Bank \ {slot} : s.bank[b] = m.bank[b]
     \/ s.ram = m.ram \cup {slot} /\ slot \in fitted.ram /\ s.bank = m.bank

\* Before main() is done the bank selected is the first, or the first socket.
LEMMA CurrAtFirst ==
  ASSUME NEW s, s.romsel = NoRomsel, s.extended \in BOOLEAN
  PROVE  Curr(s) = IF s.extended THEN 0 ELSE NumRoms - Sockets
<1>1. 0 % Sockets = 0
  BY MemoryAssumption
<1> QED
  BY <1>1, MemoryAssumption DEF Curr, EffectiveBank, NoRomsel

\* Dealing with a bank changes that bank at most, and not what is in it when it is
\* made RAM.
LEMMA FitHolds ==
  ASSUME IInv, ~Running, NEW s, Fitting(s)
  PROVE  LET t == SidewaysSelect(s, s.romsel)
         IN  /\ Selected(s, s.romsel, t) /\ slot \in Bank
             /\ SameShadow(m, t) /\ HazelOf(t) = HazelOf(m) /\ AndyOf(t) = AndyOf(m)
             /\ \A b \in Bank \ {slot} : SameBank(m, t, b)
             /\ s.bank = m.bank => \A b \in Bank : SameBank(m, t, b)
<1> DEFINE t == SidewaysSelect(s, s.romsel)
           flips == s.extended # m.extended
<1>1. /\ m \in Memories /\ s \in Memories /\ slot \in 0 .. NumRoms /\ slot # NumRoms /\ Backed(m)
      /\ m.romsel = NoRomsel /\ s.romsel \in Romsels /\ ~s.romsel.andy
      /\ m.extended \in BOOLEAN /\ s.extended \in BOOLEAN /\ m.ram \subseteq Bank
      /\ m.bank \in [Bank -> Halves] /\ s.bank \in [Bank -> Halves]
  BY DEF IInv, Typed, InOrder, Running, Fitting, Memories, NoRomsel
<1>2. slot \in Bank /\ slot < NumRoms
  BY <1>1, MemoryAssumption DEF Bank
<1>3. Selected(s, s.romsel, t) /\ Changing(s, s.romsel)
  BY <1>1, SelectOn DEF Changing, Fitting
<1> HIDE DEF t
<1>4. SameShadow(m, t) /\ HazelOf(t) = HazelOf(m) /\ AndyOf(t) = AndyOf(m)
  BY <1>1, <1>3 DEF Selected, SidewaysOnly, Fitting, SameShadow, MainOf, LynneOf, HazelOf, AndyOf
<1>5. flips => m.ram = {} /\ Low(slot) /\ ~m.extended /\ s.extended
  <2>1. ASSUME flips PROVE Low(slot) /\ ~m.extended /\ s.extended
    BY <1>1, <2>1 DEF Fitting, Extended, Low
  <2>2. ASSUME flips, NEW b \in m.ram PROVE FALSE
    <3>1. b <= slot /\ (Low(b) => m.extended) /\ b \in Bank
      BY <1>1 DEF IInv, InOrder
    <3>2. Low(b)
      BY <1>2, <2>1, <2>2, <3>1, MemoryAssumption DEF Low, Bank
    <3> QED
      BY <2>1, <2>2, <3>1, <3>2
  <2> QED
    BY <2>1, <2>2
<1>6. \A b \in Bank : Saved(s)[b] =
        IF b = Curr(s) /\ b \in s.ram THEN [andy |-> UnderNow(s), side |-> s.raw.side] ELSE s.bank[b]
  BY <1>1, SavedIn
<1>7. UnderNow(s) = m.raw.andy /\ s.raw.side = m.raw.side /\ ~m.romsel.andy
  BY <1>1 DEF UnderNow, Fitting
<1>8. \A b \in Bank : UnderOf(t, b) = Saved(s)[b].andy /\ SideOf(t, b) = Saved(s)[b].side
  BY <1>3 DEF Selected
<1>9. \A b \in Bank : /\ UnderOf(m, b) = IF b = Curr(m) THEN m.raw.andy ELSE m.bank[b].andy
                      /\ SideOf(m, b) = IF b = Curr(m) THEN m.raw.side ELSE m.bank[b].side
  BY <1>7 DEF UnderOf, SideOf
<1>10. Curr(m) \notin m.ram => m.raw.side = m.bank[Curr(m)].side /\ m.raw.andy = m.bank[Curr(m)].andy
  BY <1>1, <1>7 DEF Backed
<1>11. ~flips => Curr(s) = Curr(m)
  BY <1>1 DEF Curr, EffectiveBank, Fitting
<1>12. flips => Curr(s) = 0 /\ Curr(m) = NumRoms - Sockets
  BY <1>1, <1>5, CurrAtFirst DEF Fitting
<1>13. ASSUME NEW b \in Bank, b # slot \/ s.bank = m.bank
       PROVE  SameBank(m, t, b)
  <2>1. s.bank[b] = m.bank[b]
    BY <1>13 DEF Fitting
  <2>2. CASE ~flips
    <3>1. CASE b = Curr(m) /\ b \in s.ram
      BY <1>6, <1>7, <1>8, <1>9, <1>11, <2>2, <3>1 DEF SameBank
    <3>2. CASE ~(b = Curr(m) /\ b \in s.ram)
      <4>1. b = Curr(m) => b \notin m.ram
        BY <3>2 DEF Fitting
      <4> QED
        BY <1>6, <1>8, <1>9, <1>10, <1>11, <2>1, <2>2, <3>2, <4>1 DEF SameBank
    <3> QED
      BY <3>1, <3>2
  <2>3. CASE flips /\ ~(b = Curr(s) /\ b \in s.ram)
    BY <1>5, <1>6, <1>8, <1>9, <1>10, <2>1, <2>3 DEF SameBank
  <2>4. CASE flips /\ b = Curr(s) /\ b \in s.ram
    <3>1. b = 0 /\ slot = 0 /\ s.ram = m.ram \cup {slot}
      BY <1>5, <1>12, <2>4 DEF Fitting
    <3>2. NumRoms - Sockets \in Bank /\ NumRoms - Sockets > slot /\ b # NumRoms - Sockets /\ Low(b)
      BY <1>2, <1>5, <2>4, <3>1, MemoryAssumption DEF Low, Bank
    <3>3. m.bank[b] = [andy |-> Cleared, side |-> Cleared]
      BY <1>1, <1>5, <2>4, <3>2 DEF IInv, InOrder, Running
    <3>4. m.bank[NumRoms - Sockets] = [andy |-> Cleared, side |-> Cleared]
      BY <1>1, <3>2 DEF IInv, InOrder, Running
    <3>5. m.raw.side = Cleared /\ m.raw.andy = Cleared
      BY <1>5, <1>10, <1>12, <2>4, <3>4
    <3> QED
      BY <1>6, <1>7, <1>8, <1>9, <1>12, <2>4, <3>2, <3>3, <3>5 DEF SameBank
  <2> QED
    BY <2>2, <2>3, <2>4
<1> QED
  BY <1>2, <1>3, <1>4, <1>13 DEF t

\* It keeps the invariant.
LEMMA FitKeeps ==
  ASSUME IInv, ~Running, NEW s, Fitting(s), m' = SidewaysSelect(s, s.romsel),
         UNCHANGED <<trapped, slot, fitted, untold, romPaged>>
  PROVE  IInv'
<1> DEFINE t == SidewaysSelect(s, s.romsel)
<1>1. Selected(s, s.romsel, t) /\ slot \in Bank
  BY FitHolds
<1>2. /\ s \in Memories /\ s.romsel = NoRomsel /\ m.romsel = NoRomsel /\ m \in Memories
      /\ m.acccon = NoAcccon /\ ~m.through /\ romPaged = FALSE /\ s.invalidated
  BY DEF IInv, Typed, InOrder, Fitting
<1>3. m' = t
  OBVIOUS
<1> HIDE DEF t
<1>4. Changing(s, s.romsel) /\ EffectiveBank(s, s.romsel) = Curr(s)
  BY <1>2 DEF Changing, Curr
<1>5. /\ t \in Memories /\ SidewaysOnly(s, t) /\ t.romsel = NoRomsel /\ Backed(t)
      /\ t.through = ThroughNow(s, s.romsel) /\ \A b \in Bank : t.bank[b] = Saved(s)[b]
  BY <1>1, <1>2, <1>4 DEF Selected
<1>6. ~t.through
  BY <1>2, <1>4, <1>5 DEF ThroughNow, Fitting
<1>7. (m.extended => t.extended) /\ (Low(slot) => t.extended) /\ t.ram = s.ram
  BY <1>5 DEF SidewaysOnly, Fitting, Extended, Low
<1>8. Typed'
  BY <1>3, <1>5 DEF IInv, Typed
<1>9. OfItsModel'
  BY <1>2, <1>3, <1>5, <1>7 DEF IInv, OfItsModel, IsMaster, NoRomsel, SidewaysOnly, Fitting
<1>10. Derived'
  BY <1>3, <1>5 DEF IInv, Derived, IsMaster, SidewaysOnly, Fitting
<1>11. Through'
  BY <1>2, <1>3, <1>6 DEF Through
<1>12. \A b \in t.ram : b <= slot /\ b \in fitted.ram /\ (Low(b) => t.extended)
  <2>1. slot <= slot
    BY <1>1 DEF Bank
  <2> QED
    BY <1>7, <2>1 DEF IInv, InOrder, Fitting
<1>13. ASSUME NEW b \in Bank, b > slot \/ (~t.extended /\ Low(b))
       PROVE  t.bank[b] = [andy |-> Cleared, side |-> Cleared]
  <2>1. b \notin s.ram
    BY <1>1, <1>7, <1>12, <1>13 DEF Bank
  <2>2. Saved(s)[b] = s.bank[b]
    BY <1>2, <2>1, SavedIn
  <2>3. b # slot
    BY <1>1, <1>7, <1>13 DEF Bank
  <2>4. s.bank[b] = m.bank[b]
    BY <2>3 DEF Fitting
  <2>5. b > slot \/ (~m.extended /\ Low(b))
    BY <1>7, <1>13
  <2> QED
    BY <1>5, <2>2, <2>4, <2>5 DEF IInv, InOrder
<1>14. InOrder'
  BY <1>2, <1>3, <1>5, <1>6, <1>12, <1>13 DEF InOrder, SidewaysOnly, Fitting
<1> QED
  BY <1>3, <1>5, <1>8, <1>9, <1>10, <1>11, <1>14 DEF IInv, Backed, Curr, EffectiveBank

\* bbc_load_rom and bbc_make_sideways_ram are such steps.
LEMMA LoadRomFits ==
  ASSUME IInv, LoadRom
  PROVE  LET s == [m EXCEPT !.bank[slot] = [andy |-> RomOf(slot), side |-> RomOf(slot)],
                            !.extended = Extended(m, slot), !.invalidated = TRUE]
         IN  /\ Fitting(s) /\ m' = SidewaysSelect(s, s.romsel)
             /\ ~Running /\ s.ram = m.ram /\ UNCHANGED <<trapped, slot, fitted, untold, romPaged>>
<1> DEFINE rom == [andy |-> RomOf(slot), side |-> RomOf(slot)]
           bank == [m.bank EXCEPT ![slot] = rom]
           extended == Extended(m, slot)
           s == [m EXCEPT !.bank = bank, !.extended = extended, !.invalidated = TRUE]
<1>1. /\ m \in Memories /\ slot \in 0 .. NumRoms /\ ~Running /\ m.extended \in BOOLEAN /\ m.bank \in [Bank -> Halves]
  BY DEF IInv, Typed, Memories, LoadRom
<1>2. slot \in Bank
  BY <1>1, MemoryAssumption DEF Running, Bank
<1>3. extended \in BOOLEAN
  BY <1>1 DEF Extended
<1>4. rom \in Halves
  BY <1>2 DEF Halves, Values
<1> HIDE DEF rom, extended
<1>5. bank \in [Bank -> Halves] /\ \A b \in Bank \ {slot} : bank[b] = m.bank[b]
  BY <1>1, <1>2, <1>4
<1> HIDE DEF bank
<1>6. /\ s \in Memories /\ s.romsel = m.romsel /\ s.invalidated /\ s.extended = extended
      /\ s.raw = m.raw /\ s.lynne = m.lynne /\ s.hazel = m.hazel /\ s.andy = m.andy /\ s.acccon = m.acccon
      /\ s.through = m.through /\ s.different = m.different /\ s.shown = m.shown /\ s.ram = m.ram
      /\ s.bank = bank
  BY <1>1, <1>3, <1>5 DEF Memories
<1> HIDE DEF s
<1>7. Fitting(s)
  BY <1>5, <1>6 DEF Fitting, extended
<1>8. m' = SidewaysSelect(s, s.romsel) /\ UNCHANGED <<trapped, slot, fitted, untold, romPaged>>
  BY DEF LoadRom, s, bank, rom, extended
<1>9. s = [m EXCEPT !.bank[slot] = [andy |-> RomOf(slot), side |-> RomOf(slot)],
                    !.extended = Extended(m, slot), !.invalidated = TRUE]
  BY DEF s, bank, rom, extended
<1> QED
  BY <1>1, <1>6, <1>7, <1>8, <1>9

\* Making a bank RAM changes the set of RAM alone before the bank is selected.
LEMMA MakeRamFits ==
  ASSUME IInv, MakeSidewaysRam
  PROVE  LET s == [m EXCEPT !.ram = @ \cup {slot}, !.extended = Extended(m, slot), !.invalidated = TRUE]
         IN  /\ Fitting(s) /\ m' = SidewaysSelect(s, s.romsel)
             /\ ~Running /\ s.bank = m.bank /\ s.ram = m.ram \cup {slot}
             /\ UNCHANGED <<trapped, slot, fitted, untold, romPaged>>
<1> DEFINE extended == Extended(m, slot)
           ram == m.ram \cup {slot}
           s == [m EXCEPT !.ram = ram, !.extended = extended, !.invalidated = TRUE]
<1>1. /\ m \in Memories /\ slot \in 0 .. NumRoms /\ ~Running /\ m.extended \in BOOLEAN /\ slot \in fitted.ram
      /\ m.ram \subseteq Bank
  BY DEF IInv, Typed, Memories, MakeSidewaysRam
<1>2. slot \in Bank
  BY <1>1, MemoryAssumption DEF Running, Bank
<1>3. extended \in BOOLEAN /\ ram \subseteq Bank
  BY <1>1, <1>2 DEF Extended
<1> HIDE DEF extended, ram
<1>6. /\ s \in Memories /\ s.romsel = m.romsel /\ s.invalidated /\ s.extended = extended
      /\ s.raw = m.raw /\ s.lynne = m.lynne /\ s.hazel = m.hazel /\ s.andy = m.andy /\ s.acccon = m.acccon
      /\ s.through = m.through /\ s.different = m.different /\ s.shown = m.shown /\ s.ram = ram
      /\ s.bank = m.bank
  BY <1>1, <1>3 DEF Memories
<1> HIDE DEF s
<1>7. Fitting(s)
  BY <1>1, <1>6 DEF Fitting, extended, ram
<1>9. s = [m EXCEPT !.ram = @ \cup {slot}, !.extended = Extended(m, slot), !.invalidated = TRUE]
  BY <1>1 DEF s, ram, extended, Memories
<1>8. m' = SidewaysSelect(s, s.romsel) /\ UNCHANGED <<trapped, slot, fitted, untold, romPaged>>
  BY <1>9 DEF MakeSidewaysRam
<1> QED
  BY <1>1, <1>6, <1>7, <1>8, <1>9 DEF ram

-----------------------------------------------------------------------------
(* The 6502's writes of the registers. *)

\* A bank that is selected, and what becomes of the history of those that were.
LEMMA ThroughIs ==
  ASSUME NEW t, m' = t, romPaged \in BOOLEAN, UNCHANGED fitted,
         romPaged' = romPaged \/ romPaged' = (romPaged \/ Curr(t) \notin t.ram),
         t.through => ~IsMaster /\ Curr(t) \in t.ram,
         ~IsMaster /\ romPaged /\ Curr(t) \in t.ram => t.through
  PROVE  Through'
<1>1. Curr(m)' = Curr(t) /\ IsMaster' = IsMaster
  BY DEF Curr, EffectiveBank, IsMaster
<1> QED
  BY <1>1 DEF Through

\* The operating system's accesses differ, and are trapped, on a Master alone.
LEMMA AccessesAreTold ==
  ASSUME IInv
  PROVE  trapped => IsMaster
<1>1. MosAccessShadow(NoAcccon) = FALSE /\ NoAcccon.x = FALSE
  BY DEF MosAccessShadow, NoAcccon
<1> QED
  BY <1>1 DEF IInv, OfItsModel, Derived

\* A write of ROMSEL keeps the invariant and every chip.
LEMMA RomselKeeps ==
  ASSUME IInv, NEW val \in Romsels, WriteRomsel(val)
  PROVE  IInv' /\ SameAll(m, m') /\ SidewaysOnly(m, m') /\ UNCHANGED <<trapped, slot, fitted, untold>>
<1> DEFINE t == SidewaysSelect(m, val)
<1>1. /\ m \in Memories /\ Backed(m) /\ Running /\ (~IsMaster => ~val.andy /\ ~m.romsel.andy)
      /\ m' = t /\ UNCHANGED <<trapped, slot, fitted, untold>> /\ romPaged' = (romPaged \/ Curr(t) \notin t.ram)
      /\ romPaged \in BOOLEAN
  BY DEF IInv, Typed, OfItsModel, WriteRomsel, InRom, Curr
<1>2. Selected(m, val, t) /\ SameAll(m, t)
  BY <1>1, SelectOn, SelectHolds
<1> HIDE DEF t
<1>3. t \in Memories /\ SidewaysOnly(m, t) /\ t.romsel = val /\ Backed(t)
  BY <1>1, <1>2 DEF Selected
<1>4. EffectiveBank(m, val) = Curr(t)
  BY <1>3 DEF SidewaysOnly, Curr, EffectiveBank
<1>5. /\ t.through => ~IsMaster /\ Curr(t) \in t.ram
      /\ ~IsMaster /\ romPaged /\ Curr(t) \in t.ram => t.through
  <2>1. CASE Changing(m, val)
    BY <1>2, <1>3, <1>4, <2>1 DEF Selected, ThroughNow, IInv, Through, SidewaysOnly
  <2>2. CASE ~Changing(m, val)
    BY <1>2, <1>3, <1>4, <2>2 DEF Selected, Changing, IInv, Through, SidewaysOnly
  <2> QED
    BY <2>1, <2>2
<1>6. Typed' /\ Derived'
  BY <1>1, <1>3 DEF IInv, Typed, Derived, IsMaster, SidewaysOnly
<1>7. OfItsModel'
  BY <1>1, <1>3 DEF IInv, OfItsModel, IsMaster, SidewaysOnly
<1>8. Through'
  BY <1>1, <1>5, ThroughIs
<1>9. InOrder'
  BY <1>1, <1>3 DEF IInv, InOrder, Running, SidewaysOnly
<1>10. Backed(m)'
  BY <1>1, <1>3 DEF Backed, Curr, EffectiveBank
<1> QED
  BY <1>1, <1>2, <1>3, <1>6, <1>7, <1>8, <1>9, <1>10 DEF IInv

\* A write of ACCCON keeps the invariant and every chip.
LEMMA AccconKeeps ==
  ASSUME IInv, NEW val \in Acccons, WriteAcccon(val)
  PROVE  IInv' /\ SameAll(m, m') /\ ShadowOnly(m, m') /\ UNCHANGED <<slot, fitted>>
<1> DEFINE t == SetAcccon(m, val)
<1>1. /\ m \in Memories /\ Backed(m) /\ Running /\ IsMaster /\ DerivedOf(m)
      /\ m' = t /\ trapped' = m'.different /\ untold' = FALSE /\ UNCHANGED <<slot, fitted, romPaged>>
  BY DEF IInv, Typed, Derived, DerivedOf, WriteAcccon
<1>2. t \in Memories /\ ShadowOnly(m, t) /\ t.acccon = val /\ SameShadow(m, t) /\ HazelOf(t) = HazelOf(m) /\ DerivedOf(t)
  BY <1>1, SetAccconOn
<1> HIDE DEF t
<1>3. Curr(t) = Curr(m)
  BY <1>2 DEF ShadowOnly, Curr, EffectiveBank
<1>4. AndyOf(t) = AndyOf(m) /\ \A b \in Bank : SameBank(m, t, b)
  BY <1>2, <1>3 DEF ShadowOnly, AndyOf, SameBank, UnderOf, SideOf
<1>5. Typed'
  BY <1>1, <1>2 DEF IInv, Typed, Memories
<1>6. Derived'
  BY <1>1, <1>2 DEF Derived, DerivedOf
<1>7. OfItsModel'
  BY <1>1, <1>2 DEF IInv, OfItsModel, IsMaster, ShadowOnly
<1>8. Through'
  <2>1. romPaged \in BOOLEAN
    BY DEF IInv, Typed
  <2> QED
    BY <1>1, <1>2, <1>3, <2>1, ThroughIs DEF IInv, Through, ShadowOnly
<1>9. InOrder'
  BY <1>1, <1>2 DEF IInv, InOrder, Running, ShadowOnly
<1>10. Backed(m)'
  BY <1>1, <1>2 DEF Backed, ShadowOnly, Curr, EffectiveBank
<1> QED
  BY <1>1, <1>2, <1>4, <1>5, <1>6, <1>7, <1>8, <1>9, <1>10 DEF IInv, SameAll

-----------------------------------------------------------------------------
(* The 6502's writes of memory. *)

\* From s to t only the contents of the 64k, or of LYNNE, may differ.
ContentsOnly(s, t) ==
  /\ t.hazel = s.hazel /\ t.andy = s.andy /\ t.bank = s.bank
  /\ t.romsel = s.romsel /\ t.acccon = s.acccon /\ t.extended = s.extended /\ t.invalidated = s.invalidated
  /\ t.ram = s.ram /\ t.through = s.through /\ t.different = s.different /\ t.shown = s.shown

\* Writing directly, in any region of the 64k.
LEMMA RawOn ==
  ASSUME NEW s \in Memories, NEW region \in Regions, NEW v \in Values
  PROVE  LET t == [s EXCEPT !.raw[region] = v]
         IN  /\ t \in Memories /\ ContentsOnly(s, t) /\ t.lynne = s.lynne /\ t.raw[region] = v
             /\ \A other \in Regions \ {region} : t.raw[other] = s.raw[other]
<1>1. CASE region = "shadow"
  <2> DEFINE t == [s EXCEPT !.raw.shadow = v]
  <2>1. t \in Memories /\ ContentsOnly(s, t) /\ t.lynne = s.lynne /\ t.raw.shadow = v
        /\ t.raw.andy = s.raw.andy /\ t.raw.side = s.raw.side /\ t.raw.hazel = s.raw.hazel
    BY DEF Memories, ContentsOnly
  <2> QED
    BY <1>1, <2>1 DEF Regions
<1>2. CASE region = "andy"
  <2> DEFINE t == [s EXCEPT !.raw.andy = v]
  <2>1. t \in Memories /\ ContentsOnly(s, t) /\ t.lynne = s.lynne /\ t.raw.andy = v
        /\ t.raw.shadow = s.raw.shadow /\ t.raw.side = s.raw.side /\ t.raw.hazel = s.raw.hazel
    BY DEF Memories, ContentsOnly
  <2> QED
    BY <1>2, <2>1 DEF Regions
<1>3. CASE region = "side"
  <2> DEFINE t == [s EXCEPT !.raw.side = v]
  <2>1. t \in Memories /\ ContentsOnly(s, t) /\ t.lynne = s.lynne /\ t.raw.side = v
        /\ t.raw.shadow = s.raw.shadow /\ t.raw.andy = s.raw.andy /\ t.raw.hazel = s.raw.hazel
    BY DEF Memories, ContentsOnly
  <2> QED
    BY <1>3, <2>1 DEF Regions
<1>4. CASE region = "hazel"
  <2> DEFINE t == [s EXCEPT !.raw.hazel = v]
  <2>1. t \in Memories /\ ContentsOnly(s, t) /\ t.lynne = s.lynne /\ t.raw.hazel = v
        /\ t.raw.shadow = s.raw.shadow /\ t.raw.andy = s.raw.andy /\ t.raw.side = s.raw.side
    BY DEF Memories, ContentsOnly
  <2> QED
    BY <1>4, <2>1 DEF Regions
<1> QED
  BY <1>1, <1>2, <1>3, <1>4 DEF Regions

\* Writing to LYNNE, or to what is exchanged with it.
LEMMA LynneWriteOn ==
  ASSUME NEW s \in Memories, NEW v \in Values
  PROVE  LET t == [s EXCEPT !.lynne = v]
         IN  t \in Memories /\ ContentsOnly(s, t) /\ t.lynne = v /\ t.raw = s.raw
BY DEF Memories, ContentsOnly

\* Only one chip may differ.
LEMMA OneChip ==
  ASSUME NEW s, NEW t, NEW kind, NEW b0,
         kind # "main" => MainOf(t) = MainOf(s), kind # "lynne" => LynneOf(t) = LynneOf(s),
         kind # "hazel" => HazelOf(t) = HazelOf(s), kind # "andy" => AndyOf(t) = AndyOf(s),
         \A b \in Bank : kind # "under" \/ b # b0 => UnderOf(t, b) = UnderOf(s, b),
         \A b \in Bank : kind # "side" \/ b # b0 => SideOf(t, b) = SideOf(s, b),
         kind \in {"main", "lynne", "hazel", "andy"} => b0 = 0
  PROVE  \A chip \in Chips \ {<<kind, b0>>} : At(t, chip) = At(s, chip)
<1>1. ASSUME NEW chip \in Chips, chip # <<kind, b0>> PROVE At(t, chip) = At(s, chip)
  <2>1. CASE chip = <<"main", 0>>
    BY <1>1, <2>1, AtThem
  <2>2. CASE chip = <<"lynne", 0>>
    BY <1>1, <2>2, AtThem
  <2>3. CASE chip = <<"hazel", 0>>
    BY <1>1, <2>3, AtThem
  <2>4. CASE chip = <<"andy", 0>>
    BY <1>1, <2>4, AtThem
  <2>5. CASE chip = <<"os", 0>>
    BY <2>5, AtThem
  <2>6. ASSUME NEW b \in Bank, chip = <<"under", b>> PROVE At(t, chip) = At(s, chip)
    BY <1>1, <2>6, AtThem
  <2>7. ASSUME NEW b \in Bank, chip = <<"side", b>> PROVE At(t, chip) = At(s, chip)
    BY <1>1, <2>7, AtThem
  <2> QED
    BY <2>1, <2>2, <2>3, <2>4, <2>5, <2>6, <2>7, ChipsAre
<1> QED
  BY <1>1

\* Where a write goes, by the interpreter's callbacks or directly: nowhere, to
\* LYNNE's copy, or to the 64k where the registers have RAM.
Reached(region, vdu) ==
  /\ region = "shadow" /\ trapped => ~vdu
  /\ region = "hazel" => m.acccon.y
  /\ region = "andy" => m.romsel.andy \/ Curr(m) \in m.ram
  /\ region = "side" => Curr(m) \in m.ram
\* bbc_write_callback and the interpreter's direct writes, case by case: what is
\* written is LYNNE or the region itself, or nothing.
LEMMA WriteCases ==
  ASSUME IInv, NEW region \in Regions, NEW vdu \in BOOLEAN, NEW v \in Written, Write(region, vdu, v)
  PROVE  /\ UNCHANGED <<trapped, slot, fitted, untold, romPaged>> /\ v \in Values
         /\ \/ m' = m
            \/ m' = [m EXCEPT !.lynne = v] /\ region = "shadow" /\ vdu /\ trapped
            \/ m' = [m EXCEPT !.raw[region] = v] /\ Reached(region, vdu)
<1>1. v \in Values /\ UNCHANGED <<trapped, slot, fitted, untold, romPaged>> /\ Running
  BY DEF Values, Write
<1>2. IsMaster => Curr(m) = m.romsel.bank
  BY DEF IInv, OfItsModel, Curr, EffectiveBank
<1>3. ~IsMaster => ~trapped
  BY AccessesAreTold
<1>4. CASE IsMaster /\ (region = "shadow" => trapped)
  <2>1. m' = MasterRamWrite(region, vdu, v)
    BY <1>4 DEF Write
  <2>2. CASE region = "shadow"
    <3>1. CASE vdu
      BY <1>1, <1>4, <2>1, <2>2, <3>1 DEF MasterRamWrite
    <3>2. CASE ~vdu
      BY <1>1, <2>1, <2>2, <3>2 DEF MasterRamWrite, Reached
    <3> QED
      BY <3>1, <3>2
  <2>3. CASE region # "shadow"
    <3>1. CASE MasterWritable(region)
      <4>1. m' = [m EXCEPT !.raw[region] = v]
        BY <2>1, <2>3, <3>1 DEF MasterRamWrite
      <4>2. Reached(region, vdu)
        BY <1>2, <1>4, <2>3, <3>1 DEF Reached, MasterWritable
      <4> QED
        BY <1>1, <4>1, <4>2
    <3>2. CASE ~MasterWritable(region)
      BY <1>1, <2>1, <2>3, <3>2 DEF MasterRamWrite
    <3> QED
      BY <3>1, <3>2
  <2> QED
    BY <2>2, <2>3
<1>5. CASE ~(IsMaster /\ (region = "shadow" => trapped))
  <2>1. m' = DirectWrite(region, v)
    BY <1>5 DEF Write
  <2>2. CASE region = "shadow" \/ (region # "hazel" /\ m.through)
    <3>1. m' = [m EXCEPT !.raw[region] = v]
      BY <2>1, <2>2 DEF DirectWrite
    <3>2. m.through => Curr(m) \in m.ram
      BY DEF IInv, Through
    <3>3. Reached(region, vdu)
      BY <1>3, <1>5, <2>2, <3>2 DEF Reached
    <3> QED
      BY <1>1, <3>1, <3>3
  <2>3. CASE ~(region = "shadow" \/ (region # "hazel" /\ m.through))
    BY <1>1, <2>1, <2>3 DEF DirectWrite
  <2> QED
    BY <2>2, <2>3
<1> QED
  BY <1>4, <1>5

\* A write keeps the invariant.
LEMMA WriteKeeps ==
  ASSUME IInv, NEW region \in Regions, NEW vdu \in BOOLEAN, NEW v \in Written, Write(region, vdu, v)
  PROVE  IInv' /\ ContentsOnly(m, m') /\ UNCHANGED <<trapped, slot, fitted, untold, romPaged>>
<1>1. m \in Memories /\ Backed(m) /\ Running
  BY DEF IInv, Typed, Write
<1>2. UNCHANGED <<trapped, slot, fitted, untold, romPaged>> /\ v \in Values
  BY WriteCases
<1>3. /\ m' \in Memories /\ ContentsOnly(m, m')
      /\ ~m.acccon.y => m'.raw.hazel = m.raw.hazel
      /\ Curr(m) \notin m.ram => m'.raw.side = m.raw.side
      /\ Curr(m) \notin m.ram /\ ~m.romsel.andy => m'.raw.andy = m.raw.andy
  <2>1. CASE m' = m
    BY <1>1, <2>1 DEF ContentsOnly
  <2>2. CASE m' = [m EXCEPT !.lynne = v]
    BY <1>1, <1>2, <2>2, LynneWriteOn
  <2>3. CASE m' = [m EXCEPT !.raw[region] = v] /\ Reached(region, vdu)
    <3>1. /\ m' \in Memories /\ ContentsOnly(m, m')
          /\ \A other \in Regions \ {region} : m'.raw[other] = m.raw[other]
      BY <1>1, <1>2, <2>3, RawOn
    <3>2. /\ region # "hazel" => m'.raw["hazel"] = m.raw["hazel"]
          /\ region # "side" => m'.raw["side"] = m.raw["side"]
          /\ region # "andy" => m'.raw["andy"] = m.raw["andy"]
      BY <3>1 DEF Regions
    <3> QED
      BY <2>3, <3>1, <3>2 DEF Reached
  <2> QED
    BY <2>1, <2>2, <2>3, WriteCases
<1>4. Curr(m') = Curr(m)
  BY <1>3 DEF ContentsOnly, Curr, EffectiveBank
<1>5. Backed(m')
  BY <1>1, <1>3, <1>4 DEF Backed, ContentsOnly
<1>6. Typed'
  BY <1>2, <1>3 DEF IInv, Typed
<1>7. OfItsModel'
  BY <1>2, <1>3 DEF IInv, OfItsModel, IsMaster, ContentsOnly
<1>8. Derived'
  BY <1>2, <1>3 DEF IInv, Derived, IsMaster, ContentsOnly
<1>9. Through'
  <2>1. romPaged \in BOOLEAN
    BY DEF IInv, Typed
  <2> QED
    BY <1>2, <1>3, <1>4, <2>1, ThroughIs DEF IInv, Through, ContentsOnly
<1>10. InOrder'
  BY <1>1, <1>2, <1>3 DEF IInv, InOrder, Running, ContentsOnly
<1> QED
  BY <1>2, <1>3, <1>5, <1>6, <1>7, <1>8, <1>9, <1>10 DEF IInv, Backed, Curr, EffectiveBank

-----------------------------------------------------------------------------
(* A hard reset: bbc_power_on_memory_reset. *)

\* What bbc_power_on_memory_reset clears before it unpages.
LEMMA ClearedOn ==
  ASSUME NEW s \in Memories
  PROVE  LET t == ClearedMemory(s)
         IN  /\ t \in Memories /\ t.raw.shadow = PowerOn
             /\ t.raw.andy = s.raw.andy /\ t.raw.side = s.raw.side /\ t.raw.hazel = s.raw.hazel
             /\ t.lynne = Cleared /\ t.hazel = Cleared /\ t.andy = Cleared
             /\ t.romsel = s.romsel /\ t.acccon = s.acccon /\ t.extended = s.extended
             /\ t.ram = s.ram /\ t.through = s.through /\ t.different = s.different /\ t.shown = s.shown
             /\ \A b \in Bank : t.bank[b] = IF b \in s.ram THEN [andy |-> Cleared, side |-> Cleared] ELSE s.bank[b]
<1> DEFINE bank == [b \in Bank |-> IF b \in s.ram THEN [andy |-> Cleared, side |-> Cleared] ELSE s.bank[b]]
           t == [s EXCEPT !.raw.shadow = PowerOn, !.bank = bank, !.lynne = Cleared, !.hazel = Cleared, !.andy = Cleared]
<1>1. Cleared \in Values /\ PowerOn \in Values
  BY DEF Values
<1>2. bank \in [Bank -> Halves]
  <2>1. [andy |-> Cleared, side |-> Cleared] \in Halves
    BY <1>1 DEF Halves
  <2>2. s.bank \in [Bank -> Halves]
    BY DEF Memories
  <2> QED
    BY <2>1, <2>2
<1>3. ClearedMemory(s) = t
  BY DEF ClearedMemory
<1>4. \A b \in Bank : bank[b] = IF b \in s.ram THEN [andy |-> Cleared, side |-> Cleared] ELSE s.bank[b]
  OBVIOUS
<1> HIDE DEF bank
<1>5. /\ t \in Memories /\ t.raw.shadow = PowerOn
      /\ t.raw.andy = s.raw.andy /\ t.raw.side = s.raw.side /\ t.raw.hazel = s.raw.hazel
      /\ t.lynne = Cleared /\ t.hazel = Cleared /\ t.andy = Cleared
      /\ t.romsel = s.romsel /\ t.acccon = s.acccon /\ t.extended = s.extended
      /\ t.ram = s.ram /\ t.through = s.through /\ t.different = s.different /\ t.shown = s.shown
      /\ t.bank = bank
  BY <1>1, <1>2 DEF Memories
<1> HIDE DEF t
<1> QED
  BY <1>3, <1>4, <1>5

\* What is left in the chips: RAM that was paged in is copied back after its
\* store was cleared.
LeftBy(s, t) ==
  /\ MainOf(t) = IF s.acccon.x THEN Cleared ELSE PowerOn
  /\ LynneOf(t) = IF s.acccon.x THEN PowerOn ELSE Cleared
  /\ HazelOf(t) = IF s.acccon.y THEN HazelOf(s) ELSE Cleared
  /\ AndyOf(t) = IF s.romsel.andy THEN AndyOf(s) ELSE Cleared
  /\ \A b \in Bank :
       /\ UnderOf(t, b) = IF b \notin s.ram \/ (b = Curr(s) /\ ~s.romsel.andy) THEN UnderOf(s, b) ELSE Cleared
       /\ SideOf(t, b) = IF b \notin s.ram \/ b = Curr(s) THEN SideOf(s, b) ELSE Cleared

\* bbc_power_on_memory_reset as a whole.
LEMMA ResetOn ==
  ASSUME NEW s \in Memories, Backed(s), DerivedOf(s), s.romsel.andy => IsMaster,
         ~IsMaster => s.acccon = NoAcccon
  PROVE  LET t == PowerOnMemoryReset(s)
         IN  /\ t \in Memories /\ LeftBy(s, t) /\ DerivedOf(t) /\ Backed(t)
             /\ t.romsel = NoRomsel /\ t.acccon = NoAcccon /\ t.extended = s.extended /\ t.ram = s.ram
             /\ t.through = ThroughNow(s, NoRomsel)
<1> DEFINE cleared == ClearedMemory(s)
           unpaged == IF IsMaster THEN SetAcccon(cleared, NoAcccon) ELSE cleared
           u == [unpaged EXCEPT !.invalidated = TRUE]
           t == SidewaysSelect(u, NoRomsel)
<1>1. PowerOnMemoryReset(s) = t
  BY DEF PowerOnMemoryReset
<1>2. /\ cleared \in Memories /\ cleared.raw.shadow = PowerOn
      /\ cleared.raw.andy = s.raw.andy /\ cleared.raw.side = s.raw.side /\ cleared.raw.hazel = s.raw.hazel
      /\ cleared.lynne = Cleared /\ cleared.hazel = Cleared /\ cleared.andy = Cleared
      /\ cleared.romsel = s.romsel /\ cleared.acccon = s.acccon /\ cleared.extended = s.extended
      /\ cleared.ram = s.ram /\ cleared.through = s.through
      /\ cleared.different = s.different /\ cleared.shown = s.shown
      /\ \A b \in Bank : cleared.bank[b] = IF b \in s.ram THEN [andy |-> Cleared, side |-> Cleared] ELSE s.bank[b]
  BY ClearedOn
<1> HIDE DEF cleared
<1>3. DerivedOf(cleared)
  BY <1>2 DEF DerivedOf
<1>4. NoAcccon \in Acccons /\ NoRomsel \in Romsels
  BY MemoryAssumption DEF NoAcccon, Acccons, NoRomsel, Romsels, Bank
<1>5. /\ unpaged \in Memories /\ ShadowOnly(cleared, unpaged) /\ unpaged.acccon = NoAcccon
      /\ SameShadow(cleared, unpaged) /\ HazelOf(unpaged) = HazelOf(cleared) /\ DerivedOf(unpaged)
  <2>1. CASE IsMaster
    <3>1. unpaged = SetAcccon(cleared, NoAcccon)
      BY <2>1
    <3> HIDE DEF unpaged
    <3> QED
      BY <1>2, <1>3, <1>4, <3>1, SetAccconOn
  <2>2. CASE ~IsMaster
    <3>1. unpaged = cleared
      BY <2>2
    <3> HIDE DEF unpaged
    <3> QED
      BY <1>2, <1>3, <2>2, <3>1 DEF ShadowOnly, SameShadow
  <2> QED
    BY <2>1, <2>2
<1> HIDE DEF unpaged
<1>6. /\ u \in Memories /\ u.invalidated /\ u.raw = unpaged.raw /\ u.bank = unpaged.bank
      /\ u.lynne = unpaged.lynne /\ u.hazel = unpaged.hazel /\ u.andy = unpaged.andy
      /\ u.romsel = unpaged.romsel /\ u.acccon = unpaged.acccon /\ u.extended = unpaged.extended
      /\ u.ram = unpaged.ram /\ u.through = unpaged.through
      /\ u.different = unpaged.different /\ u.shown = unpaged.shown
  BY <1>5 DEF Memories
<1> HIDE DEF u
<1>7. u.romsel = s.romsel /\ u.ram = s.ram /\ u.extended = s.extended /\ u.through = s.through
      /\ u.raw.andy = s.raw.andy /\ u.raw.side = s.raw.side /\ u.andy = Cleared /\ u.acccon = NoAcccon
      /\ \A b \in Bank : u.bank[b] = IF b \in s.ram THEN [andy |-> Cleared, side |-> Cleared] ELSE s.bank[b]
  BY <1>2, <1>5, <1>6 DEF ShadowOnly
<1>8. Curr(u) = Curr(s) /\ Changing(u, NoRomsel) /\ ~NoRomsel.andy
  BY <1>6, <1>7 DEF Curr, EffectiveBank, Changing, NoRomsel
<1>9. Selected(u, NoRomsel, t)
  BY <1>4, <1>6, <1>7, <1>8, SelectOn
<1> HIDE DEF t
<1>10. /\ t \in Memories /\ SidewaysOnly(u, t) /\ t.romsel = NoRomsel /\ Backed(t) /\ AndyOf(t) = AndyOf(u)
       /\ t.through = ThroughNow(u, NoRomsel)
       /\ \A b \in Bank : UnderOf(t, b) = Saved(u)[b].andy /\ SideOf(t, b) = Saved(u)[b].side
  BY <1>8, <1>9 DEF Selected
<1>11. MainOf(t) = MainOf(cleared) /\ LynneOf(t) = LynneOf(cleared) /\ HazelOf(t) = HazelOf(cleared)
  BY <1>5, <1>6, <1>10 DEF SidewaysOnly, SameShadow, MainOf, LynneOf, HazelOf
<1>12. /\ MainOf(t) = IF s.acccon.x THEN Cleared ELSE PowerOn
       /\ LynneOf(t) = IF s.acccon.x THEN PowerOn ELSE Cleared
       /\ HazelOf(t) = IF s.acccon.y THEN HazelOf(s) ELSE Cleared
  BY <1>2, <1>11 DEF MainOf, LynneOf, HazelOf
<1>13. AndyOf(t) = IF s.romsel.andy THEN AndyOf(s) ELSE Cleared
  BY <1>7, <1>10 DEF AndyOf
<1>14. ASSUME NEW b \in Bank
       PROVE  /\ UnderOf(t, b) = IF b \notin s.ram \/ (b = Curr(s) /\ ~s.romsel.andy) THEN UnderOf(s, b) ELSE Cleared
              /\ SideOf(t, b) = IF b \notin s.ram \/ b = Curr(s) THEN SideOf(s, b) ELSE Cleared
  <2>1. Saved(u)[b] = IF b = Curr(s) /\ b \in s.ram THEN [andy |-> UnderNow(u), side |-> s.raw.side] ELSE u.bank[b]
    BY <1>6, <1>7, <1>8, SavedIn
  <2>2. CASE b = Curr(s) /\ b \in s.ram
    <3>1. UnderNow(u) = IF s.romsel.andy THEN Cleared ELSE s.raw.andy
      BY <1>7, <1>8, <2>2 DEF UnderNow
    <3> QED
      BY <1>10, <2>1, <2>2, <3>1 DEF UnderOf, SideOf
  <2>3. CASE b \in s.ram /\ b # Curr(s)
    BY <1>7, <1>10, <2>1, <2>3
  <2>4. CASE b \notin s.ram
    <3>1. Saved(u)[b] = s.bank[b]
      BY <1>7, <2>1, <2>4
    <3>2. UnderOf(s, b) = s.bank[b].andy /\ SideOf(s, b) = s.bank[b].side
      BY <2>4 DEF Backed, UnderOf, SideOf
    <3> QED
      BY <1>10, <2>4, <3>1, <3>2
  <2> QED
    BY <2>2, <2>3, <2>4
<1>15. DerivedOf(t)
  BY <1>5, <1>6, <1>10 DEF DerivedOf, SidewaysOnly
<1>16. ThroughNow(u, NoRomsel) = ThroughNow(s, NoRomsel)
  BY <1>7, <1>8 DEF ThroughNow, EffectiveBank
<1> QED
  BY <1>1, <1>7, <1>10, <1>12, <1>13, <1>14, <1>15, <1>16 DEF LeftBy, SidewaysOnly

-----------------------------------------------------------------------------
(* The invariant is kept. *)

\* A hard reset keeps it, whether accesses are trapped or not.
LEMMA HardResetKeeps ==
  ASSUME IInv, HardReset
  PROVE  /\ IInv' /\ LeftBy(m, m') /\ m'.romsel = NoRomsel /\ m'.acccon = NoAcccon
         /\ m'.extended = m.extended /\ m'.ram = m.ram /\ m'.through = ThroughNow(m, NoRomsel)
         /\ untold' = trapped /\ UNCHANGED <<trapped, slot, fitted>>
<1> DEFINE t == PowerOnMemoryReset(m)
<1>1. /\ m \in Memories /\ Backed(m) /\ DerivedOf(m) /\ (m.romsel.andy => IsMaster)
      /\ (~IsMaster => m.acccon = NoAcccon) /\ Running
      /\ m' = t /\ untold' = trapped /\ romPaged' = (romPaged \/ Curr(t) \notin t.ram)
      /\ UNCHANGED <<trapped, slot, fitted>> /\ trapped \in BOOLEAN /\ romPaged \in BOOLEAN
  BY DEF IInv, Typed, OfItsModel, Derived, DerivedOf, HardReset, InRom, Curr
<1>2. /\ t \in Memories /\ LeftBy(m, t) /\ DerivedOf(t) /\ Backed(t)
      /\ t.romsel = NoRomsel /\ t.acccon = NoAcccon /\ t.extended = m.extended /\ t.ram = m.ram
      /\ t.through = ThroughNow(m, NoRomsel)
  BY <1>1, ResetOn
<1> HIDE DEF t
<1>3. t.different = FALSE
  <2>1. MosAccessShadow(NoAcccon) = FALSE /\ NoAcccon.x = FALSE
    BY DEF MosAccessShadow, NoAcccon
  <2> QED
    BY <1>2, <2>1 DEF DerivedOf
<1>4. Typed'
  BY <1>1, <1>2 DEF IInv, Typed
<1>5. OfItsModel'
  BY <1>1, <1>2 DEF IInv, OfItsModel, IsMaster, NoRomsel
<1>6. Derived'
  <2>1. trapped => IsMaster
    BY <1>1, AccessesAreTold DEF IInv, Derived
  <2> QED
    BY <1>1, <1>2, <1>3, <2>1 DEF Derived, DerivedOf, IsMaster
<1>7. EffectiveBank(m, NoRomsel) = Curr(t)
  BY <1>2 DEF Curr, EffectiveBank
<1>8. Through'
  <2>1. t.through => ~IsMaster /\ Curr(t) \in t.ram
    BY <1>1, <1>2, <1>7 DEF IInv, Through, ThroughNow
  <2>2. ~IsMaster /\ romPaged /\ Curr(t) \in t.ram => t.through
    BY <1>1, <1>2, <1>7 DEF IInv, Through, ThroughNow
  <2> QED
    BY <1>1, <2>1, <2>2, ThroughIs
<1>9. InOrder'
  BY <1>1, <1>2 DEF IInv, InOrder, Running
<1> QED
  BY <1>1, <1>2, <1>4, <1>5, <1>6, <1>8, <1>9 DEF IInv, Backed, Curr, EffectiveBank

\* main() goes on to the next bank.
LEMMA NextSlotKeeps ==
  ASSUME IInv, NextSlot
  PROVE  IInv'
<1>1. /\ slot \in 0 .. NumRoms /\ slot # NumRoms /\ slot' = slot + 1 /\ UNCHANGED <<m, trapped, fitted, untold>>
      /\ m \in Memories /\ romPaged = FALSE /\ romPaged' = (slot' = NumRoms /\ Curr(m) \notin m.ram)
  BY DEF IInv, Typed, NextSlot, Running, InRom, Curr, InOrder
<1>2. slot' \in 0 .. NumRoms /\ slot \in Int
  BY <1>1, MemoryAssumption
<1>3. Typed' /\ OfItsModel' /\ Derived' /\ Backed(m)'
  BY <1>1, <1>2 DEF IInv, Typed, OfItsModel, IsMaster, Derived, Backed, Curr, EffectiveBank
<1>7. Through'
  <2>1. Curr(m)' = Curr(m)
    BY <1>1 DEF Curr, EffectiveBank
  <2> QED
    BY <1>1, <2>1 DEF IInv, Through, IsMaster
<1>4. \A b \in m.ram : b <= slot' /\ b \in fitted.ram /\ (Low(b) => m.extended)
  <2>1. ASSUME NEW b \in m.ram PROVE b <= slot' /\ b \in fitted.ram /\ (Low(b) => m.extended)
    <3>1. b \in Bank /\ b <= slot /\ b \in fitted.ram /\ (Low(b) => m.extended)
      BY <1>1 DEF IInv, InOrder, Memories
    <3> QED
      BY <1>1, <1>2, <3>1 DEF Bank
  <2> QED
    BY <2>1
<1>5. ASSUME NEW b \in Bank, b > slot' \/ (~m.extended /\ Low(b))
      PROVE  m.bank[b] = [andy |-> Cleared, side |-> Cleared]
  <2>1. b > slot \/ (~m.extended /\ Low(b))
    BY <1>1, <1>2, <1>5 DEF Bank
  <2> QED
    BY <1>1, <2>1 DEF IInv, InOrder, Running
<1>6. InOrder'
  BY <1>1, <1>4, <1>5 DEF IInv, InOrder, Running, Low
<1> QED
  BY <1>3, <1>6, <1>7 DEF IInv

\* It holds at the start.
LEMMA Starts ==
  ASSUME Init
  PROVE  IInv
<1>1. fitted \in Fitted /\ m = Created(IsMaster) /\ trapped = FALSE /\ slot = 0
      /\ untold = FALSE /\ romPaged = FALSE
  BY DEF Init
<1>2. IsMaster \in BOOLEAN
  BY <1>1, MemoryAssumption DEF IsMaster
<1>3. Cleared \in Values /\ PowerOn \in Values /\ OsRom \in Values
  BY DEF Values
<1>4. NoAcccon \in Acccons /\ NoRomsel \in Romsels
  BY MemoryAssumption DEF NoAcccon, Acccons, NoRomsel, Romsels, Bank
<1>5. m \in Memories
  BY <1>1, <1>2, <1>3, <1>4 DEF Created, Memories, Halves
<1>6. Typed
  <2>1. 0 \in 0 .. NumRoms
    BY MemoryAssumption
  <2>2. slot \in 0 .. NumRoms /\ trapped \in BOOLEAN
    BY <1>1, <2>1
  <2> QED
    BY <1>1, <1>5, <2>2 DEF Typed
<1>7. OfItsModel
  BY <1>1 DEF OfItsModel, Created, NoRomsel
<1>8. Derived
  <2>1. MosAccessShadow(NoAcccon) = FALSE /\ NoAcccon.x = FALSE /\ NoAcccon.d = FALSE
    BY DEF MosAccessShadow, NoAcccon
  <2> QED
    BY <1>1, <2>1 DEF Derived, Created
<1>9. Through /\ InOrder
  BY <1>1 DEF Through, InOrder, Created
<1>10. Curr(m) \in Bank
  BY <1>4, <1>5, CurrIn DEF Curr, Memories
<1>11. Backed(m)
  BY <1>1, <1>10 DEF Backed, Created
<1> QED
  BY <1>6, <1>7, <1>8, <1>9, <1>11 DEF IInv

\* Every step keeps it.
LEMMA Inductive ==
  ASSUME IInv, [Next]_vars
  PROVE  IInv'
<1>1. CASE LoadRom
  BY <1>1, LoadRomFits, FitKeeps
<1>2. CASE MakeSidewaysRam
  BY <1>2, MakeRamFits, FitKeeps
<1>3. CASE NextSlot
  BY <1>3, NextSlotKeeps
<1>4. CASE HardReset
  BY <1>4, HardResetKeeps
<1>5. ASSUME NEW region \in Regions, NEW vdu \in BOOLEAN, NEW v \in Written, Write(region, vdu, v) PROVE IInv'
  BY <1>5, WriteKeeps
<1>6. ASSUME NEW val \in Romsels, WriteRomsel(val) PROVE IInv'
  BY <1>6, RomselKeeps
<1>7. ASSUME NEW val \in Acccons, WriteAcccon(val) PROVE IInv'
  BY <1>7, AccconKeeps
<1>8. CASE UNCHANGED vars
  BY <1>8 DEF vars, IInv, Typed, OfItsModel, IsMaster, Derived, Through, InOrder, Running, Backed, Curr, EffectiveBank
<1> QED
  BY <1>1, <1>2, <1>3, <1>4, <1>5, <1>6, <1>7, <1>8 DEF Next

-----------------------------------------------------------------------------
(* The refinement. *)

\* PagedMemory's chips are those of Memory, and the bank current in it too.
LEMMA PagedIs ==
  ASSUME IInv
  PROVE  /\ Paged!Chips = Chips /\ Paged!Bank = Bank /\ Paged!Regions = Regions
         /\ Paged!Current = Curr(m)
         /\ \A vdu \in BOOLEAN : Paged!Shadow(vdu) = IF vdu THEN MosAccessShadow(m.acccon) ELSE m.acccon.x
         /\ \A vdu \in BOOLEAN : Paged!Chip("shadow", vdu) = <<IF Paged!Shadow(vdu) THEN "lynne" ELSE "main", 0>>
         /\ \A vdu \in BOOLEAN : Paged!Chip("andy", vdu) =
              IF m.romsel.andy THEN <<"andy", 0>> ELSE <<"under", Curr(m)>>
         /\ \A vdu \in BOOLEAN : Paged!Chip("side", vdu) = <<"side", Curr(m)>>
         /\ \A vdu \in BOOLEAN : Paged!Chip("hazel", vdu) = <<IF m.acccon.y THEN "hazel" ELSE "os", 0>>
<1>1. Paged!Chips = Chips /\ Paged!Bank = Bank /\ Paged!Regions = Regions
  BY DEF Paged!Chips, Chips, Paged!Bank, Bank, Paged!Regions, Regions
<1>2. Paged!Current = Curr(m)
  BY DEF Paged!Current, Curr, EffectiveBank
<1>3. m.acccon \in Acccons
  BY DEF IInv, Typed, Memories
<1>4. ASSUME NEW vdu \in BOOLEAN
      PROVE  Paged!Shadow(vdu) = IF vdu THEN MosAccessShadow(m.acccon) ELSE m.acccon.x
  <2>1. CASE m.acccon.y
    BY <1>3, <2>1 DEF Paged!Shadow, MosAccessShadow, Acccons
  <2>2. CASE ~m.acccon.y
    BY <1>3, <2>2 DEF Paged!Shadow, MosAccessShadow, Acccons
  <2> QED
    BY <2>1, <2>2
<1> QED
  BY <1>1, <1>2, <1>4 DEF Paged!Chip

\* The values of its variables, in the step's two states.
LEMMA PagedVars ==
  ASSUME \A chip \in Chips : At(m', chip) = At(m, chip)
  PROVE  [chip \in Chips |-> Held(chip)]' = [chip \in Chips |-> Held(chip)]
BY HeldIs

\* A write goes to the chip the registers select.
LEMMA WriteIsPaged ==
  ASSUME IInv, NEW region \in Regions, NEW vdu \in BOOLEAN, NEW v \in Written, Write(region, vdu, v)
  PROVE  [Paged!Next \/ StrayWrite]_(Paged!vars)
<1>1. m \in Memories /\ m.acccon \in Acccons /\ m.romsel \in Romsels /\ Curr(m) \in Bank
  BY CurrIn DEF IInv, Typed, Memories, Curr
<1>2. /\ ContentsOnly(m, m') /\ v \in Values
      /\ m'.romsel = m.romsel /\ m'.acccon = m.acccon /\ m'.extended = m.extended /\ m'.ram = m.ram
  BY WriteKeeps, WriteCases DEF ContentsOnly
<1>3. Curr(m') = Curr(m)
  BY <1>2 DEF Curr, EffectiveBank
<1>4. ASSUME NEW w \in BOOLEAN, Paged!IsRam(Paged!Chip(region, w)),
             \A chip \in Chips \ {Paged!Chip(region, w)} : At(m', chip) = At(m, chip)
      PROVE  Paged!Next
  <2>1. \A chip \in Chips \ {Paged!Chip(region, w)} : [c \in Chips |-> Held(c)]'[chip] = [c \in Chips |-> Held(c)][chip]
    BY <1>4, HeldIs
  <2>2. Paged!Write(region, w)
    BY <1>2, <1>4, <2>1, PagedIs DEF Paged!Write
  <2> QED
    BY <2>2, PagedIs DEF Paged!Next
<1>5. CASE m' = m
  <2>1. [chip \in Chips |-> Held(chip)]' = [chip \in Chips |-> Held(chip)]
    BY <1>5, PagedVars
  <2> QED
    BY <1>2, <2>1 DEF Paged!vars
<1>6. CASE m' = [m EXCEPT !.lynne = v] /\ region = "shadow" /\ vdu /\ trapped
  <2>1. m'.raw = m.raw
    BY <1>1, <1>2, <1>6, LynneWriteOn
  <2>2. MosAccessShadow(m.acccon) # m.acccon.x \/ (untold /\ ~m.acccon.x)
    <3>1. m.different \/ untold
      BY <1>6 DEF IInv, Derived
    <3>2. untold => ~m.acccon.x
      BY DEF IInv, Derived, NoAcccon
    <3>3. m.different = (MosAccessShadow(m.acccon) # m.acccon.x)
      BY DEF IInv, Derived
    <3> QED
      BY <3>1, <3>2, <3>3
  <2> DEFINE kind == IF m.acccon.x THEN "main" ELSE "lynne"
  <2>3. ASSUME MosAccessShadow(m.acccon) # m.acccon.x PROVE Paged!Chip("shadow", TRUE) = <<kind, 0>>
    <3>1. MosAccessShadow(m.acccon) \in BOOLEAN /\ m.acccon.x \in BOOLEAN
      BY <1>1, MosIsBoolean DEF Acccons
    <3>2. Paged!Shadow(TRUE) = MosAccessShadow(m.acccon)
      BY PagedIs
    <3>3. Paged!Chip("shadow", TRUE) = <<IF Paged!Shadow(TRUE) THEN "lynne" ELSE "main", 0>>
      BY PagedIs
    <3>4. kind = IF Paged!Shadow(TRUE) THEN "lynne" ELSE "main"
      BY <2>3, <3>1, <3>2
    <3> QED
      BY <3>3, <3>4
  <2>4. Paged!IsRam(<<kind, 0>>)
    BY DEF Paged!IsRam
  <2>5. \A chip \in Chips \ {<<kind, 0>>} : At(m', chip) = At(m, chip)
    <3>1. /\ kind # "main" => MainOf(m') = MainOf(m)
          /\ kind # "lynne" => LynneOf(m') = LynneOf(m)
          /\ HazelOf(m') = HazelOf(m) /\ AndyOf(m') = AndyOf(m)
          /\ \A b \in Bank : UnderOf(m', b) = UnderOf(m, b) /\ SideOf(m', b) = SideOf(m, b)
      BY <1>2, <1>3, <2>1 DEF MainOf, LynneOf, HazelOf, AndyOf, UnderOf, SideOf, ContentsOnly
    <3>2. kind \in {"main", "lynne"}
      OBVIOUS
    <3> HIDE DEF kind
    <3> QED
      BY <3>1, <3>2, OneChip
  <2>6. CASE MosAccessShadow(m.acccon) # m.acccon.x
    BY <1>4, <1>6, <2>3, <2>4, <2>5, <2>6
  <2>7. CASE untold /\ ~m.acccon.x
    <3>1. kind = "lynne"
      BY <2>7
    <3>2. \A chip \in Chips \ {<<"lynne", 0>>} : Held(chip)' = Held(chip)
      BY <2>5, <3>1, HeldIs
    <3> QED
      BY <1>2, <2>7, <3>2 DEF StrayWrite
  <2> QED
    BY <2>2, <2>6, <2>7
<1>7. CASE m' = [m EXCEPT !.raw[region] = v] /\ Reached(region, vdu)
  <2>1. m'.lynne = m.lynne /\ \A other \in Regions \ {region} : m'.raw[other] = m.raw[other]
    BY <1>1, <1>2, <1>7, RawOn
  <2>2. /\ region # "shadow" => m'.raw["shadow"] = m.raw["shadow"]
        /\ region # "hazel" => m'.raw["hazel"] = m.raw["hazel"]
        /\ region # "side" => m'.raw["side"] = m.raw["side"]
        /\ region # "andy" => m'.raw["andy"] = m.raw["andy"]
    BY <2>1 DEF Regions
  <2>3. CASE region = "shadow"
    <3> DEFINE kind == IF m.acccon.x THEN "lynne" ELSE "main"
    <3>1. Paged!Chip("shadow", FALSE) = <<kind, 0>>
      BY PagedIs
    <3>2. Paged!IsRam(<<kind, 0>>)
      BY DEF Paged!IsRam
    <3>3. \A chip \in Chips \ {<<kind, 0>>} : At(m', chip) = At(m, chip)
      <4>1. /\ kind # "main" => MainOf(m') = MainOf(m)
            /\ kind # "lynne" => LynneOf(m') = LynneOf(m)
            /\ HazelOf(m') = HazelOf(m) /\ AndyOf(m') = AndyOf(m)
            /\ \A b \in Bank : UnderOf(m', b) = UnderOf(m, b) /\ SideOf(m', b) = SideOf(m, b)
        BY <1>2, <1>3, <2>1, <2>2, <2>3 DEF MainOf, LynneOf, HazelOf, AndyOf, UnderOf, SideOf, ContentsOnly
      <4>2. kind \in {"main", "lynne"}
        OBVIOUS
      <4> HIDE DEF kind
      <4> QED
        BY <4>1, <4>2, OneChip
    <3> QED
      BY <1>4, <2>3, <3>1, <3>2, <3>3
  <2>4. CASE region = "hazel"
    <3>1. m.acccon.y /\ Paged!Chip("hazel", FALSE) = <<"hazel", 0>>
      BY <1>7, <2>4, PagedIs DEF Reached
    <3>2. Paged!IsRam(<<"hazel", 0>>)
      BY DEF Paged!IsRam
    <3>3. /\ MainOf(m') = MainOf(m) /\ LynneOf(m') = LynneOf(m) /\ AndyOf(m') = AndyOf(m)
          /\ \A b \in Bank : UnderOf(m', b) = UnderOf(m, b) /\ SideOf(m', b) = SideOf(m, b)
      BY <1>2, <1>3, <2>1, <2>2, <2>4 DEF MainOf, LynneOf, AndyOf, UnderOf, SideOf, ContentsOnly
    <3>4. \A chip \in Chips \ {<<"hazel", 0>>} : At(m', chip) = At(m, chip)
      BY <3>3, OneChip
    <3> QED
      BY <1>4, <2>4, <3>1, <3>2, <3>4
  <2>5. CASE region = "andy" /\ m.romsel.andy
    <3>1. Paged!Chip("andy", FALSE) = <<"andy", 0>>
      BY <2>5, PagedIs
    <3>2. Paged!IsRam(<<"andy", 0>>)
      BY DEF Paged!IsRam
    <3>3. /\ MainOf(m') = MainOf(m) /\ LynneOf(m') = LynneOf(m) /\ HazelOf(m') = HazelOf(m)
          /\ \A b \in Bank : UnderOf(m', b) = UnderOf(m, b) /\ SideOf(m', b) = SideOf(m, b)
      BY <1>2, <1>3, <2>1, <2>2, <2>5 DEF MainOf, LynneOf, HazelOf, UnderOf, SideOf, ContentsOnly
    <3>4. \A chip \in Chips \ {<<"andy", 0>>} : At(m', chip) = At(m, chip)
      BY <3>3, OneChip
    <3> QED
      BY <1>4, <2>5, <3>1, <3>2, <3>4
  <2>6. CASE region = "andy" /\ ~m.romsel.andy
    <3>1. Paged!Chip("andy", FALSE) = <<"under", Curr(m)>> /\ Curr(m) \in m.ram
      BY <1>7, <2>6, PagedIs DEF Reached
    <3>2. Paged!IsRam(<<"under", Curr(m)>>)
      BY <3>1 DEF Paged!IsRam
    <3>3. /\ MainOf(m') = MainOf(m) /\ LynneOf(m') = LynneOf(m) /\ HazelOf(m') = HazelOf(m) /\ AndyOf(m') = AndyOf(m)
          /\ \A b \in Bank : b # Curr(m) => UnderOf(m', b) = UnderOf(m, b)
          /\ \A b \in Bank : SideOf(m', b) = SideOf(m, b)
      BY <1>2, <1>3, <2>1, <2>2, <2>6 DEF MainOf, LynneOf, HazelOf, AndyOf, UnderOf, SideOf, ContentsOnly
    <3>4. \A chip \in Chips \ {<<"under", Curr(m)>>} : At(m', chip) = At(m, chip)
      BY <3>3, OneChip
    <3> QED
      BY <1>4, <2>6, <3>1, <3>2, <3>4
  <2>7. CASE region = "side"
    <3>1. Paged!Chip("side", FALSE) = <<"side", Curr(m)>> /\ Curr(m) \in m.ram
      BY <1>7, <2>7, PagedIs DEF Reached
    <3>2. Paged!IsRam(<<"side", Curr(m)>>)
      BY <3>1 DEF Paged!IsRam
    <3>3. /\ MainOf(m') = MainOf(m) /\ LynneOf(m') = LynneOf(m) /\ HazelOf(m') = HazelOf(m) /\ AndyOf(m') = AndyOf(m)
          /\ \A b \in Bank : UnderOf(m', b) = UnderOf(m, b)
          /\ \A b \in Bank : b # Curr(m) => SideOf(m', b) = SideOf(m, b)
      BY <1>2, <1>3, <2>1, <2>2, <2>7 DEF MainOf, LynneOf, HazelOf, AndyOf, UnderOf, SideOf, ContentsOnly
    <3>4. \A chip \in Chips \ {<<"side", Curr(m)>>} : At(m', chip) = At(m, chip)
      BY <3>3, OneChip
    <3> QED
      BY <1>4, <2>7, <3>1, <3>2, <3>4
  <2> QED
    BY <2>3, <2>4, <2>5, <2>6, <2>7 DEF Regions
<1> QED
  BY <1>5, <1>6, <1>7, WriteCases

\* What main() fits, it fits to the bank it deals with.
LEMMA FitsOnly ==
  ASSUME IInv, ~Running, NEW s, Fitting(s), m' = SidewaysSelect(s, s.romsel)
  PROVE  /\ slot \in Bank /\ m'.romsel = m.romsel /\ m'.acccon = m.acccon /\ m'.ram = s.ram
         /\ m'.extended = (m.extended \/ slot < NumRoms - Sockets)
<1> DEFINE t == SidewaysSelect(s, s.romsel)
<1>1. Selected(s, s.romsel, t) /\ slot \in Bank
  BY FitHolds
<1>2. m' = t
  OBVIOUS
<1> HIDE DEF t
<1> QED
  BY <1>1, <1>2 DEF Selected, SidewaysOnly, Fitting, Extended

\* bbc_load_rom is a fit that may change the bank's contents.
LEMMA LoadRomIsPaged ==
  ASSUME IInv, LoadRom
  PROVE  Paged!Next
<1>1. PICK s : /\ Fitting(s) /\ m' = SidewaysSelect(s, s.romsel) /\ ~Running /\ s.ram = m.ram
  BY LoadRomFits
<1>2. /\ slot \in Bank /\ m'.romsel = m.romsel /\ m'.acccon = m.acccon /\ m'.ram = m.ram
      /\ m'.extended = (m.extended \/ slot < NumRoms - Sockets)
  BY <1>1, FitsOnly
<1>3. /\ SameShadow(m, m') /\ HazelOf(m') = HazelOf(m) /\ AndyOf(m') = AndyOf(m)
      /\ \A b \in Bank \ {slot} : SameBank(m, m', b)
  BY <1>1, FitHolds
<1>4. \A chip \in Chips \ {<<"under", slot>>, <<"side", slot>>} : At(m', chip) = At(m, chip)
  BY <1>2, <1>3, Others
<1>5. \A chip \in Chips \ {<<"under", slot>>, <<"side", slot>>} :
        [c \in Chips |-> Held(c)]'[chip] = [c \in Chips |-> Held(c)][chip]
  BY <1>4, HeldIs
<1>6. Paged!Fit(slot)
  BY <1>2, <1>5, PagedIs DEF Paged!Fit
<1> QED
  BY <1>2, <1>6, PagedIs DEF Paged!Next

\* bbc_make_sideways_ram is a fit that changes no contents.
LEMMA MakeRamIsPaged ==
  ASSUME IInv, MakeSidewaysRam
  PROVE  Paged!Next
<1>1. PICK s : /\ Fitting(s) /\ m' = SidewaysSelect(s, s.romsel) /\ ~Running
               /\ s.bank = m.bank /\ s.ram = m.ram \cup {slot}
  BY MakeRamFits
<1>2. /\ slot \in Bank /\ m'.romsel = m.romsel /\ m'.acccon = m.acccon /\ m'.ram = m.ram \cup {slot}
      /\ m'.extended = (m.extended \/ slot < NumRoms - Sockets)
  BY <1>1, FitsOnly
<1>3. SameAll(m, m')
  BY <1>1, FitHolds DEF SameAll
<1>4. [chip \in Chips |-> Held(chip)]' = [chip \in Chips |-> Held(chip)]
  BY <1>3, Others, PagedVars
<1>5. Paged!Fit(slot)
  BY <1>2, <1>4, PagedIs DEF Paged!Fit
<1> QED
  BY <1>2, <1>5, PagedIs DEF Paged!Next

\* A write of a register selects other chips and changes none.
LEMMA RegistersArePaged ==
  ASSUME IInv
  PROVE  /\ \A val \in Romsels : WriteRomsel(val) => Paged!Next
         /\ \A val \in Acccons : WriteAcccon(val) => Paged!Next
<1>1. ASSUME NEW val \in Romsels, WriteRomsel(val) PROVE Paged!Next
  <2>1. SameAll(m, m') /\ SidewaysOnly(m, m')
    BY <1>1, RomselKeeps
  <2>2. [chip \in Chips |-> Held(chip)]' = [chip \in Chips |-> Held(chip)]
    BY <2>1, Others, PagedVars
  <2> QED
    BY <2>1, <2>2 DEF SidewaysOnly, Paged!Select, Paged!Next
<1>2. ASSUME NEW val \in Acccons, WriteAcccon(val) PROVE Paged!Next
  <2>1. SameAll(m, m') /\ ShadowOnly(m, m')
    BY <1>2, AccconKeeps
  <2>2. [chip \in Chips |-> Held(chip)]' = [chip \in Chips |-> Held(chip)]
    BY <2>1, Others, PagedVars
  <2> QED
    BY <2>1, <2>2 DEF ShadowOnly, Paged!Control, Paged!Next
<1> QED
  BY <1>1, <1>2

\* PagedMemory's AfterReset, of contents that need not be Memory's.
LeftIn(contents, chip) ==
  CASE chip[1] = "main"  -> IF m.acccon.x THEN Cleared ELSE PowerOn
    [] chip[1] = "lynne" -> IF m.acccon.x THEN PowerOn ELSE Cleared
    [] chip[1] = "hazel" -> IF m.acccon.y THEN contents[chip] ELSE Cleared
    [] chip[1] = "andy"  -> IF m.romsel.andy THEN contents[chip] ELSE Cleared
    [] ~Paged!IsRam(chip) -> contents[chip]
    [] OTHER ->
         IF chip[2] = Paged!Current /\ ~(chip[1] = "under" /\ m.romsel.andy) THEN contents[chip] ELSE Cleared

\* What it says of each of them.
LEMMA LeftInThem ==
  ASSUME IInv, NEW contents
  PROVE  /\ LeftIn(contents, <<"main", 0>>) = IF m.acccon.x THEN Cleared ELSE PowerOn
         /\ LeftIn(contents, <<"lynne", 0>>) = IF m.acccon.x THEN PowerOn ELSE Cleared
         /\ LeftIn(contents, <<"hazel", 0>>) = IF m.acccon.y THEN contents[<<"hazel", 0>>] ELSE Cleared
         /\ LeftIn(contents, <<"andy", 0>>) = IF m.romsel.andy THEN contents[<<"andy", 0>>] ELSE Cleared
         /\ LeftIn(contents, <<"os", 0>>) = contents[<<"os", 0>>]
         /\ \A b \in Bank :
              /\ LeftIn(contents, <<"under", b>>) =
                   IF b \notin m.ram \/ (b = Curr(m) /\ ~m.romsel.andy) THEN contents[<<"under", b>>] ELSE Cleared
              /\ LeftIn(contents, <<"side", b>>) =
                   IF b \notin m.ram \/ b = Curr(m) THEN contents[<<"side", b>>] ELSE Cleared
<1>1. Paged!Current = Curr(m)
  BY PagedIs
<1>2. ASSUME NEW b \in Bank
      PROVE  LeftIn(contents, <<"under", b>>) =
               IF b \notin m.ram \/ (b = Curr(m) /\ ~m.romsel.andy) THEN contents[<<"under", b>>] ELSE Cleared
  <2>1. CASE b \in m.ram
    BY <1>1, <2>1 DEF LeftIn, Paged!IsRam
  <2>2. CASE b \notin m.ram
    BY <2>2 DEF LeftIn, Paged!IsRam
  <2> QED
    BY <2>1, <2>2
<1>3. ASSUME NEW b \in Bank
      PROVE  LeftIn(contents, <<"side", b>>) =
               IF b \notin m.ram \/ b = Curr(m) THEN contents[<<"side", b>>] ELSE Cleared
  <2>1. CASE b \in m.ram
    BY <1>1, <2>1 DEF LeftIn, Paged!IsRam
  <2>2. CASE b \notin m.ram
    BY <2>2 DEF LeftIn, Paged!IsRam
  <2> QED
    BY <2>1, <2>2
<1>4. /\ LeftIn(contents, <<"main", 0>>) = IF m.acccon.x THEN Cleared ELSE PowerOn
      /\ LeftIn(contents, <<"lynne", 0>>) = IF m.acccon.x THEN PowerOn ELSE Cleared
  BY DEF LeftIn, Paged!IsRam
<1>6. LeftIn(contents, <<"hazel", 0>>) = IF m.acccon.y THEN contents[<<"hazel", 0>>] ELSE Cleared
  BY DEF LeftIn, Paged!IsRam
<1>7. LeftIn(contents, <<"andy", 0>>) = IF m.romsel.andy THEN contents[<<"andy", 0>>] ELSE Cleared
  BY DEF LeftIn, Paged!IsRam
<1>5. LeftIn(contents, <<"os", 0>>) = contents[<<"os", 0>>]
  BY DEF LeftIn, Paged!IsRam
<1> QED
  BY <1>2, <1>3, <1>4, <1>5, <1>6, <1>7

\* bbc_power_on_memory_reset leaves each chip as PagedMemory's reset does.
LEMMA ResetIsPaged ==
  ASSUME IInv, HardReset
  PROVE  Paged!Next
<1>1. /\ LeftBy(m, m') /\ m'.romsel = NoRomsel /\ m'.acccon = NoAcccon
      /\ m'.extended = m.extended /\ m'.ram = m.ram
  BY HardResetKeeps
<1> DEFINE contents == [c \in Chips |-> Held(c)]
           after    == [c \in Chips |-> Held(c)]'
<1>2. \A chip \in Chips : contents[chip] = At(m, chip) /\ after[chip] = At(m', chip)
  BY HeldIs
<1>3. \A chip \in Chips : Paged!AfterReset(chip) = LeftIn(contents, chip)
  BY DEF Paged!AfterReset, LeftIn
<1>4. ASSUME NEW chip \in Chips PROVE after[chip] = LeftIn(contents, chip)
  <2> HIDE DEF contents, after
  <2>1. contents[chip] = At(m, chip) /\ after[chip] = At(m', chip)
    BY <1>2
  <2>2. CASE chip \in {<<"main", 0>>, <<"lynne", 0>>, <<"hazel", 0>>, <<"andy", 0>>, <<"os", 0>>}
    BY <1>1, <2>1, <2>2, AtThem, LeftInThem DEF LeftBy
  <2>3. ASSUME NEW b \in Bank, chip = <<"under", b>> PROVE after[chip] = LeftIn(contents, chip)
    <3>1. At(m, chip) = UnderOf(m, b) /\ At(m', chip) = UnderOf(m', b)
      BY <2>3, AtThem
    <3>2. UnderOf(m', b) = IF b \notin m.ram \/ (b = Curr(m) /\ ~m.romsel.andy) THEN UnderOf(m, b) ELSE Cleared
      BY <1>1, <2>3 DEF LeftBy
    <3>3. LeftIn(contents, chip) = IF b \notin m.ram \/ (b = Curr(m) /\ ~m.romsel.andy) THEN contents[chip] ELSE Cleared
      BY <2>3, LeftInThem
    <3> QED
      BY <2>1, <3>1, <3>2, <3>3
  <2>4. ASSUME NEW b \in Bank, chip = <<"side", b>> PROVE after[chip] = LeftIn(contents, chip)
    <3>1. At(m, chip) = SideOf(m, b) /\ At(m', chip) = SideOf(m', b)
      BY <2>4, AtThem
    <3>2. SideOf(m', b) = IF b \notin m.ram \/ b = Curr(m) THEN SideOf(m, b) ELSE Cleared
      BY <1>1, <2>4 DEF LeftBy
    <3>3. LeftIn(contents, chip) = IF b \notin m.ram \/ b = Curr(m) THEN contents[chip] ELSE Cleared
      BY <2>4, LeftInThem
    <3> QED
      BY <2>1, <3>1, <3>2, <3>3
  <2> QED
    BY <2>2, <2>3, <2>4, ChipsAre
<1>5. Paged!Reset
  BY <1>1, <1>3, <1>4, PagedIs DEF Paged!Reset, NoRomsel, NoAcccon
<1> QED
  BY <1>5 DEF Paged!Next

\* Every step is a step of PagedMemory or leaves it as it is.
LEMMA StepsArePaged ==
  ASSUME IInv, [Next]_vars
  PROVE  [Paged!Next \/ StrayWrite]_(Paged!vars)
<1>1. ASSUME NEW region \in Regions, NEW vdu \in BOOLEAN, NEW v \in Written, Write(region, vdu, v)
      PROVE  [Paged!Next \/ StrayWrite]_(Paged!vars)
  BY <1>1, WriteIsPaged
<1>2. CASE UNCHANGED m
  <2>1. [chip \in Chips |-> Held(chip)]' = [chip \in Chips |-> Held(chip)]
    BY <1>2, PagedVars
  <2> QED
    BY <1>2, <2>1 DEF Paged!vars
<1> QED
  BY <1>1, <1>2, LoadRomIsPaged, MakeRamIsPaged, RegistersArePaged, ResetIsPaged DEF Next, NextSlot, vars

\* However often chips have been copied over one another (bbc_page_rom, the
\* copies of ANDY, LYNNE and HAZEL, bbc_power_on_memory_reset), every write goes
\* to the chip that ROMSEL and ACCCON select and no other changes; only what the
\* operating system's drawing code writes between a hard reset with accesses
\* trapped and the next write of ACCCON goes to LYNNE. So Memory implements
\* PagedMemory, for every number of banks, every machine and every reset.
THEOREM MemoryIsPaged == Spec => ImplementsPagedMemory
<1>1. Init => IInv
  BY Starts
<1>2. IInv /\ [Next]_vars => IInv'
  BY Inductive
<1>3. Init => Paged!Init
  BY DEF Init, Created, NoAcccon, NoRomsel, Paged!Init
<1>4. IInv /\ [Next]_vars => [Paged!Next \/ StrayWrite]_(Paged!vars)
  BY StepsArePaged
<1> QED
  BY <1>1, <1>2, <1>3, <1>4, PTL DEF Spec, ImplementsPagedMemory

-----------------------------------------------------------------------------
(* What is seen of it. *)

\* What the 6502 reads is in the chip that is selected, or in LYNNE.
LEMMA ReadsAreOfChips ==
  ASSUME IInv, NEW region \in Regions, NEW vdu \in BOOLEAN
  PROVE  Read(region, vdu) = IF untold /\ region = "shadow" /\ vdu THEN Held(<<"lynne", 0>>)
                             ELSE Paged!Read(region, vdu)
<1>1. /\ m.acccon \in Acccons /\ m.romsel \in Romsels /\ Curr(m) \in Bank /\ trapped \in BOOLEAN
      /\ trapped <=> (MosAccessShadow(m.acccon) # m.acccon.x) \/ untold
      /\ ~m.acccon.y => m.raw.hazel = OsRom
  BY CurrIn DEF IInv, Typed, Memories, Derived, Curr
<1>2. MosAccessShadow(m.acccon) \in BOOLEAN /\ m.acccon.x \in BOOLEAN
  BY <1>1, MosIsBoolean DEF Acccons
<1>3. ASSUME NEW chip \in Chips, Paged!Chip(region, vdu) = chip PROVE Paged!Read(region, vdu) = At(m, chip)
  BY <1>3, HeldIs DEF Paged!Read
<1>9. CASE region = "shadow" /\ vdu /\ untold
  <2>1. Read(region, vdu) = m.lynne /\ ~m.acccon.x
    BY <1>1, <1>9 DEF Read, MasterRamRead, IInv, Derived, NoAcccon
  <2>2. <<"lynne", 0>> \in Chips
    BY DEF Chips
  <2>3. Held(<<"lynne", 0>>) = LynneOf(m)
    BY <2>2, HeldIs, AtThem
  <2>4. Held(<<"lynne", 0>>) = m.lynne
    BY <2>1, <2>3 DEF LynneOf
  <2> QED
    BY <1>9, <2>1, <2>4, Zenon
<1>4. CASE region = "shadow" /\ ~(vdu /\ untold)
  <2> DEFINE shadow == Paged!Shadow(vdu)
             kind == IF shadow THEN "lynne" ELSE "main"
  <2>1. shadow = IF vdu THEN MosAccessShadow(m.acccon) ELSE m.acccon.x
    BY PagedIs
  <2>2. Paged!Chip(region, vdu) = <<kind, 0>>
    BY <1>4, PagedIs
  <2> HIDE DEF shadow
  <2>3. shadow \in BOOLEAN
    BY <1>2, <2>1
  <2>4. Read(region, vdu) = IF trapped /\ vdu THEN m.lynne ELSE m.raw.shadow
    BY <1>4 DEF Read, MasterRamRead
  <2>5. At(m, <<kind, 0>>) = IF shadow THEN LynneOf(m) ELSE MainOf(m)
    BY <2>3, AtThem
  <2>6. (IF shadow THEN LynneOf(m) ELSE MainOf(m)) = IF trapped /\ vdu THEN m.lynne ELSE m.raw.shadow
    BY <1>1, <1>2, <1>4, <2>1 DEF LynneOf, MainOf
  <2>7. <<kind, 0>> \in Chips
    BY DEF Chips
  <2> QED
    BY <1>3, <1>4, <2>2, <2>4, <2>5, <2>6, <2>7
<1>5. region # "shadow" => Read(region, vdu) = m.raw[region]
  BY DEF Read, MasterRamRead
<1>6. CASE region = "andy"
  <2>1. CASE m.romsel.andy
    <3>1. Paged!Chip(region, vdu) = <<"andy", 0>> /\ <<"andy", 0>> \in Chips
      BY <1>6, <2>1, PagedIs DEF Chips
    <3>2. At(m, <<"andy", 0>>) = m.raw.andy
      BY <2>1, AtThem DEF AndyOf
    <3> QED
      BY <1>3, <1>5, <1>6, <3>1, <3>2
  <2>2. CASE ~m.romsel.andy
    <3>1. Paged!Chip(region, vdu) = <<"under", Curr(m)>> /\ <<"under", Curr(m)>> \in Chips
      BY <1>1, <1>6, <2>2, PagedIs DEF Chips
    <3>2. At(m, <<"under", Curr(m)>>) = m.raw.andy
      BY <2>2, AtThem DEF UnderOf
    <3> QED
      BY <1>3, <1>5, <1>6, <3>1, <3>2
  <2> QED
    BY <2>1, <2>2
<1>7. CASE region = "side"
  <2>1. Paged!Chip(region, vdu) = <<"side", Curr(m)>> /\ <<"side", Curr(m)>> \in Chips
    BY <1>1, <1>7, PagedIs DEF Chips
  <2>2. At(m, <<"side", Curr(m)>>) = m.raw.side
    BY AtThem DEF SideOf
  <2> QED
    BY <1>3, <1>5, <1>7, <2>1, <2>2
<1>8. CASE region = "hazel"
  <2> DEFINE kind == IF m.acccon.y THEN "hazel" ELSE "os"
  <2>1. Paged!Chip(region, vdu) = <<kind, 0>> /\ <<kind, 0>> \in Chips
    BY <1>8, PagedIs DEF Chips
  <2>2. At(m, <<kind, 0>>) = m.raw.hazel
    BY <1>1, AtThem DEF HazelOf
  <2> QED
    BY <1>3, <1>5, <1>8, <2>1, <2>2
<1> QED
  BY <1>4, <1>6, <1>7, <1>8, <1>9 DEF Regions

\* A region is ROM to the debugger if the chip selected in it is.
LEMMA RomsAreChips ==
  ASSUME IInv, NEW region \in Regions
  PROVE  IsRom(region) = ~Paged!IsRam(Paged!Chip(region, FALSE))
<1>1. /\ m.acccon.y \in BOOLEAN /\ m.romsel.andy \in BOOLEAN /\ IsMaster \in BOOLEAN
      /\ (m.acccon.y => IsMaster) /\ (m.romsel.andy => IsMaster)
  BY MemoryAssumption DEF IInv, Typed, OfItsModel, Memories, Acccons, Romsels, NoAcccon, IsMaster
<1>2. CASE region = "shadow"
  <2>1. PICK kind \in {"lynne", "main"} : Paged!Chip(region, FALSE) = <<kind, 0>>
    BY <1>2, PagedIs
  <2>2. Paged!IsRam(<<kind, 0>>)
    BY <2>1 DEF Paged!IsRam
  <2> QED
    BY <1>2, <2>1, <2>2 DEF IsRom
<1>3. CASE region = "hazel" /\ m.acccon.y
  <2>1. Paged!Chip(region, FALSE) = <<"hazel", 0>>
    BY <1>3, PagedIs
  <2>2. Paged!IsRam(<<"hazel", 0>>)
    BY DEF Paged!IsRam
  <2> QED
    BY <1>1, <1>3, <2>1, <2>2 DEF IsRom
<1>4. CASE region = "hazel" /\ ~m.acccon.y
  <2>1. Paged!Chip(region, FALSE) = <<"os", 0>>
    BY <1>4, PagedIs
  <2>2. ~Paged!IsRam(<<"os", 0>>)
    BY DEF Paged!IsRam
  <2> QED
    BY <1>4, <2>1, <2>2 DEF IsRom
<1>5. CASE region = "andy" /\ m.romsel.andy
  <2>1. Paged!Chip(region, FALSE) = <<"andy", 0>>
    BY <1>5, PagedIs
  <2>2. Paged!IsRam(<<"andy", 0>>)
    BY DEF Paged!IsRam
  <2> QED
    BY <1>1, <1>5, <2>1, <2>2 DEF IsRom
<1>6. CASE region = "andy" /\ ~m.romsel.andy
  <2>1. Paged!Chip(region, FALSE) = <<"under", Curr(m)>>
    BY <1>6, PagedIs
  <2>2. Paged!IsRam(<<"under", Curr(m)>>) = (Curr(m) \in m.ram)
    BY DEF Paged!IsRam
  <2>3. IsRom(region) = ~(Curr(m) \in m.ram)
    BY <1>6 DEF IsRom, Curr
  <2> QED
    BY <2>1, <2>2, <2>3
<1>7. CASE region = "side"
  <2>1. Paged!Chip(region, FALSE) = <<"side", Curr(m)>>
    BY <1>7, PagedIs
  <2>2. Paged!IsRam(<<"side", Curr(m)>>) = (Curr(m) \in m.ram)
    BY DEF Paged!IsRam
  <2>3. IsRom(region) = ~(Curr(m) \in m.ram)
    BY <1>7 DEF IsRom, Curr
  <2> QED
    BY <2>1, <2>2, <2>3
<1> QED
  BY <1>2, <1>3, <1>4, <1>5, <1>6, <1>7 DEF Regions

\* What is displayed is the chip that D selects.
LEMMA DisplayIsOfChips ==
  ASSUME IInv
  PROVE  Displayed = Paged!Displayed
<1>1. /\ m.acccon.d \in BOOLEAN /\ m.acccon.x \in BOOLEAN /\ m.shown = (m.acccon.d # m.acccon.x)
  BY DEF IInv, Typed, Derived, Memories, Acccons
<1> DEFINE kind == IF m.acccon.d THEN "lynne" ELSE "main"
<1>2. <<kind, 0>> \in Chips
  BY DEF Chips
<1>3. Paged!Displayed = At(m, <<kind, 0>>)
  BY <1>2, HeldIs DEF Paged!Displayed
<1>4. At(m, <<kind, 0>>) = IF m.acccon.d THEN LynneOf(m) ELSE MainOf(m)
  BY <1>1, AtThem
<1>5. Displayed = IF m.acccon.d THEN LynneOf(m) ELSE MainOf(m)
  BY <1>1 DEF Displayed, LynneOf, MainOf
<1> QED
  BY <1>3, <1>4, <1>5

\* What the 6502 reads, in the operating system's drawing code and anywhere else,
\* what is on the screen and what the debugger takes for ROM are those of the
\* chips that the registers select; accesses are trapped when they have to be; and
\* a model B's writes reach the current bank only if it is RAM, and always if a
\* bank that is not has been current. What is different after a hard reset with
\* accesses trapped is that the drawing code reads LYNNE until ACCCON is written.
THEOREM MemoryIsSeen == Spec => []SeesPagedMemory
<1>1. Init => IInv
  BY Starts
<1>2. IInv /\ [Next]_vars => IInv'
  BY Inductive
<1>3. IInv => SeesPagedMemory
  <2>1. SUFFICES ASSUME IInv PROVE SeesPagedMemory
    OBVIOUS
  <2>2. trapped <=> m.different \/ untold
    BY <2>1 DEF IInv, Derived
  <2>3. /\ m.through => ~IsMaster /\ ~InRom(m)
        /\ ~IsMaster /\ romPaged /\ ~InRom(m) => m.through
    BY <2>1 DEF IInv, Through, InRom, Curr
  <2> QED
    BY <2>1, <2>2, <2>3, ReadsAreOfChips, RomsAreChips, DisplayIsOfChips DEF SeesPagedMemory
<1> QED
  BY <1>1, <1>2, <1>3, PTL DEF Spec
=============================================================================
