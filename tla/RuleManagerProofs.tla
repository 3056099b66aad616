-------------------------- MODULE RuleManagerProofs --------------------------
(***************************************************************************)
(* What RuleManager guarantees to a call that takes its four locks one     *)
(* after the other, for any number of threads, rules and packets.          *)
(*                                                                         *)
(* Each call is followed through the tables: a rule that has been in force *)
(* ever since the call began, and that it has not met, is in a table it    *)
(* has still to come to.                                                   *)
(***************************************************************************)
EXTENDS RuleManager, TLAPS

SaveRank(table) == CHOOSE i \in 1 .. 4 : SaveOrder[i] = table

\* A call knows what is in force.
WitnessInv(t) ==
    /\ op[t] = "none" => at[t] = 1 /\ hits[t] = {}
    /\ Inside(t) => hits[t] = {} /\ steady[t] \subseteq InForce /\ InForce \subseteq ever[t]
\* shouldBlock has missed no rule of the tables it has asked.
ScanInv(t) ==
    op[t] = "shouldBlock" =>
        /\ hits[t] \subseteq ever[t]
        /\ hits[t] = {} =>
             \A r \in steady[t] : Matches(packet[t][1], r) => Rank(r.table) >= at[t]
        /\ \A hit \in hits[t], r \in steady[t] :
             Matches(packet[t][1], r) => Rank(hit.table) <= Rank(r.table)
\* clearAll has left no rule in the tables it has cleared ...
ClearInv(t) ==
    op[t] = "clearAll" => \A r \in steady[t] : SaveRank(r.table) >= at[t]
\* ... and saveRules has written those of the tables it has read.
SaveInv(t) ==
    op[t] = "saveRules" =>
        LET written == {l[1] : l \in lines[t]}
        IN /\ written \subseteq ever[t]
           /\ \A r \in steady[t] : r \in written \/ SaveRank(r.table) >= at[t]

CallInv(t) == WitnessInv(t) /\ ScanInv(t) /\ ClearInv(t) /\ SaveInv(t)
RulesInv == TypeOK /\ \A t \in Threads : CallInv(t)

-----------------------------------------------------------------------------
(* Where the tables are in the two orders                                  *)

LEMMA RankOf ==
    ASSUME NEW table \in Tables
    PROVE  /\ Rank(table) \in 1 .. 4
           /\ \A i \in 1 .. 4 : CheckOrder[i] = table <=> i = Rank(table)
<1>1. \E i \in 1 .. 4 : CheckOrder[i] = table
    BY DEF Tables, CheckOrder
<1>2. Rank(table) \in 1 .. 4 /\ CheckOrder[Rank(table)] = table
    BY <1>1 DEF Rank
<1>3. \A i, j \in 1 .. 4 : CheckOrder[i] = CheckOrder[j] => i = j
    BY DEF CheckOrder
<1> QED BY <1>2, <1>3

LEMMA SaveRankOf ==
    ASSUME NEW table \in Tables
    PROVE  /\ SaveRank(table) \in 1 .. 4
           /\ \A i \in 1 .. 4 : SaveOrder[i] = table <=> i = SaveRank(table)
<1>1. \E i \in 1 .. 4 : SaveOrder[i] = table
    BY DEF Tables, SaveOrder
<1>2. SaveRank(table) \in 1 .. 4 /\ SaveOrder[SaveRank(table)] = table
    BY <1>1 DEF SaveRank
<1>3. \A i, j \in 1 .. 4 : SaveOrder[i] = SaveOrder[j] => i = j
    BY DEF SaveOrder
<1> QED BY <1>2, <1>3

LEMMA RankOfRule ==
    ASSUME NEW r \in Rules
    PROVE  /\ r.table \in Tables
           /\ Rank(r.table) \in 1 .. 4
           /\ \A i \in 1 .. 4 : CheckOrder[i] = r.table <=> i = Rank(r.table)
           /\ SaveRank(r.table) \in 1 .. 4
           /\ \A i \in 1 .. 4 : SaveOrder[i] = r.table <=> i = SaveRank(r.table)
BY RulesAssumption, RankOf, SaveRankOf

-----------------------------------------------------------------------------
(* The steps of other threads                                              *)

SameCall(x) == /\ op'[x] = op[x] /\ at'[x] = at[x] /\ packet'[x] = packet[x]
               /\ hits'[x] = hits[x] /\ lines'[x] = lines[x]

\* A step that changes the tables keeps what is known of a call it is not
\* part of.
LEMMA ChangeKeepsCall ==
    ASSUME TypeOK, NEW x \in Threads, CallInv(x), NEW new \in [Rules -> Nat],
           Change(new), SameCall(x)
    PROVE  CallInv(x)'
<1> DEFINE now == {r \in Rules : new[r] > 0}
<1>1. InForce' = now
    BY DEF InForce, Change
<1>2. Inside(x)' <=> Inside(x)
    BY DEF Inside, SameCall
<1>3. CASE Inside(x)
    <2>1. steady'[x] = steady[x] \cap now /\ ever'[x] = ever[x] \cup now
        BY <1>3 DEF Change
    <2>2. WitnessInv(x)'
        BY <1>1, <1>2, <1>3, <2>1 DEF CallInv, WitnessInv, SameCall, Inside
    <2>3. ScanInv(x)'
        BY <2>1 DEF CallInv, ScanInv, SameCall
    <2>4. ClearInv(x)'
        BY <2>1 DEF CallInv, ClearInv, SameCall
    <2>5. SaveInv(x)'
        BY <2>1 DEF CallInv, SaveInv, SameCall
    <2> QED BY <2>2, <2>3, <2>4, <2>5 DEF CallInv
<1>4. CASE ~Inside(x)
    <2>1. steady'[x] = steady[x] /\ ever'[x] = ever[x]
        BY <1>4 DEF Change
    <2>2. WitnessInv(x)'
        BY <1>2, <1>4 DEF CallInv, WitnessInv, SameCall
    <2>3. ScanInv(x)'
        BY <2>1 DEF CallInv, ScanInv, SameCall
    <2>4. ClearInv(x)'
        BY <2>1 DEF CallInv, ClearInv, SameCall
    <2>5. SaveInv(x)'
        BY <2>1 DEF CallInv, SaveInv, SameCall
    <2> QED BY <2>2, <2>3, <2>4, <2>5 DEF CallInv
<1> QED BY <1>3, <1>4

\* So does a step that leaves the tables alone.
LEMMA OthersKeepCall ==
    ASSUME NEW x \in Threads, CallInv(x), SameCall(x),
           count' = count, steady'[x] = steady[x], ever'[x] = ever[x]
    PROVE  CallInv(x)'
<1>1. InForce' = InForce
    BY DEF InForce
<1>2. WitnessInv(x)'
    BY <1>1 DEF CallInv, WitnessInv, SameCall, Inside
<1>3. ScanInv(x)'
    BY DEF CallInv, ScanInv, SameCall
<1>4. ClearInv(x)'
    BY DEF CallInv, ClearInv, SameCall
<1>5. SaveInv(x)'
    BY DEF CallInv, SaveInv, SameCall
<1> QED BY <1>2, <1>3, <1>4, <1>5 DEF CallInv

-----------------------------------------------------------------------------
(* Types                                                                   *)

IsCount(new) == new \in [Rules -> Nat] /\ \A r \in Rules : ~IsPattern(r) => new[r] <= 1

LEMMA ChangeTypes ==
    ASSUME TypeOK, NEW new, IsCount(new), Change(new)
    PROVE  /\ count' \in [Rules -> Nat]
           /\ \A r \in Rules : ~IsPattern(r) => count'[r] <= 1
           /\ steady' \in [Threads -> SUBSET Rules]
           /\ ever' \in [Threads -> SUBSET Rules]
<1>1. count' \in [Rules -> Nat] /\ \A r \in Rules : ~IsPattern(r) => count'[r] <= 1
    BY DEF IsCount, Change
<1>2. steady' \in [Threads -> SUBSET Rules]
    BY DEF TypeOK, Change
<1>3. ever' \in [Threads -> SUBSET Rules]
    BY DEF TypeOK, Change
<1> QED BY <1>1, <1>2, <1>3

LEMMA WithCounts ==
    ASSUME TypeOK, NEW r \in Rules
    PROVE  IsCount(With(r))
<1>1. With(r) \in [Rules -> Nat]
    BY DEF TypeOK, With
<1>2. \A s \in Rules : ~IsPattern(s) => With(r)[s] <= 1
    BY DEF TypeOK, With
<1> QED BY <1>1, <1>2 DEF IsCount

LEMMA WithoutCounts ==
    ASSUME TypeOK, NEW r \in Rules
    PROVE  IsCount(Without(r))
<1>1. Without(r) \in [Rules -> Nat]
    BY DEF TypeOK, Without
<1>2. \A s \in Rules : ~IsPattern(s) => Without(r)[s] <= 1
    BY DEF TypeOK, Without
<1> QED BY <1>1, <1>2 DEF IsCount

Cleared(t) == [r \in Rules |-> IF r.table = SaveOrder[at[t]] THEN 0 ELSE count[r]]
LEMMA ClearedCounts ==
    ASSUME TypeOK, NEW t \in Threads
    PROVE  IsCount(Cleared(t))
<1>1. Cleared(t) \in [Rules -> Nat]
    BY DEF TypeOK, Cleared
<1>2. \A s \in Rules : ~IsPattern(s) => Cleared(t)[s] <= 1
    BY DEF TypeOK, Cleared
<1> QED BY <1>1, <1>2 DEF IsCount

LEMMA CallsGrow == \A t : TypeOK /\ MayCall(t) => calls' \in 0 .. MaxCalls
BY CallsAssumption DEF TypeOK, MayCall

\* The lines of a section are rules with a number.
Section(t) == UNION {LinesOf(r) : r \in InTable(SaveOrder[at[t]])}
LEMMA SectionType ==
    ASSUME TypeOK, NEW t \in Threads
    PROVE  Section(t) \subseteq Rules \X Nat
<1> SUFFICES ASSUME NEW l \in Section(t)
             PROVE  l \in Rules \X Nat
    OBVIOUS
<1>1. PICK r \in InTable(SaveOrder[at[t]]) : l \in LinesOf(r)
    BY DEF Section
<1>2. r \in Rules /\ count[r] \in Nat
    BY DEF TypeOK, InTable, InForce
<1>3. PICK i \in 1 .. count[r] : l = <<r, i>>
    BY <1>1 DEF LinesOf
<1> QED BY <1>2, <1>3

LEMMA TypeStep == TypeOK /\ [Next]_vars => TypeOK'
<1> USE DEF Threads
<1> SUFFICES ASSUME TypeOK, [Next]_vars
             PROVE  TypeOK'
    OBVIOUS
<1>1. ASSUME NEW t \in Writers, NEW r \in Rules, Block(t, r)
      PROVE  TypeOK'
    BY <1>1, WithCounts, ChangeTypes, CallsGrow DEF TypeOK, Block
<1>2. ASSUME NEW t \in Writers, NEW r \in Rules, Unblock(t, r)
      PROVE  TypeOK'
    BY <1>2, WithoutCounts, ChangeTypes, CallsGrow DEF TypeOK, Unblock
<1>3. ASSUME NEW t \in Threads,
             NEW function \in {"shouldBlock", "clearAll", "saveRules", "loadRules"},
             NEW asked \in {<<>>} \cup {<<p>> : p \in Packets},
             NEW toRead \in {{}, file}, Begin(t, function, asked, toRead),
             calls' \in 0 .. MaxCalls, file' \in {file, {}}
      PROVE  TypeOK'
    <2>1. InForce \subseteq Rules
        BY DEF InForce
    <2>2. op' \in [Threads -> {"none", "shouldBlock", "clearAll", "saveRules", "loadRules"}]
        BY <1>3 DEF TypeOK, Begin
    <2>3. packet' \in [Threads -> {<<>>} \cup {<<p>> : p \in Packets}]
        BY <1>3 DEF TypeOK, Begin
    <2>4. lines' \in [Threads -> SUBSET (Rules \X Nat)]
        BY <1>3 DEF TypeOK, Begin
    <2>5. steady' \in [Threads -> SUBSET Rules] /\ ever' \in [Threads -> SUBSET Rules]
        BY <1>3, <2>1 DEF TypeOK, Begin
    <2> QED BY <1>3, <2>2, <2>3, <2>4, <2>5 DEF TypeOK, Begin
<1>4. ASSUME NEW t \in Readers, NEW p \in Packets, ShouldBlock(t, p)
      PROVE  TypeOK'
    BY <1>3, <1>4 DEF ShouldBlock, TypeOK
<1>5. ASSUME NEW t \in Writers, ClearAll(t)
      PROVE  TypeOK'
    BY <1>3, <1>5, CallsGrow DEF ClearAll
<1>6. ASSUME NEW t \in Writers, SaveRules(t)
      PROVE  TypeOK'
    BY <1>3, <1>6, CallsGrow DEF SaveRules
<1>7. ASSUME NEW t \in Writers, LoadRules(t)
      PROVE  TypeOK'
    BY <1>3, <1>7, CallsGrow DEF LoadRules
<1>8. ASSUME NEW t \in Threads, NEW i \in 1 .. Returning, Go(t, i)
      PROVE  at' \in [Threads -> 1 .. Returning]
    BY <1>8 DEF TypeOK, Go
<1>9. ASSUME NEW t \in Threads, Inside(t)
      PROVE  at[t] + 1 \in 1 .. Returning
    BY <1>9 DEF TypeOK, Inside, Returning
<1>10. ASSUME NEW t \in Readers, CheckTable(t)
       PROVE  TypeOK'
    <2>1. Matching(t) \subseteq Rules
        BY DEF Matching, InTable, InForce
    <2>2. hits' \in [Threads -> SUBSET Rules]
        BY <1>10, <2>1 DEF TypeOK, CheckTable
    <2>3. at' \in [Threads -> 1 .. Returning]
        BY <1>8, <1>9, <1>10 DEF CheckTable, Returning
    <2> QED BY <1>10, <2>2, <2>3 DEF TypeOK, CheckTable
<1>11. ASSUME NEW t \in Writers, ClearTable(t)
       PROVE  TypeOK'
    <2>1. Change(Cleared(t)) /\ IsCount(Cleared(t))
        BY <1>11, ClearedCounts DEF ClearTable, Cleared
    <2>2. at' \in [Threads -> 1 .. Returning]
        BY <1>8, <1>9, <1>11 DEF ClearTable
    <2> QED BY <1>11, <2>1, <2>2, ChangeTypes DEF TypeOK, ClearTable
<1>12. ASSUME NEW t \in Writers, SaveTable(t)
       PROVE  TypeOK'
    <2>1. lines' = [lines EXCEPT ![t] = @ \cup Section(t)]
        BY <1>12 DEF SaveTable, Section
    <2>2. lines' \in [Threads -> SUBSET (Rules \X Nat)]
        BY <2>1, SectionType DEF TypeOK
    <2>3. at' \in [Threads -> 1 .. Returning]
        BY <1>8, <1>9, <1>12 DEF SaveTable
    <2> QED BY <1>12, <2>2, <2>3 DEF TypeOK, SaveTable
<1>13. ASSUME NEW t \in Writers, LoadLine(t)
       PROVE  TypeOK'
    <2>1. CASE Go(t, at[t] + 1) /\ UNCHANGED <<count, lines, steady, ever>>
        <3>1. at' \in [Threads -> 1 .. Returning]
            BY <1>8, <1>9, <1>13, <2>1 DEF LoadLine
        <3> QED BY <1>13, <2>1, <3>1 DEF TypeOK, LoadLine
    <2>2. ASSUME NEW l \in lines[t], Change(With(l[1])),
                 lines' = [lines EXCEPT ![t] = @ \ {l}], UNCHANGED at
          PROVE  TypeOK'
        <3>1. l[1] \in Rules
            BY <2>2 DEF TypeOK
        <3>2. lines' \in [Threads -> SUBSET (Rules \X Nat)]
            BY <2>2 DEF TypeOK
        <3> QED BY <1>13, <2>2, <3>1, <3>2, WithCounts, ChangeTypes DEF TypeOK, LoadLine
    <2> QED BY <1>13, <2>1, <2>2 DEF LoadLine
<1>14. ASSUME NEW t \in Threads, Return(t)
       PROVE  TypeOK'
    <2>1. file' \subseteq Rules \X Nat
        BY <1>14 DEF TypeOK, Return
    <2>2. at' \in [Threads -> 1 .. Returning]
        <3>1. 1 \in 1 .. Returning
            BY DEF Returning
        <3>2. Go(t, 1)
            BY <1>14 DEF Return
        <3> QED BY <1>8, <3>1, <3>2
    <2>3. op' \in [Threads -> {"none", "shouldBlock", "clearAll", "saveRules", "loadRules"}]
        BY <1>14 DEF TypeOK, Return
    <2>4. packet' \in [Threads -> {<<>>} \cup {<<p>> : p \in Packets}]
        BY <1>14 DEF TypeOK, Return
    <2>5. hits' \in [Threads -> SUBSET Rules] /\ lines' \in [Threads -> SUBSET (Rules \X Nat)]
        BY <1>14 DEF TypeOK, Return
    <2>6. steady' \in [Threads -> SUBSET Rules] /\ ever' \in [Threads -> SUBSET Rules]
        BY <1>14 DEF TypeOK, Return
    <2> QED BY <1>14, <2>1, <2>2, <2>3, <2>4, <2>5, <2>6 DEF TypeOK, Return
<1>15. CASE UNCHANGED vars
    BY <1>15 DEF TypeOK, vars
<1> QED BY <1>1, <1>2, <1>4, <1>5, <1>6, <1>7, <1>10, <1>11, <1>12, <1>13, <1>14, <1>15
        DEF Next, ReaderNext, WriterNext
-----------------------------------------------------------------------------
(* The steps of a call                                                     *)

\* A rule that has been in force throughout and that matches is one of the
\* hits, once its table is asked.
LEMMA CheckKeepsCall ==
    ASSUME TypeOK, NEW t \in Readers, CallInv(t), CheckTable(t)
    PROVE  CallInv(t)'
<1> USE DEF Threads
<1> DEFINE i == at[t]
<1>1. i \in 1 .. 4 /\ hits[t] = {} /\ op[t] = "shouldBlock"
    BY DEF TypeOK, CheckTable, Inside, Returning, CallInv, WitnessInv
<1>2. /\ hits'[t] = Matching(t)
      /\ at'[t] = IF Matching(t) # {} THEN Returning ELSE i + 1
      /\ op'[t] = "shouldBlock" /\ packet'[t] = packet[t]
      /\ steady'[t] = steady[t] /\ ever'[t] = ever[t] /\ count' = count
    BY <1>1 DEF TypeOK, CheckTable, Go
<1>3. steady[t] \subseteq InForce /\ InForce \subseteq ever[t] /\ InForce \subseteq Rules
    BY DEF CheckTable, CallInv, WitnessInv, InForce
<1>4. \A r \in steady[t] : Matches(packet[t][1], r) => Rank(r.table) >= i
    BY <1>1 DEF CallInv, ScanInv
<1>5. \A r \in Matching(t) : r \in InForce /\ Rank(r.table) = i
    BY <1>1, <1>3, RankOfRule DEF Matching, InTable
<1>6. \A r \in steady[t] : Matches(packet[t][1], r) /\ Rank(r.table) = i => r \in Matching(t)
    BY <1>1, <1>3, RankOfRule DEF Matching, InTable
<1>7. CASE Matching(t) = {}
    <2>1. \A r \in steady[t] : Matches(packet[t][1], r) => Rank(r.table) >= i + 1
        BY <1>1, <1>3, <1>4, <1>6, <1>7, RankOfRule
    <2>2. ScanInv(t)'
        BY <1>2, <1>7, <2>1 DEF ScanInv
    <2>3. WitnessInv(t)'
        BY <1>2, <1>3, <1>7 DEF WitnessInv, InForce
    <2> QED BY <1>2, <2>2, <2>3 DEF CallInv, ClearInv, SaveInv
<1>8. CASE Matching(t) # {}
    <2>1. ScanInv(t)'
        BY <1>2, <1>3, <1>4, <1>5, <1>8 DEF ScanInv
    <2>2. WitnessInv(t)'
        BY <1>2, <1>8 DEF WitnessInv, Inside
    <2> QED BY <1>2, <2>1, <2>2 DEF CallInv, ClearInv, SaveInv
<1> QED BY <1>7, <1>8

LEMMA ClearKeepsCall ==
    ASSUME TypeOK, NEW t \in Writers, CallInv(t), ClearTable(t)
    PROVE  CallInv(t)'
<1> USE DEF Threads
<1> DEFINE i == at[t]
<1>1. i \in 1 .. 4 /\ op[t] = "clearAll" /\ Inside(t)
    BY DEF TypeOK, ClearTable, Inside, Returning
<1>2. at'[t] = i + 1 /\ op'[t] = "clearAll" /\ hits'[t] = hits[t]
    BY <1>1 DEF TypeOK, ClearTable, Go
<1>3. Change(Cleared(t)) /\ IsCount(Cleared(t))
    BY ClearedCounts DEF ClearTable, Cleared
<1> DEFINE now == {r \in Rules : Cleared(t)[r] > 0}
<1>4. steady'[t] = steady[t] \cap now /\ ever'[t] = ever[t] \cup now
    BY <1>1, <1>3 DEF Change
<1>5. InForce' = now
    BY <1>3 DEF Change, InForce
<1>6. \A r \in now : SaveRank(r.table) # i
    <2> SUFFICES ASSUME NEW r \in now, SaveRank(r.table) = i
                 PROVE  FALSE
        OBVIOUS
    <2>1. SaveOrder[i] = r.table
        BY <1>1, RankOfRule
    <2>2. Cleared(t)[r] = 0
        BY <2>1 DEF Cleared
    <2> QED BY <2>2
<1>7. \A r \in steady[t] : SaveRank(r.table) >= i
    BY <1>1 DEF CallInv, ClearInv
<1>8. \A r \in steady'[t] : SaveRank(r.table) >= i + 1
    BY <1>1, <1>4, <1>6, <1>7, RankOfRule
<1>9. ClearInv(t)'
    BY <1>2, <1>8 DEF ClearInv
<1>10. WitnessInv(t)'
    BY <1>1, <1>2, <1>4, <1>5 DEF CallInv, WitnessInv
<1> QED BY <1>2, <1>9, <1>10 DEF CallInv, ScanInv, SaveInv

LEMMA SaveKeepsCall ==
    ASSUME TypeOK, NEW t \in Writers, CallInv(t), SaveTable(t)
    PROVE  CallInv(t)'
<1> USE DEF Threads
<1> DEFINE i == at[t]
           written == {l[1] : l \in lines[t]}
<1>1. i \in 1 .. 4 /\ op[t] = "saveRules" /\ Inside(t)
    BY DEF TypeOK, SaveTable, Inside, Returning
<1>2. /\ at'[t] = i + 1 /\ op'[t] = "saveRules" /\ hits'[t] = hits[t]
      /\ steady'[t] = steady[t] /\ ever'[t] = ever[t] /\ count' = count
    BY <1>1 DEF TypeOK, SaveTable, Go
<1>3. lines'[t] = lines[t] \cup Section(t)
    BY DEF TypeOK, SaveTable, Section
<1>4. steady[t] \subseteq InForce /\ InForce \subseteq ever[t] /\ hits[t] = {}
    BY <1>1 DEF CallInv, WitnessInv
<1>5. \A l \in Section(t) : l[1] \in InForce
    <2> SUFFICES ASSUME NEW l \in Section(t)
                 PROVE  l[1] \in InForce
        OBVIOUS
    <2>1. PICK r \in InTable(SaveOrder[i]) : l \in LinesOf(r)
        BY DEF Section
    <2>2. l[1] = r
        BY <2>1 DEF LinesOf
    <2> QED BY <2>2 DEF InTable
<1>6. \A r \in InForce : SaveRank(r.table) = i => \E l \in Section(t) : l[1] = r
    <2> SUFFICES ASSUME NEW r \in InForce, SaveRank(r.table) = i
                 PROVE  \E l \in Section(t) : l[1] = r
        OBVIOUS
    <2>1. r \in Rules /\ count[r] \in Nat /\ count[r] > 0
        BY DEF InForce, TypeOK
    <2>2. r \in InTable(SaveOrder[i])
        BY <1>1, <2>1, RankOfRule DEF InTable
    <2>3. <<r, 1>> \in LinesOf(r)
        BY <2>1 DEF LinesOf
    <2> QED BY <2>2, <2>3 DEF Section
<1>7. written \subseteq ever[t] /\ \A r \in steady[t] : r \in written \/ SaveRank(r.table) >= i
    BY <1>1 DEF CallInv, SaveInv
<1>8. {l[1] : l \in lines'[t]} \subseteq ever[t]
    BY <1>3, <1>4, <1>5, <1>7
<1>9. \A r \in steady[t] : r \in {l[1] : l \in lines'[t]} \/ SaveRank(r.table) >= i + 1
    <2> SUFFICES ASSUME NEW r \in steady[t], SaveRank(r.table) < i + 1
                 PROVE  r \in {l[1] : l \in lines'[t]}
        BY <1>1, <1>4, RankOfRule DEF InForce
    <2>1. r \in Rules /\ SaveRank(r.table) \in 1 .. 4
        BY <1>4, RankOfRule DEF InForce
    <2>2. CASE r \in written
        BY <1>3, <2>2
    <2>3. CASE r \notin written
        <3>1. SaveRank(r.table) = i
            BY <1>1, <1>7, <2>1, <2>3
        <3>2. PICK l \in Section(t) : l[1] = r
            BY <1>4, <1>6, <3>1
        <3> QED BY <1>3, <3>2
    <2> QED BY <2>2, <2>3
<1>10. SaveInv(t)'
    BY <1>2, <1>8, <1>9 DEF SaveInv
<1>11. WitnessInv(t)'
    BY <1>2, <1>4 DEF WitnessInv, InForce
<1> QED BY <1>2, <1>10, <1>11 DEF CallInv, ScanInv, ClearInv
LEMMA BeginKeepsCall ==
    ASSUME TypeOK, NEW t \in Threads, NEW function, NEW asked, NEW toRead,
           CallInv(t), Begin(t, function, asked, toRead),
           function # "none", function = "saveRules" => toRead = {}
    PROVE  CallInv(t)'
<1>1. at[t] = 1 /\ hits[t] = {}
    BY DEF Begin, CallInv, WitnessInv
<1>2. /\ op'[t] = function /\ at'[t] = 1 /\ hits'[t] = {} /\ lines'[t] = toRead
      /\ steady'[t] = InForce /\ ever'[t] = InForce /\ count' = count
    BY <1>1 DEF TypeOK, Begin
<1>3. \A r \in InForce : Rank(r.table) >= 1 /\ SaveRank(r.table) >= 1
    BY RankOfRule DEF InForce
<1>4. WitnessInv(t)'
    BY <1>2 DEF WitnessInv, InForce
<1>5. ScanInv(t)'
    BY <1>2, <1>3 DEF ScanInv
<1>6. ClearInv(t)'
    BY <1>2, <1>3 DEF ClearInv
<1>7. SaveInv(t)'
    BY <1>2, <1>3 DEF SaveInv
<1> QED BY <1>4, <1>5, <1>6, <1>7 DEF CallInv

LEMMA LoadKeepsCall ==
    ASSUME TypeOK, NEW t \in Writers, CallInv(t), LoadLine(t)
    PROVE  CallInv(t)'
<1> USE DEF Threads
<1>1. op[t] = "loadRules" /\ op'[t] = op[t] /\ hits'[t] = hits[t] /\ Inside(t)
    BY DEF LoadLine
<1>2. hits[t] = {} /\ steady[t] \subseteq InForce /\ InForce \subseteq ever[t]
    BY <1>1 DEF CallInv, WitnessInv
<1>3. CASE UNCHANGED <<count, lines, steady, ever>>
    BY <1>1, <1>2, <1>3 DEF CallInv, WitnessInv, ScanInv, ClearInv, SaveInv, InForce
<1>4. ASSUME NEW l \in lines[t], Change(With(l[1])), UNCHANGED at
      PROVE  CallInv(t)'
    <2> DEFINE now == {r \in Rules : With(l[1])[r] > 0}
    <2>1. InForce' = now
        BY <1>4 DEF Change, InForce
    <2>2. steady'[t] = steady[t] \cap now /\ ever'[t] = ever[t] \cup now
        BY <1>1, <1>4 DEF Change
    <2>3. WitnessInv(t)'
        BY <1>1, <1>2, <2>1, <2>2 DEF WitnessInv
    <2> QED BY <1>1, <2>3 DEF CallInv, ScanInv, ClearInv, SaveInv
<1> QED BY <1>3, <1>4 DEF LoadLine

LEMMA ReturnKeepsCall ==
    ASSUME TypeOK, NEW t \in Threads, Return(t)
    PROVE  CallInv(t)'
<1>1. op'[t] = "none" /\ at'[t] = 1 /\ hits'[t] = {}
    BY DEF TypeOK, Return, Go
<1>2. WitnessInv(t)'
    BY <1>1 DEF WitnessInv, Inside
<1> QED BY <1>1, <1>2 DEF CallInv, ScanInv, ClearInv, SaveInv

-----------------------------------------------------------------------------
(* The invariant                                                           *)

LEMMA RulesStep == RulesInv /\ [Next]_vars => RulesInv'
<1> SUFFICES ASSUME RulesInv, [Next]_vars
             PROVE  RulesInv'
    OBVIOUS
<1> USE DEF Threads
<1>1. TypeOK /\ TypeOK'
    BY TypeStep DEF RulesInv
<1> SUFFICES ASSUME NEW x \in Threads
             PROVE  CallInv(x)'
    BY <1>1 DEF RulesInv
<1>2. CallInv(x)
    BY DEF RulesInv
<1>3. ASSUME NEW t \in Writers, NEW r \in Rules, Block(t, r)
      PROVE  CallInv(x)'
    <2>1. SameCall(x) /\ Change(With(r))
        BY <1>3 DEF Block, SameCall
    <2> QED BY <1>1, <1>2, <2>1, WithCounts, ChangeKeepsCall DEF IsCount
<1>4. ASSUME NEW t \in Writers, NEW r \in Rules, Unblock(t, r)
      PROVE  CallInv(x)'
    <2>1. SameCall(x) /\ Change(Without(r))
        BY <1>4 DEF Unblock, SameCall
    <2> QED BY <1>1, <1>2, <2>1, WithoutCounts, ChangeKeepsCall DEF IsCount
<1>5. ASSUME NEW t \in Threads, NEW function, NEW asked, NEW toRead,
             Begin(t, function, asked, toRead),
             function # "none", function = "saveRules" => toRead = {}
      PROVE  CallInv(x)'
    <2>1. CASE x = t
        BY <1>1, <1>2, <1>5, <2>1, BeginKeepsCall
    <2>2. CASE x # t
        <3>1. SameCall(x) /\ count' = count /\ steady'[x] = steady[x] /\ ever'[x] = ever[x]
            BY <1>1, <1>5, <2>2 DEF TypeOK, Begin, SameCall
        <3> QED BY <1>2, <3>1, OthersKeepCall
    <2> QED BY <2>1, <2>2
<1>6. ASSUME NEW t \in Readers, NEW p \in Packets, ShouldBlock(t, p)
      PROVE  CallInv(x)'
    BY <1>5, <1>6 DEF ShouldBlock
<1>7. ASSUME NEW t \in Writers, ClearAll(t) \/ SaveRules(t) \/ LoadRules(t)
      PROVE  CallInv(x)'
    BY <1>5, <1>7 DEF ClearAll, SaveRules, LoadRules
<1>8. ASSUME NEW t \in Readers, CheckTable(t)
      PROVE  CallInv(x)'
    <2>1. CASE x = t
        BY <1>1, <1>2, <1>8, <2>1, CheckKeepsCall
    <2>2. CASE x # t
        <3>1. SameCall(x) /\ count' = count /\ steady'[x] = steady[x] /\ ever'[x] = ever[x]
            BY <1>1, <1>8, <2>2 DEF TypeOK, CheckTable, Go, SameCall
        <3> QED BY <1>2, <3>1, OthersKeepCall
    <2> QED BY <2>1, <2>2
<1>9. ASSUME NEW t \in Writers, ClearTable(t)
      PROVE  CallInv(x)'
    <2>1. CASE x = t
        BY <1>1, <1>2, <1>9, <2>1, ClearKeepsCall
    <2>2. CASE x # t
        <3>1. SameCall(x) /\ Change(Cleared(t))
            BY <1>1, <1>9, <2>2 DEF TypeOK, ClearTable, Cleared, Go, SameCall
        <3> QED BY <1>1, <1>2, <3>1, ClearedCounts, ChangeKeepsCall DEF IsCount
    <2> QED BY <2>1, <2>2
<1>10. ASSUME NEW t \in Writers, SaveTable(t)
       PROVE  CallInv(x)'
    <2>1. CASE x = t
        BY <1>1, <1>2, <1>10, <2>1, SaveKeepsCall
    <2>2. CASE x # t
        <3>1. SameCall(x) /\ count' = count /\ steady'[x] = steady[x] /\ ever'[x] = ever[x]
            BY <1>1, <1>10, <2>2 DEF TypeOK, SaveTable, Go, SameCall
        <3> QED BY <1>2, <3>1, OthersKeepCall
    <2> QED BY <2>1, <2>2
<1>11. ASSUME NEW t \in Writers, LoadLine(t)
       PROVE  CallInv(x)'
    <2>1. CASE x = t
        BY <1>1, <1>2, <1>11, <2>1, LoadKeepsCall
    <2>2. CASE x # t /\ Go(t, at[t] + 1) /\ UNCHANGED <<count, lines, steady, ever>>
        <3>1. SameCall(x) /\ count' = count /\ steady'[x] = steady[x] /\ ever'[x] = ever[x]
            BY <1>1, <1>11, <2>2 DEF TypeOK, LoadLine, Go, SameCall
        <3> QED BY <1>2, <3>1, OthersKeepCall
    <2>3. ASSUME x # t, NEW l \in lines[t], Change(With(l[1])),
                 lines' = [lines EXCEPT ![t] = @ \ {l}], UNCHANGED at
          PROVE  CallInv(x)'
        <3>1. l[1] \in Rules
            BY <1>1, <2>3 DEF TypeOK
        <3>2. SameCall(x)
            BY <1>1, <1>11, <2>3 DEF TypeOK, LoadLine, SameCall
        <3> QED BY <1>1, <1>2, <2>3, <3>1, <3>2, WithCounts, ChangeKeepsCall DEF IsCount
    <2> QED BY <1>11, <2>1, <2>2, <2>3 DEF LoadLine
<1>12. ASSUME NEW t \in Threads, Return(t)
       PROVE  CallInv(x)'
    <2>1. CASE x = t
        BY <1>1, <1>12, <2>1, ReturnKeepsCall
    <2>2. CASE x # t
        <3>1. SameCall(x) /\ count' = count /\ steady'[x] = steady[x] /\ ever'[x] = ever[x]
            BY <1>1, <1>12, <2>2 DEF TypeOK, Return, Go, SameCall
        <3> QED BY <1>2, <3>1, OthersKeepCall
    <2> QED BY <2>1, <2>2
<1>13. CASE UNCHANGED vars
    BY <1>2, <1>13, OthersKeepCall DEF vars, SameCall
<1> QED BY <1>3, <1>4, <1>6, <1>7, <1>8, <1>9, <1>10, <1>11, <1>12, <1>13
        DEF Next, ReaderNext, WriterNext

LEMMA RulesInitially == Init => RulesInv
<1> SUFFICES ASSUME Init
             PROVE  RulesInv
    OBVIOUS
<1>1. TypeOK
    BY CallsAssumption DEF Init, TypeOK, Returning
<1>2. \A t \in Threads : CallInv(t)
    BY DEF Init, CallInv, WitnessInv, ScanInv, ClearInv, SaveInv, Inside
<1> QED BY <1>1, <1>2 DEF RulesInv

LEMMA RulesInvariant == Spec => []RulesInv
BY RulesInitially, RulesStep, PTL DEF Spec

\* Every variable of the rule manager keeps its type.
THEOREM RulesTypeCorrect == Spec => []TypeOK
<1>1. RulesInv => TypeOK
    BY DEF RulesInv
<1> QED BY <1>1, RulesInvariant, PTL

\* shouldBlock misses no rule that was in force throughout the call, although
\* it never holds two of its four locks, and its reason is the first of them.
THEOREM VerdictJustifiedCorrect == Spec => []VerdictJustified
<1>1. RulesInv => VerdictJustified
    <2> SUFFICES ASSUME RulesInv, NEW t \in Readers, At(t, "shouldBlock")
                 PROVE  LET throughout == {r \in steady[t] : Matches(packet[t][1], r)}
                        IN /\ throughout # {} => hits[t] # {}
                           /\ \A hit \in hits[t] :
                                /\ hit \in ever[t]
                                /\ \A r \in throughout : Rank(hit.table) <= Rank(r.table)
        BY DEF VerdictJustified
    <2>1. ScanInv(t) /\ op[t] = "shouldBlock" /\ at[t] = 5
        BY DEF RulesInv, CallInv, Threads, At, Returning
    <2>2. \A r \in steady[t] : Rank(r.table) \in 1 .. 4
        BY RankOfRule DEF RulesInv, TypeOK, Threads
    <2> QED BY <2>1, <2>2 DEF ScanInv
<1> QED BY <1>1, RulesInvariant, PTL

\* What saveRules writes table by table has every rule that was in force
\* throughout, and only rules that were in force at some time of the call.
THEOREM SavedJustifiedCorrect == Spec => []SavedJustified
<1>1. RulesInv => SavedJustified
    <2> SUFFICES ASSUME RulesInv, NEW t \in Writers, At(t, "saveRules")
                 PROVE  LET written == {l[1] : l \in lines[t]}
                        IN steady[t] \subseteq written /\ written \subseteq ever[t]
        BY DEF SavedJustified
    <2>1. SaveInv(t) /\ op[t] = "saveRules" /\ at[t] = 5
        BY DEF RulesInv, CallInv, Threads, At, Returning
    <2>2. \A r \in steady[t] : SaveRank(r.table) \in 1 .. 4
        BY RankOfRule DEF RulesInv, TypeOK, Threads
    <2> QED BY <2>1, <2>2 DEF SaveInv
<1> QED BY <1>1, RulesInvariant, PTL

\* clearAll leaves no rule that was in force throughout the call.
THEOREM ClearedEverythingCorrect == Spec => []ClearedEverything
<1>1. RulesInv => ClearedEverything
    <2> SUFFICES ASSUME RulesInv, NEW t \in Writers, At(t, "clearAll")
                 PROVE  steady[t] = {}
        BY DEF ClearedEverything
    <2>1. ClearInv(t) /\ op[t] = "clearAll" /\ at[t] = 5
        BY DEF RulesInv, CallInv, Threads, At, Returning
    <2>2. \A r \in steady[t] : SaveRank(r.table) \in 1 .. 4
        BY RankOfRule DEF RulesInv, TypeOK, Threads
    <2> QED BY <2>1, <2>2 DEF ClearInv
<1> QED BY <1>1, RulesInvariant, PTL
=============================================================================
