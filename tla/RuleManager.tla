----------------------------- MODULE RuleManager -----------------------------
(***************************************************************************)
(* RuleManager: four tables of rules, each with a reader-writer lock of    *)
(* its own.  A call that concerns one rule holds one lock and is one step. *)
(* shouldBlock, saveRules and clearAll take the locks one after the other, *)
(* and loadRules takes one for each line of its file: a step is what a     *)
(* thread does under one lock.                                             *)
(*                                                                         *)
(* A rule is a record of its table and a value.  A domain is a sequence of *)
(* labels; the value of a domain rule is a domain and where its asterisk   *)
(* is: at "none", in "front" ("*." and the labels) or "elsewhere".  A      *)
(* packet is a record of what shouldBlock is given, by table.              *)
(*                                                                         *)
(* A definition that precedes another and is used nowhere is a wrong       *)
(* version of it: with it, a run must find a property violated.            *)
(***************************************************************************)
EXTENDS Naturals, Sequences
LOCAL INSTANCE SequencesExt

CONSTANTS Readers,    \* the threads that ask: the fast paths
          Writers,    \* the threads that change, save and load the rules
          Rules,      \* the rules there may be
          Packets,    \* what shouldBlock may be asked about
          Lower,      \* tolower, label by label
          MaxCalls    \* bound: how many calls the writers make

Threads == Readers \cup Writers

Tables == {"ip", "port", "app", "domain"}

ASSUME RulesAssumption == \A r \in Rules : r.table \in Tables
ASSUME CallsAssumption == Readers \cap Writers = {} /\ MaxCalls \in Nat

VARIABLES count,    \* how often each rule is in its table
          file,     \* the lines of the rules file
          calls,    \* calls the writers have made
          op,       \* the function each thread is in, or "none"
          at,       \* the table it comes to next
          packet,   \* what it was asked about, if anything
          hits,     \* the rules that were found to match
          lines,    \* the lines it has written, or has yet to read
          steady,   \* the rules in force ever since its call began
          ever      \* the rules in force at any time since then

vars == <<count, file, calls, op, at, packet, hits, lines, steady, ever>>

InForce == {r \in Rules : count[r] > 0}
InTable(table) == {r \in InForce : r.table = table}
\* A pattern is in a vector, once for every call that added it.
IsPattern(r) == r.table = "domain" /\ r.value.star # "none"

\* The order in which shouldBlock asks, and that in which the rules are saved,
\* loaded and cleared.
CheckOrder == <<"ip", "port", "app", "domain">>
SaveOrder == <<"ip", "app", "domain", "port">>
Returning == 5

LowerName(name) == [i \in DOMAIN name |-> Lower[name[i]]]
\* An exact name is compared as it is spelled; a pattern matches the domains
\* below it and the bare domain, and with the asterisk elsewhere nothing.
DomainMatches(name, value) ==
    \/ value.star = "none" /\ name = value.name
    \/ value.star = "front" /\ IsSuffix(LowerName(value.name), LowerName(name))
Matches(p, r) ==
    \/ r.table # "domain" /\ p[r.table] = r.value
    \/ r.table = "domain" /\ p["domain"] # <<>> /\ DomainMatches(p["domain"], r.value)

Init == /\ count = [r \in Rules |-> 0]
        /\ file = {}
        /\ calls = 0
        /\ op = [t \in Threads |-> "none"]
        /\ at = [t \in Threads |-> 1]
        /\ packet = [t \in Threads |-> <<>>]
        /\ hits = [t \in Threads |-> {}]
        /\ lines = [t \in Threads |-> {}]
        /\ steady = [t \in Threads |-> {}]
        /\ ever = [t \in Threads |-> {}]

-----------------------------------------------------------------------------
(* The calls that concern one rule                                         *)

Inside(t) == op[t] # "none" /\ at[t] # Returning

\* The tables become `new', and every call under way has been witness to it.
Change(new) ==
    LET now == {r \in Rules : new[r] > 0}
    IN /\ count' = new
       /\ steady' = [t \in Threads |-> IF Inside(t) THEN steady[t] \cap now ELSE steady[t]]
       /\ ever' = [t \in Threads |-> IF Inside(t) THEN ever[t] \cup now ELSE ever[t]]

WithDuplicates(r) == [count EXCEPT ![r] = @ + 1]
\* blockIP, blockApp, blockDomain and blockPort ...
With(r) == [count EXCEPT ![r] = IF IsPattern(r) THEN @ + 1 ELSE 1]
\* ... and the opposites: a vector loses the first copy of the pattern.
Without(r) == [count EXCEPT ![r] = IF IsPattern(r) /\ @ > 0 THEN @ - 1 ELSE 0]

MayCall(t) == /\ op[t] = "none" /\ calls < MaxCalls
              /\ calls' = calls + 1

Block(t, r) == /\ MayCall(t)
               /\ Change(With(r))
               /\ UNCHANGED <<file, op, at, packet, hits, lines>>

Unblock(t, r) == /\ MayCall(t)
                 /\ Change(Without(r))
                 /\ UNCHANGED <<file, op, at, packet, hits, lines>>

-----------------------------------------------------------------------------
(* The calls that go through the tables                                    *)

Begin(t, function, asked, toRead) ==
    /\ op[t] = "none"
    /\ op' = [op EXCEPT ![t] = function]
    /\ packet' = [packet EXCEPT ![t] = asked]
    /\ lines' = [lines EXCEPT ![t] = toRead]
    /\ steady' = [steady EXCEPT ![t] = InForce]
    /\ ever' = [ever EXCEPT ![t] = InForce]
    /\ UNCHANGED <<count, at, hits>>

Go(t, table) == at' = [at EXCEPT ![t] = table]

ShouldBlock(t, p) == Begin(t, "shouldBlock", <<p>>, {}) /\ UNCHANGED <<file, calls>>
ClearAll(t) == MayCall(t) /\ Begin(t, "clearAll", <<>>, {}) /\ UNCHANGED file
\* The file is empty from when it is opened for writing until it is closed; two
\* threads do not write it at once.
SaveRules(t) == /\ MayCall(t)
                /\ \A u \in Writers : op[u] # "saveRules"
                /\ Begin(t, "saveRules", <<>>, {})
                /\ file' = {}
LoadRules(t) == MayCall(t) /\ Begin(t, "loadRules", <<>>, file) /\ UNCHANGED file

Matching(t) == {r \in InTable(CheckOrder[at[t]]) : Matches(packet[t][1], r)}
CheckTableSkippingDomain(t) ==
    /\ op[t] = "shouldBlock" /\ Inside(t)
    /\ hits' = [hits EXCEPT ![t] = Matching(t)]
    /\ Go(t, IF Matching(t) # {} \/ CheckOrder[at[t]] = "app" THEN Returning ELSE at[t] + 1)
    /\ UNCHANGED <<count, file, calls, op, packet, lines, steady, ever>>
\* isIPBlocked, isPortBlocked, isAppBlocked or isDomainBlocked: the first that
\* says yes is the reason.
CheckTable(t) ==
    /\ op[t] = "shouldBlock" /\ Inside(t)
    /\ hits' = [hits EXCEPT ![t] = Matching(t)]
    /\ Go(t, IF Matching(t) # {} THEN Returning ELSE at[t] + 1)
    /\ UNCHANGED <<count, file, calls, op, packet, lines, steady, ever>>

ClearTableKeepingPatterns(t) ==
    /\ op[t] = "clearAll" /\ Inside(t)
    /\ Change([r \in Rules |-> IF r.table = SaveOrder[at[t]] /\ ~IsPattern(r)
                               THEN 0 ELSE count[r]])
    /\ Go(t, at[t] + 1)
    /\ UNCHANGED <<file, calls, op, packet, hits, lines>>
ClearTable(t) ==
    /\ op[t] = "clearAll" /\ Inside(t)
    /\ Change([r \in Rules |-> IF r.table = SaveOrder[at[t]] THEN 0 ELSE count[r]])
    /\ Go(t, at[t] + 1)
    /\ UNCHANGED <<file, calls, op, packet, hits, lines>>

LinesOfExact(r) == IF IsPattern(r) THEN {} ELSE {<<r, i>> : i \in 1 .. count[r]}
\* The lines that saveRules writes for a rule, one for each copy.
LinesOf(r) == {<<r, i>> : i \in 1 .. count[r]}
SaveTable(t) ==
    /\ op[t] = "saveRules" /\ Inside(t)
    /\ LET section == UNION {LinesOf(r) : r \in InTable(SaveOrder[at[t]])}
       IN lines' = [lines EXCEPT ![t] = @ \cup section]
    /\ Go(t, at[t] + 1)
    /\ UNCHANGED <<count, file, calls, op, packet, hits, steady, ever>>

\* The next line of the file is that of any rule of the first section.
LoadLine(t) ==
    /\ op[t] = "loadRules" /\ Inside(t)
    /\ LET section == {l \in lines[t] : l[1].table = SaveOrder[at[t]]}
       IN \/ /\ section = {}
             /\ Go(t, at[t] + 1)
             /\ UNCHANGED <<count, lines, steady, ever>>
          \/ \E l \in section :
                /\ Change(With(l[1]))
                /\ lines' = [lines EXCEPT ![t] = @ \ {l}]
                /\ UNCHANGED at
    /\ UNCHANGED <<file, calls, op, packet, hits>>

\* The call returns.  What saveRules wrote is in the file when that is closed.
Return(t) ==
    /\ op[t] # "none" /\ at[t] = Returning
    /\ file' = IF op[t] = "saveRules" THEN lines[t] ELSE file
    /\ op' = [op EXCEPT ![t] = "none"]
    /\ Go(t, 1)
    /\ packet' = [packet EXCEPT ![t] = <<>>]
    /\ hits' = [hits EXCEPT ![t] = {}]
    /\ lines' = [lines EXCEPT ![t] = {}]
    /\ steady' = [steady EXCEPT ![t] = {}]
    /\ ever' = [ever EXCEPT ![t] = {}]
    /\ UNCHANGED <<count, calls>>

ReaderNext(t) == (\E p \in Packets : ShouldBlock(t, p)) \/ CheckTable(t)
WriterNext(t) == \/ \E r \in Rules : Block(t, r) \/ Unblock(t, r)
                 \/ ClearAll(t) \/ ClearTable(t)
                 \/ SaveRules(t) \/ SaveTable(t)
                 \/ LoadRules(t) \/ LoadLine(t)
Next == \/ \E t \in Readers : ReaderNext(t)
        \/ \E t \in Writers : WriterNext(t)
        \/ \E t \in Threads : Return(t)

Spec == Init /\ [][Next]_vars

-----------------------------------------------------------------------------
(* Properties                                                              *)

\* The type invariant: what each variable may hold; a set table has a rule
\* once.
TypeOK ==
    /\ count \in [Rules -> Nat]
    /\ \A r \in Rules : ~IsPattern(r) => count[r] <= 1
    /\ file \subseteq Rules \X Nat
    /\ calls \in 0 .. MaxCalls
    /\ op \in [Threads -> {"none", "shouldBlock", "clearAll", "saveRules", "loadRules"}]
    /\ at \in [Threads -> 1 .. Returning]
    /\ packet \in [Threads -> {<<>>} \cup {<<p>> : p \in Packets}]
    /\ hits \in [Threads -> SUBSET Rules]
    /\ lines \in [Threads -> SUBSET (Rules \X Nat)]
    /\ steady \in [Threads -> SUBSET Rules]
    /\ ever \in [Threads -> SUBSET Rules]

At(t, function) == op[t] = function /\ at[t] = Returning

Rank(table) == CHOOSE i \in 1 .. 4 : CheckOrder[i] = table
\* Whatever writers do between its four locks, shouldBlock misses no rule that
\* was in force throughout the call, gives no reason that comes after one that
\* was, and gives only a reason that was in force at some time of the call.
VerdictJustified ==
    \A t \in Readers : At(t, "shouldBlock") =>
        LET throughout == {r \in steady[t] : Matches(packet[t][1], r)}
        IN /\ throughout # {} => hits[t] # {}
           /\ \A hit \in hits[t] :
                /\ hit \in ever[t]
                /\ \A r \in throughout : Rank(hit.table) <= Rank(r.table)

\* What saveRules has written when it returns has every rule that was in force
\* throughout the call, and none that never was.
SavedJustified ==
    \A t \in Writers : At(t, "saveRules") =>
        LET written == {l[1] : l \in lines[t]}
        IN steady[t] \subseteq written /\ written \subseteq ever[t]

\* No rule survives clearAll, except one that was set again after it began.
ClearedEverything == \A t \in Writers : At(t, "clearAll") => steady[t] = {}
=============================================================================
