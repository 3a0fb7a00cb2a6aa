---------------------------- MODULE LoadingProofs ----------------------------
(***************************************************************************)
(* A load in full is what AgentRegistry takes it for, for every number of  *)
(* agents and calls and whatever the issuer and the wires do; and what     *)
(* AgentRegistryProofs shows of the registry carries over.  And the prompt *)
(* a load is made of is what Awakening says of it, for answers with any    *)
(* number of layers and lists of any length.                               *)
(***************************************************************************)
EXTENDS Loading, AgentRegistryProofs, SequenceLemmas

\* One step per action: the registry sees a step of its own, or none.
LEMMA LoadStepRefines == [LoadNext]_<<vars, tokenVars>> => [Next]_vars
<1> SUFFICES ASSUME [LoadNext]_<<vars, tokenVars>> PROVE [Next]_vars
  OBVIOUS
<1>1. ASSUME NEW c \in Calls, BeginsLoad(c) PROVE Next
  BY <1>1 DEF BeginsLoad, Next, Make, Proceed
<1>2. ASSUME NEW c \in Calls, AwaitsToken(c) PROVE UNCHANGED vars
  BY <1>2 DEF AwaitsToken
<1>3. ASSUME NEW c \in Calls, AwakenFails(c) \/ AwakenReturns(c) PROVE Next
  BY <1>3 DEF AwakenFails, AwakenReturns, Next, Proceed
<1>4. ASSUME NEW c \in Calls, RegistrySteps(c) PROVE Next
  BY <1>4 DEF RegistrySteps, Next, Make, Proceed
<1>5. CASE Tick /\ TP!Tick
  BY <1>5 DEF Next
<1>6. ASSUME NEW a \in Agents, Publish(a) \/ Retire(a) PROVE Next
  BY <1>6 DEF Next
<1>7. CASE AtRest
  BY <1>7 DEF Next
<1>8. CASE UNCHANGED <<vars, tokenVars>>
  BY <1>8
<1> QED
  BY <1>1, <1>2, <1>3, <1>4, <1>5, <1>6, <1>7, <1>8 DEF LoadNext, LoadProceeds

\* Seen from the registry a load is one answer (main.py:129-134), by the way Loading is
\* put together: what is proved of the registry's own steps holds here.
LEMMA LoadingIsRegistry == LoadSpec => Init /\ [][Next]_vars
<1>1. LoadInit => Init
  BY DEF LoadInit
<1> QED
  BY <1>1, LoadStepRefines, PTL DEF LoadSpec

\* TypeInv and LockInv of AgentRegistryProofs, which need nothing but its steps.
LEMMA LoadingTypeAndLock == LoadSpec => [](TypeInv /\ LockInv)
BY LoadingIsRegistry, LockInit, TypeNext, LockNext, PTL

-----------------------------------------------------------------------------
(* Which calls ask somebody.                                               *)

LoadsAsk == \A c \in Calls : pc[c] = "loading" <=> Asking(c)

\* Inductive with the types: the two places of a call move together.
AskInv ==
    /\ stage \in [Calls -> TP!Phases]
    /\ LoadsAsk

LEMMA AskInit == LoadInit => AskInv
BY DEF LoadInit, Init, TP!Init, AskInv, LoadsAsk, Asking, TP!Phases

LEMMA AskNext == TypeInv /\ AskInv /\ [LoadNext]_<<vars, tokenVars>> => AskInv'
<1> SUFFICES ASSUME TypeInv, AskInv, [LoadNext]_<<vars, tokenVars>> PROVE AskInv'
  OBVIOUS
<1> USE DEF AskInv, LoadsAsk, Asking, TP!Phases, Phases, Goto, TP!Goto
<1>0. pc \in [Calls -> Phases]
  BY DEF TypeInv, TypeOK
<1>1. ASSUME NEW c \in Calls, BeginsLoad(c) PROVE AskInv'
  <2>1. pc' = [pc EXCEPT ![c] = "loading"]
    BY <1>1 DEF BeginsLoad, GetLoads, ReloadLoads, WakeLoads, BeginLoad
  <2>2. \E phase \in {"waiting", "minting", "sending"} : stage' = [stage EXCEPT ![c] = phase]
    BY <1>1 DEF BeginsLoad, TP!Make, TP!CallServed, TP!CallMints, TP!CallWaits, TP!Send
  <2> QED
    BY <1>0, <2>1, <2>2
<1>2. ASSUME NEW c \in Calls, AwaitsToken(c) PROVE AskInv'
  <2>1. stage[c] \in {"waiting", "minting", "issued"}
    BY <1>2 DEF AwaitsToken, TP!WakeServed, TP!WakeMints, TP!Issues, TP!MintReturns
  <2>2. \E phase \in {"minting", "issued", "sending"} : stage' = [stage EXCEPT ![c] = phase]
    BY <1>2 DEF AwaitsToken, TP!WakeServed, TP!WakeMints, TP!Issues, TP!MintReturns,
                TP!Send
  <2>3. pc' = pc
    BY <1>2 DEF AwaitsToken, vars
  <2> QED
    BY <1>0, <2>1, <2>2, <2>3
<1>3. ASSUME NEW c \in Calls, AwakenFails(c) \/ AwakenReturns(c) PROVE AskInv'
  <2>1. pc' = [pc EXCEPT ![c] = "answered"]
    BY <1>3 DEF AwakenFails, AwakenReturns, Responds
  <2>2. stage' = [stage EXCEPT ![c] = "done"]
    BY <1>3 DEF AwakenFails, AwakenReturns, TP!MintFails, TP!Judged, TP!Return
  <2> QED
    BY <1>0, <2>1, <2>2
<1>4. ASSUME NEW c \in Calls, RegistrySteps(c) PROVE AskInv'
  <2>1. stage' = stage
    BY <1>4 DEF RegistrySteps, tokenVars
  <2>2. pc[c] # "loading" /\ \E phase \in {"waiting", "done"} : pc' = [pc EXCEPT ![c] = phase]
    BY <1>4 DEF RegistrySteps, GetServed, GetWaits, ReloadWaits, Call, WakeServed,
                LoadReturns, LoadAbsent, LoadRaises, LoadFails, Return
  <2> QED
    BY <1>0, <2>1, <2>2
<1>5. CASE Tick /\ TP!Tick
  BY <1>5 DEF Tick, TP!Tick
<1>6. ASSUME NEW a \in Agents, (Publish(a) \/ Retire(a)) /\ UNCHANGED tokenVars PROVE AskInv'
  BY <1>6 DEF Publish, Retire, tokenVars
<1>7. CASE AtRest /\ UNCHANGED tokenVars
  BY <1>7 DEF AtRest, vars, tokenVars
<1>8. CASE UNCHANGED <<vars, tokenVars>>
  BY <1>8 DEF vars, tokenVars
<1> QED
  BY <1>1, <1>2, <1>3, <1>4, <1>5, <1>6, <1>7, <1>8 DEF LoadNext, LoadProceeds

\* One call asks for an agent at a time: it holds the lock of that agent.
THEOREM OneLoadAtServiceHolds == LoadSpec => []OneLoadAtService
<1>1. LockInv /\ AskInv => OneLoadAtService
  BY OneInFlight DEF AskInv, LoadsAsk, SingleFlight, InFlight, OneLoadAtService
<1>2. LoadSpec => []AskInv
  BY AskInit, AskNext, LoadingTypeAndLock, PTL DEF LoadSpec
<1> QED
  BY <1>1, <1>2, LoadingTypeAndLock, PTL

-----------------------------------------------------------------------------
(* What the registry promises, of loads in full.                           *)

\* The invariants of AgentRegistryProofs need no fairness: they hold of whatever
\* implements the registry.
LEMMA LoadingVersions == LoadSpec => [](Base /\ VersionInv)
<1>1. Init => NobodyElseWrites /\ NoResultYet
  BY DEF Init, InFlight, NobodyElseWrites, NoResultYet
<1>2. LoadSpec => []NobodyElseWrites
  BY <1>1, HadNext, OneInFlight, LoadingTypeAndLock, LoadingIsRegistry, PTL
<1>3. LoadSpec => []NoResultYet
  BY <1>1, NoResultNext, LoadingTypeAndLock, LoadingIsRegistry, PTL
<1>4. LoadSpec => []Base
  BY <1>2, <1>3, OneInFlight, LoadingTypeAndLock, PTL DEF Base
<1> QED
  BY <1>4, VersionInit, VersionNext, LoadingIsRegistry, PTL

\* A reload whose load had to wait for a token, behind loads of other agents, still
\* answers with what was published when it was asked for, or later
\* (agent_registry.py:108-115).
THEOREM LoadingReloadSeesLatest == LoadSpec => []ReloadSeesLatest
<1>1. VersionInv => ReloadSeesLatest
  BY DEF VersionInv, ResultInv, ReloadSeesLatest
<1> QED
  BY <1>1, LoadingVersions, PTL

\* An agent somebody was told is gone is served to nobody who asks later, however the
\* load that found out got its bearer (agent_registry.py:14-16).
THEOREM LoadingGoneStaysGone == LoadSpec => []GoneStaysGone
<1>1. VersionInv => GoneStaysGone
  BY DEF VersionInv, ResultInv, GoneStaysGone
<1> QED
  BY <1>1, LoadingVersions, PTL

-----------------------------------------------------------------------------
(* A list of items in blocks.                                              *)

OneLiners == {"entry", "value"}

\* A block is a record or some one-liners, never nothing.
BlockSet == {<<"whole">>} \cup {b \in Seq(OneLiners) : b # <<>>}

Gathered == [blocks : Seq(BlockSet), bullets : Seq(OneLiners)]

LEMMA BlocksAreItems ==
    /\ OneLiners \subseteq Items
    /\ Seq(OneLiners) \subseteq Seq(Items)
    /\ BlockSet \subseteq Seq(Items)
    /\ Seq(BlockSet) \subseteq Seq(Seq(Items))
<1>1. OneLiners \subseteq Items /\ "whole" \in Items
  BY DEF OneLiners, Items
<1>2. Seq(OneLiners) \subseteq Seq(Items)
  BY <1>1, SeqMonotonic
<1>3. <<"whole">> \in Seq(Items)
  BY <1>1
<1>4. BlockSet \subseteq Seq(Items)
  BY <1>2, <1>3 DEF BlockSet
<1> QED
  BY <1>1, <1>2, <1>4, SeqMonotonic

LEMMA FlushIs ==
    ASSUME NEW blocks \in Seq(BlockSet), NEW bullets \in Seq(OneLiners)
    PROVE  /\ Flush(blocks, bullets) \in Seq(BlockSet)
           /\ FlattenSeq(Flush(blocks, bullets)) = FlattenSeq(blocks) \o bullets
<1>0. blocks \in Seq(Seq(Items)) /\ bullets \in Seq(Items)
  BY BlocksAreItems
<1>1. CASE bullets = <<>>
  <2>1. FlattenSeq(blocks) \in Seq(Items)
    BY <1>0, FlattenIs
  <2>2. FlattenSeq(blocks) \o <<>> = FlattenSeq(blocks)
    BY <2>1, ConcatEmptySeq
  <2> QED
    BY <1>1, <2>2 DEF Flush
<1>2. CASE bullets # <<>>
  <2>1. bullets \in BlockSet
    BY <1>2 DEF BlockSet
  <2>2. Append(blocks, bullets) \in Seq(BlockSet)
    BY <2>1, AppendProperties
  <2>3. FlattenSeq(Append(blocks, bullets)) = FlattenSeq(blocks) \o bullets
    BY <1>0, FlattenAppend
  <2> QED
    BY <1>2, <2>2, <2>3 DEF Flush
<1> QED
  BY <1>1, <1>2

\* One turn, by the kind of the item.
LEMMA TakeIs ==
    ASSUME NEW acc \in Gathered, NEW item \in Items
    PROVE  /\ item = "whole" =>
                 Take(acc, item) = [blocks  |-> Append(Flush(acc.blocks, acc.bullets), <<item>>),
                                    bullets |-> <<>>]
           /\ item = "blank" =>
                 Take(acc, item) = [blocks  |-> Flush(acc.blocks, acc.bullets),
                                    bullets |-> <<>>]
           /\ item \in OneLiners =>
                 Take(acc, item) = [blocks  |-> acc.blocks,
                                    bullets |-> Append(acc.bullets, item)]
           /\ item = "nothing" => Take(acc, item) = acc
           /\ item \in OneLiners \cup {"whole", "blank", "nothing"}
<1>1. item = "whole" =>
         Take(acc, item) = [blocks  |-> Append(Flush(acc.blocks, acc.bullets), <<item>>),
                            bullets |-> <<>>]
  BY DEF Take, OneLiner
<1>2. item = "blank" =>
         Take(acc, item) = [blocks |-> Flush(acc.blocks, acc.bullets), bullets |-> <<>>]
  BY DEF Take, OneLiner
<1>3. ASSUME item \in OneLiners
      PROVE  Take(acc, item) = [blocks |-> acc.blocks, bullets |-> Append(acc.bullets, item)]
  <2>1. OneLiner(item) /\ item # "whole" /\ item # "blank"
    BY <1>3 DEF OneLiner, OneLiners
  <2>2. Take(acc, item) = [acc EXCEPT !.bullets = Append(acc.bullets, item)]
    BY <2>1 DEF Take
  <2> QED
    BY <2>2 DEF Gathered
<1>4. item = "nothing" => Take(acc, item) = acc
  BY DEF Take, OneLiner
<1>5. item \in OneLiners \cup {"whole", "blank", "nothing"}
  BY DEF Items, OneLiners
<1> QED
  BY <1>1, <1>2, <1>3, <1>4, <1>5

LEMMA TakeGathers ==
    ASSUME NEW acc \in Gathered, NEW item \in Items
    PROVE  Take(acc, item) \in Gathered
<1>1. Flush(acc.blocks, acc.bullets) \in Seq(BlockSet) /\ <<>> \in Seq(OneLiners)
  BY FlushIs, EmptySeq DEF Gathered
<1>2. CASE item = "whole"
  <2>1. <<item>> \in BlockSet
    BY <1>2 DEF BlockSet
  <2>2. Append(Flush(acc.blocks, acc.bullets), <<item>>) \in Seq(BlockSet)
    BY <1>1, <2>1, AppendProperties
  <2>3. Take(acc, item) = [blocks  |-> Append(Flush(acc.blocks, acc.bullets), <<item>>),
                           bullets |-> <<>>]
    BY <1>2, TakeIs
  <2> QED
    BY <1>1, <2>2, <2>3 DEF Gathered
<1>3. CASE item = "blank"
  <2>1. Take(acc, item) = [blocks  |-> Flush(acc.blocks, acc.bullets), bullets |-> <<>>]
    BY <1>3, TakeIs
  <2> QED
    BY <1>1, <2>1 DEF Gathered
<1>4. CASE item \in OneLiners
  <2>1. Append(acc.bullets, item) \in Seq(OneLiners)
    BY <1>4, AppendProperties DEF Gathered
  <2> QED
    BY <1>4, <2>1, TakeIs DEF Gathered
<1>5. CASE item = "nothing"
  BY <1>5, TakeIs
<1> QED
  BY <1>2, <1>3, <1>4, <1>5, TakeIs

\* What the loop has gathered after each item.
Turns(f, items) ==
    /\ f[0] = [blocks |-> <<>>, bullets |-> <<>>]
    /\ \A n \in 1..Len(items) : f[n] = Take(f[n - 1], items[n])

LEMMA BlocksUnfolded ==
    ASSUME NEW items \in Seq(Items)
    PROVE  \E f \in [0..Len(items) -> Gathered] :
              /\ Turns(f, items)
              /\ Blocks(items) = Flush(f[Len(items)].blocks, f[Len(items)].bullets)
<1> DEFINE First == [blocks |-> <<>>, bullets |-> <<>>]
           Turn(f, n) == Take(f[n - 1], items[n])
           Is(f) == f = [n \in 0..Len(items) |-> IF n = 0 THEN First ELSE Turn(f, n)]
           From(f, m) == f[0] = First /\ \A n \in 1..m : f[n] = Turn(f, n)
           S == {m \in Nat : m <= Len(items) => \E f \in [0..m -> Gathered] : From(f, m)}
<1>0. Len(items) \in Nat /\ \A n \in 1..Len(items) : items[n] \in Items
  BY LenProperties, ElementOfSeq
<1>f. First \in Gathered
  BY EmptySeq DEF Gathered
<1> HIDE DEF First
<1>1. 0 \in S
  <2>1. [n \in 0..0 |-> First] \in [0..0 -> Gathered] /\ From([n \in 0..0 |-> First], 0)
    BY <1>f
  <2> QED
    BY <2>1
<1>2. ASSUME NEW m \in Nat, m \in S PROVE m + 1 \in S
  <2> SUFFICES ASSUME m + 1 <= Len(items)
               PROVE  \E f \in [0..m + 1 -> Gathered] : From(f, m + 1)
    OBVIOUS
  <2>1. m <= Len(items) /\ m + 1 \in 1..Len(items)
    BY <1>0
  <2>2. PICK f \in [0..m -> Gathered] : From(f, m)
    BY <1>2, <2>1
  <2> DEFINE g == [n \in 0..m + 1 |-> IF n = m + 1 THEN Turn(f, n) ELSE f[n]]
  <2>3. f[m] \in Gathered /\ items[m + 1] \in Items /\ (m + 1) - 1 = m
    BY <1>0, <2>1, <2>2
  <2>4. Turn(f, m + 1) \in Gathered
    BY <2>3, TakeGathers
  <2>5. g \in [0..m + 1 -> Gathered]
    BY <2>2, <2>4
  <2>6. g[0] = First
    BY <2>2
  <2>7. ASSUME NEW n \in 1..m + 1 PROVE g[n] = Turn(g, n)
    <3>1. n - 1 \in 0..m /\ g[n - 1] = f[n - 1]
      OBVIOUS
    <3>2. CASE n = m + 1
      BY <3>1, <3>2
    <3>3. CASE n # m + 1
      BY <2>2, <3>1, <3>3
    <3> QED
      BY <3>2, <3>3
  <2> HIDE DEF g
  <2> QED
    BY <2>5, <2>6, <2>7
<1>3. \A m \in Nat : m \in S
  <2> HIDE DEF S
  <2> QED
    BY <1>1, <1>2, NatInd
<1>4. PICK f \in [0..Len(items) -> Gathered] : From(f, Len(items))
  <2>1. Len(items) \in S
    BY <1>0, <1>3
  <2> QED
    BY <1>0, <2>1
<1>5. f = [n \in 0..Len(items) |-> f[n]]
  BY <1>4
<1>6. ASSUME NEW n \in 0..Len(items) PROVE f[n] = IF n = 0 THEN First ELSE Turn(f, n)
  <2>1. CASE n = 0
    BY <1>4, <2>1
  <2>2. CASE n # 0
    <3>1. n \in 1..Len(items)
      BY <1>0, <2>2
    <3> QED
      BY <1>4, <2>2, <3>1
  <2> QED
    BY <2>1, <2>2
<1>7. Is(f)
  BY <1>5, <1>6
<1> DEFINE c == CHOOSE h : Is(h)
<1>8. Blocks(items) = Flush(c[Len(items)].blocks, c[Len(items)].bullets)
  BY DEF Blocks, First
<1>9. Is(c)
  BY <1>7
<1> HIDE DEF c
<1>10. c[0] = First /\ \A n \in 1..Len(items) : c[n] = Turn(c, n)
  <2>1. c[0] = First
    BY <1>0, <1>9
  <2>2. ASSUME NEW n \in 1..Len(items) PROVE c[n] = Turn(c, n)
    <3>1. n \in 0..Len(items) /\ n # 0
      BY <1>0
    <3> QED
      BY <1>9, <3>1
  <2> QED
    BY <2>1, <2>2
<1> DEFINE R == {m \in Nat : m <= Len(items) => c[m] = f[m]}
<1>11. \A m \in Nat : m \in R
  <2>1. 0 \in R
    BY <1>4, <1>10
  <2>2. ASSUME NEW m \in Nat, m \in R PROVE m + 1 \in R
    <3> SUFFICES ASSUME m + 1 <= Len(items) PROVE c[m + 1] = f[m + 1]
      OBVIOUS
    <3>1. m <= Len(items) /\ m + 1 \in 1..Len(items) /\ (m + 1) - 1 = m
      BY <1>0
    <3> QED
      BY <1>4, <1>10, <2>2, <3>1
  <2> HIDE DEF R
  <2> QED
    BY <2>1, <2>2, NatInd
<1>12. c[Len(items)] = f[Len(items)]
  BY <1>0, <1>11
<1> QED
  BY <1>4, <1>8, <1>12 DEF Turns, First

\* What the blocks and the bullets gathered hold.  A turn adds its item, if it is text.
Held(acc) == FlattenSeq(acc.blocks) \o acc.bullets

LEMMA HeldIs ==
    ASSUME NEW acc, NEW blocks, NEW bullets, acc = [blocks |-> blocks, bullets |-> bullets]
    PROVE  Held(acc) = FlattenSeq(blocks) \o bullets
<1>1. acc.blocks = blocks /\ acc.bullets = bullets
  OBVIOUS
<1> QED
  BY ONLY <1>1, Zenon DEF Held

LEMMA HeldTurn ==
    ASSUME NEW acc \in Gathered, NEW item \in Items
    PROVE  /\ Held(acc) \in Seq(Items)
           /\ Held(Take(acc, item)) =
                 IF item \in {"nothing", "blank"} THEN Held(acc) ELSE Append(Held(acc), item)
<1> DEFINE blocks == acc.blocks
           bullets == acc.bullets
           flat == FlattenSeq(blocks)
           flushed == Flush(blocks, bullets)
           held == Held(acc)
<1>1. held = flat \o bullets
  BY ONLY Zenon DEF Held
<1>2. blocks \in Seq(BlockSet) /\ bullets \in Seq(OneLiners)
  BY DEF Gathered
<1>3. blocks \in Seq(Seq(Items)) /\ bullets \in Seq(Items)
  BY <1>2, BlocksAreItems
<1>4. flat \in Seq(Items)
  BY <1>3, FlattenIs
<1>5. flushed \in Seq(Seq(Items)) /\ FlattenSeq(flushed) = held
  <2> HIDE DEF blocks, bullets
  <2> QED
    BY <1>1, <1>2, FlushIs, BlocksAreItems
<1> HIDE DEF blocks, bullets, flat, flushed, held
<1>6. held \in Seq(Items) /\ <<item>> \in Seq(Items)
  BY <1>1, <1>3, <1>4, ConcatProperties
<1>7. Append(held, item) = held \o <<item>> /\ Append(held, item) \in Seq(Items)
  BY <1>6, AppendIsConcat, AppendProperties
<1>8. held \o <<>> = held /\ Append(held, item) \o <<>> = Append(held, item)
  BY <1>6, <1>7, ConcatEmptySeq
<1>9. CASE item = "whole"
  <2> DEFINE more == Append(flushed, <<item>>)
  <2>1. Take(acc, item) = [blocks |-> more, bullets |-> <<>>]
    BY <1>9, TakeIs DEF flushed, blocks, bullets
  <2>2. FlattenSeq(more) = held \o <<item>>
    BY <1>5, <1>6, FlattenAppend
  <2> HIDE DEF more
  <2>3. Held(Take(acc, item)) = FlattenSeq(more) \o <<>>
    BY ONLY <2>1, HeldIs
  <2>4. Held(Take(acc, item)) = Append(held, item)
    BY <1>7, <1>8, <2>2, <2>3
  <2> QED
    BY <1>6, <1>9, <2>4 DEF held
<1>10. CASE item = "blank"
  <2>1. Take(acc, item) = [blocks |-> flushed, bullets |-> <<>>]
    BY <1>10, TakeIs DEF flushed, blocks, bullets
  <2>2. Held(Take(acc, item)) = FlattenSeq(flushed) \o <<>>
    BY ONLY <2>1, HeldIs
  <2>3. Held(Take(acc, item)) = held
    BY <1>5, <1>8, <2>2
  <2> QED
    BY <1>6, <1>10, <2>3 DEF held
<1>11. CASE item \in OneLiners
  <2> DEFINE more == Append(bullets, item)
  <2>1. Take(acc, item) = [blocks |-> blocks, bullets |-> more]
    BY <1>11, TakeIs DEF blocks, bullets
  <2>2. more = bullets \o <<item>>
    BY <1>3, AppendIsConcat
  <2> HIDE DEF more
  <2>3. Held(Take(acc, item)) = flat \o more
    BY ONLY <2>1, HeldIs DEF flat
  <2>4. (flat \o bullets) \o <<item>> = flat \o (bullets \o <<item>>)
    BY <1>3, <1>4, <1>6, ConcatAssociative
  <2>5. Held(Take(acc, item)) = Append(held, item)
    BY <1>1, <1>7, <2>2, <2>3, <2>4
  <2>6. item \notin {"nothing", "blank"}
    BY <1>11 DEF OneLiners
  <2> QED
    BY <1>6, <2>5, <2>6 DEF held
<1>12. CASE item = "nothing"
  <2>1. Take(acc, item) = acc
    BY <1>12, TakeIs
  <2> QED
    BY <1>6, <1>12, <2>1 DEF held
<1> QED
  BY <1>9, <1>10, <1>11, <1>12, TakeIs

\* The blocks hold the items that are text, in the order sent.
LEMMA BlocksHold ==
    ASSUME NEW items \in Seq(Items)
    PROVE  /\ Blocks(items) \in Seq(BlockSet)
           /\ FlattenSeq(Blocks(items)) = Only(items, ToSet(items) \ {"nothing", "blank"})
<1> DEFINE shown == ToSet(items) \ {"nothing", "blank"}
           places == {i \in DOMAIN items : items[i] \in shown}
<1>0. /\ Len(items) \in Nat
      /\ DOMAIN items = 1..Len(items)
      /\ \A n \in 1..Len(items) : items[n] \in Items /\ items[n] \in ToSet(items)
  BY LenProperties, ElementOfSeq DEF ToSet
<1>1. PICK f \in [0..Len(items) -> Gathered] :
         /\ Turns(f, items)
         /\ Blocks(items) = Flush(f[Len(items)].blocks, f[Len(items)].bullets)
  BY ONLY items \in Seq(Items), BlocksUnfolded
<1>2. PICK g \in [0..Len(items) -> Seq(Items)] :
         UpTo(g, items, places) /\ Picked(items, places) = g[Len(items)]
  BY ONLY items \in Seq(Items), PickedUnfolded
<1>3. \A n \in 1..Len(items) : n \in places <=> items[n] \notin {"nothing", "blank"}
  BY <1>0
<1>4. Only(items, shown) = g[Len(items)]
  BY <1>2 DEF Only
<1> HIDE DEF places
<1> DEFINE S == {m \in Nat : m <= Len(items) => Held(f[m]) = g[m]}
<1>5. 0 \in S
  <2>1. f[0] = [blocks |-> <<>>, bullets |-> <<>>] /\ g[0] = <<>>
    BY <1>1, <1>2 DEF Turns, UpTo
  <2>2. FlattenSeq(<<>>) = <<>>
    BY DEF FlattenSeq
  <2>3. <<>> \o <<>> = <<>>
    OBVIOUS
  <2>4. Held(f[0]) = FlattenSeq(<<>>) \o <<>>
    BY ONLY <2>1, HeldIs
  <2> QED
    BY <2>1, <2>2, <2>3, <2>4
<1>6. ASSUME NEW m \in Nat, m \in S PROVE m + 1 \in S
  <2> SUFFICES ASSUME m + 1 <= Len(items) PROVE Held(f[m + 1]) = g[m + 1]
    OBVIOUS
  <2>1. m <= Len(items) /\ m + 1 \in 1..Len(items) /\ (m + 1) - 1 = m /\ m \in 0..Len(items)
    BY <1>0
  <2> DEFINE item == items[m + 1]
  <2>2. f[m] \in Gathered /\ item \in Items
    BY <1>0, <1>1, <2>1
  <2>3. Held(f[m]) = g[m]
    BY <1>6, <2>1
  <2>4. f[m + 1] = Take(f[m], item)
    BY <1>1, <2>1 DEF Turns
  <2>5. g[m + 1] = IF item \in {"nothing", "blank"} THEN g[m] ELSE Append(g[m], item)
    BY <1>2, <1>3, <2>1 DEF UpTo
  <2> HIDE DEF item
  <2>6. Held(Take(f[m], item)) =
           IF item \in {"nothing", "blank"} THEN Held(f[m]) ELSE Append(Held(f[m]), item)
    BY <2>2, HeldTurn
  <2> QED
    BY <2>3, <2>4, <2>5, <2>6
<1> HIDE DEF S
<1>7. Len(items) \in S
  BY <1>0, <1>5, <1>6, NatInd
<1>8. Held(f[Len(items)]) = g[Len(items)]
  BY <1>0, <1>7 DEF S
<1> DEFINE blocks == f[Len(items)].blocks
           bullets == f[Len(items)].bullets
<1>9. blocks \in Seq(BlockSet) /\ bullets \in Seq(OneLiners)
  <2>1. Len(items) \in 0..Len(items)
    BY <1>0
  <2> QED
    BY <1>1, <2>1 DEF Gathered
<1>10. Held(f[Len(items)]) = FlattenSeq(blocks) \o bullets
  BY ONLY Zenon DEF Held
<1>11. Blocks(items) = Flush(blocks, bullets)
  BY <1>1
<1> HIDE DEF blocks, bullets
<1> QED
  BY <1>4, <1>8, <1>9, <1>10, <1>11, FlushIs

\* Of two neighbouring blocks one is a record, unless a blank one stood in the list:
\* but for one, a turn that makes blocks makes a record the last.
LEMMA BlocksApart ==
    ASSUME NEW items \in Seq(Items), ~Contains(items, "blank"),
           NEW k \in 1..Len(Blocks(items)) - 1
    PROVE  Blocks(items)[k] = <<"whole">> \/ Blocks(items)[k + 1] = <<"whole">>
<1> DEFINE W == <<"whole">>
           Apart(b) == \A i \in 1..Len(b) - 1 : b[i] = W \/ b[i + 1] = W
           Ends(b) == b # <<>> => b[Len(b)] = W
<1>0. /\ Len(items) \in Nat
      /\ \A n \in 1..Len(items) : items[n] \in Items /\ items[n] # "blank"
  BY LenProperties, ElementOfSeq DEF Contains
<1>1. PICK f \in [0..Len(items) -> Gathered] :
         /\ Turns(f, items)
         /\ Blocks(items) = Flush(f[Len(items)].blocks, f[Len(items)].bullets)
  BY ONLY items \in Seq(Items), BlocksUnfolded
<1>w. W \in BlockSet
  BY DEF BlockSet
<1> HIDE DEF W
<1>2. ASSUME NEW b \in Seq(BlockSet), NEW block \in BlockSet, Apart(b), Ends(b) \/ block = W
      PROVE  Apart(Append(b, block))
  <2> DEFINE c == Append(b, block)
  <2>1. /\ Len(b) \in Nat /\ Len(c) = Len(b) + 1
        /\ \A i \in 1..Len(b) : c[i] = b[i]
        /\ c[Len(b) + 1] = block
    BY LenProperties, AppendProperties
  <2> HIDE DEF c
  <2>2. ASSUME NEW i \in 1..Len(c) - 1 PROVE c[i] = W \/ c[i + 1] = W
    <3>1. i \in 1..Len(b) /\ c[i] = b[i]
      BY <2>1
    <3>2. CASE i = Len(b)
      <4>1. b # <<>>
        BY <3>1, EmptySeq
      <4> QED
        BY <1>2, <2>1, <3>1, <3>2, <4>1
    <3>3. CASE i # Len(b)
      <4>1. i \in 1..Len(b) - 1 /\ i + 1 \in 1..Len(b)
        BY <2>1, <3>1, <3>3
      <4>2. b[i] = W \/ b[i + 1] = W
        BY <1>2, <4>1
      <4> QED
        BY <2>1, <3>1, <4>1, <4>2
    <3> QED
      BY <3>2, <3>3
  <2> QED
    BY <2>2 DEF c
<1> DEFINE S == {m \in Nat : m <= Len(items) => Apart(f[m].blocks) /\ Ends(f[m].blocks)}
<1>3. 0 \in S
  <2>1. f[0].blocks = <<>> /\ Len(<<>>) = 0
    BY <1>1 DEF Turns
  <2> QED
    BY <2>1
<1>4. ASSUME NEW m \in Nat, m \in S PROVE m + 1 \in S
  <2> SUFFICES ASSUME m + 1 <= Len(items)
               PROVE  Apart(f[m + 1].blocks) /\ Ends(f[m + 1].blocks)
    OBVIOUS
  <2>1. m <= Len(items) /\ m + 1 \in 1..Len(items) /\ (m + 1) - 1 = m /\ m \in 0..Len(items)
    BY <1>0
  <2> DEFINE acc == f[m]
             item == items[m + 1]
  <2>2. acc \in Gathered /\ item \in Items /\ item # "blank"
    BY <1>0, <1>1, <2>1
  <2>3. Apart(acc.blocks) /\ Ends(acc.blocks)
    BY <1>4, <2>1
  <2>4. f[m + 1] = Take(acc, item)
    BY <1>1, <2>1 DEF Turns
  <2> HIDE DEF acc, item
  <2>5. acc.blocks \in Seq(BlockSet) /\ acc.bullets \in Seq(OneLiners)
    BY <2>2 DEF Gathered
  <2>6. CASE item = "whole"
    <3> DEFINE b == Flush(acc.blocks, acc.bullets)
    <3>1. b \in Seq(BlockSet)
      BY <2>5, FlushIs
    <3>2. Apart(b)
      <4>1. CASE acc.bullets = <<>>
        BY <2>3, <4>1 DEF Flush
      <4>2. CASE acc.bullets # <<>>
        <5>1. acc.bullets \in BlockSet
          BY <2>5, <4>2 DEF BlockSet
        <5>2. Apart(Append(acc.blocks, acc.bullets))
          BY <1>2, <2>3, <2>5, <5>1
        <5> QED
          BY <4>2, <5>2 DEF Flush
      <4> QED
        BY <4>1, <4>2
    <3>3. f[m + 1].blocks = Append(b, W)
      <4>1. f[m + 1] = [blocks |-> Append(b, <<item>>), bullets |-> <<>>]
        BY <2>2, <2>4, <2>6, TakeIs
      <4>2. <<item>> = W
        BY <2>6 DEF W
      <4> QED
        BY <4>1, <4>2
    <3> HIDE DEF b
    <3>4. Apart(Append(b, W))
      BY <1>2, <1>w, <3>1, <3>2
    <3>5. Ends(Append(b, W))
      BY <1>w, <3>1, AppendProperties
    <3> HIDE DEF Apart, Ends
    <3> QED
      BY <3>3, <3>4, <3>5
  <2>7. CASE item \in OneLiners
    <3>1. f[m + 1].blocks = acc.blocks
      BY <2>2, <2>4, <2>7, TakeIs
    <3> HIDE DEF Apart, Ends
    <3> QED
      BY <2>3, <3>1
  <2>8. CASE item = "nothing"
    <3>1. f[m + 1].blocks = acc.blocks
      BY <2>2, <2>4, <2>8, TakeIs
    <3> HIDE DEF Apart, Ends
    <3> QED
      BY <2>3, <3>1
  <2> HIDE DEF Apart, Ends
  <2> QED
    BY <2>2, <2>6, <2>7, <2>8, TakeIs
<1> HIDE DEF S
<1>5. Len(items) \in S
  BY <1>0, <1>3, <1>4, NatInd
<1>6. Apart(f[Len(items)].blocks) /\ Ends(f[Len(items)].blocks)
  BY <1>0, <1>5 DEF S
<1> DEFINE end == f[Len(items)]
<1>7. end.blocks \in Seq(BlockSet) /\ end.bullets \in Seq(OneLiners)
  <2>1. Len(items) \in 0..Len(items)
    BY <1>0
  <2> QED
    BY <1>1, <2>1 DEF Gathered
<1>8. Apart(Flush(end.blocks, end.bullets))
  <2> HIDE DEF end
  <2>1. CASE end.bullets = <<>>
    BY <1>6, <2>1 DEF Flush, end
  <2>2. CASE end.bullets # <<>>
    <3>1. end.bullets \in BlockSet
      BY <1>7, <2>2 DEF BlockSet
    <3>2. Apart(Append(end.blocks, end.bullets))
      BY <1>2, <1>6, <1>7, <3>1 DEF end
    <3> QED
      BY <2>2, <3>2 DEF Flush
  <2> QED
    BY <2>1, <2>2
<1>9. Apart(Blocks(items))
  BY <1>1, <1>8
<1> QED
  BY <1>9 DEF W


-----------------------------------------------------------------------------
(* Layers, and the order they are rendered in.                             *)

\* A layer as flatten_layers and Layers leave it.
IsLayer(layer) ==
    /\ layer = [name |-> layer.name, value |-> layer.value]
    /\ layer.value.shape = "list" => layer.value.items \in Seq(Items)

LEMMA LayersAre ==
    ASSUME NEW sent, IsPayload(sent), NEW layer \in Layers(sent)
    PROVE  IsLayer(layer)
<1> DEFINE data == {l \in ToSet(sent) : l.name \notin _META_KEYS}
           groups == {l \in data : is_group(l.value)}
           within(l) == {[inner EXCEPT !.name = Dotted(l.name, @)] : inner \in ToSet(l.value.layers)}
<1>1. Layers(sent) = {l \in data : ~is_group(l.value)} \cup UNION {within(l) : l \in groups}
  BY DEF Layers
<1>2. CASE layer \in {l \in data : ~is_group(l.value)}
  BY <1>2 DEF IsPayload, IsLayers, IsLayer
<1>3. CASE layer \in UNION {within(l) : l \in groups}
  <2>1. PICK l \in groups : layer \in within(l)
    BY <1>3
  <2>2. PICK inner \in ToSet(l.value.layers) : layer = [inner EXCEPT !.name = Dotted(l.name, @)]
    BY <2>1
  <2>3. IsLayers(l.value.layers)
    BY <2>1 DEF IsPayload
  <2>4. /\ inner = [name |-> inner.name, value |-> inner.value]
        /\ inner.value.shape = "list" => inner.value.items \in Seq(Items)
    BY <2>2, <2>3 DEF IsLayers
  <2>5. layer.value = inner.value /\ layer = [name |-> layer.name, value |-> layer.value]
    BY <2>2, <2>4
  <2> QED
    BY <2>4, <2>5 DEF IsLayer
<1> QED
  BY <1>1, <1>2, <1>3

\* flatten_layers assigns every layer, and nothing else.
LEMMA FlattenedAre ==
    ASSUME NEW sent, IsPayload(sent)
    PROVE  /\ flatten_layers(sent) \in Seq(Layers(sent))
           /\ ToSet(flatten_layers(sent)) = Layers(sent)
<1> DEFINE L == Layers(sent)
           data == {l \in ToSet(sent) : l.name \notin _META_KEYS}
           groups == {l \in data : is_group(l.value)}
           within(l) == {[inner EXCEPT !.name = Dotted(l.name, @)] : inner \in ToSet(l.value.layers)}
           inside(l) == [j \in DOMAIN l.value.layers |->
                           [name |-> Dotted(l.name, l.value.layers[j].name),
                            value |-> l.value.layers[j].value]]
           part(l) == IF l.name \in _META_KEYS THEN <<>>
                      ELSE IF is_group(l.value) THEN inside(l) ELSE <<l>>
           parts == [i \in DOMAIN sent |-> part(sent[i])]
<1>1. L = {l \in data : ~is_group(l.value)} \cup UNION {within(l) : l \in groups}
  BY DEF Layers
<1>2. flatten_layers(sent) = FlattenSeq(parts)
  BY DEF flatten_layers
<1>3. sent \in Seq(ToSet(sent)) /\ Len(sent) \in Nat /\ DOMAIN sent = 1..Len(sent)
  <2>1. sent \in Seq(ToSet(sent))
    BY DEF IsPayload, IsLayers
  <2> QED
    BY <2>1, LenProperties
<1> HIDE DEF L
<1>4. ASSUME NEW l \in groups
      PROVE  inside(l) \in Seq(L) /\ ToSet(inside(l)) = within(l)
  <2> DEFINE layers == l.value.layers
  <2>1. layers \in Seq(ToSet(layers))
    BY DEF IsPayload, IsLayers
  <2>2. /\ Len(layers) \in Nat
        /\ DOMAIN layers = 1..Len(layers)
        /\ \A j \in 1..Len(layers) : layers[j] \in ToSet(layers)
    BY <2>1, LenProperties, ElementOfSeq
  <2>3. \A inner \in ToSet(layers) : inner = [name |-> inner.name, value |-> inner.value]
    BY DEF IsPayload, IsLayers
  <2>4. ASSUME NEW inner \in ToSet(layers)
        PROVE  [inner EXCEPT !.name = Dotted(l.name, @)]
                  = [name |-> Dotted(l.name, inner.name), value |-> inner.value]
    BY <2>3
  <2>5. within(l) \subseteq L
    BY <1>1
  <2> DEFINE e(j) == [name |-> Dotted(l.name, layers[j].name), value |-> layers[j].value]
  <2>6. \A j \in 1..Len(layers) : e(j) \in within(l)
    BY <2>2, <2>4
  <2>7. ASSUME NEW x \in within(l) PROVE \E j \in 1..Len(layers) : x = e(j)
    <3>1. PICK inner \in ToSet(layers) : x = [inner EXCEPT !.name = Dotted(l.name, @)]
      OBVIOUS
    <3>2. PICK j \in 1..Len(layers) : inner = layers[j]
      BY <2>2 DEF ToSet
    <3> QED
      BY <2>4, <3>1, <3>2
  <2>8. inside(l) = [j \in 1..Len(layers) |-> e(j)]
    BY <2>2
  <2> HIDE DEF e, within, inside, layers
  <2>9. [j \in 1..Len(layers) |-> e(j)] \in Seq(L)
    BY <2>2, <2>5, <2>6
  <2>10. ToSet([j \in 1..Len(layers) |-> e(j)]) = {e(j) : j \in 1..Len(layers)}
    BY DEF ToSet
  <2>11. {e(j) : j \in 1..Len(layers)} = within(l)
    BY <2>6, <2>7
  <2> QED
    BY <2>8, <2>9, <2>10, <2>11
<1>5. ASSUME NEW i \in 1..Len(sent) PROVE part(sent[i]) \in Seq(L)
  <2> DEFINE l == sent[i]
  <2>1. l \in ToSet(sent)
    BY <1>3, ElementOfSeq
  <2> HIDE DEF l
  <2>2. CASE l.name \in _META_KEYS
    BY <2>2, EmptySeq DEF l
  <2>3. CASE l.name \notin _META_KEYS /\ is_group(l.value)
    <3>1. l \in groups
      BY <2>1, <2>3
    <3>2. part(l) = inside(l)
      BY <2>3
    <3> HIDE DEF groups, inside, part, within
    <3> QED
      BY <1>4, <3>1, <3>2 DEF l
  <2>4. CASE l.name \notin _META_KEYS /\ ~is_group(l.value)
    <3>1. l \in L
      BY <1>1, <2>1, <2>4
    <3>2. part(l) = <<l>>
      BY <2>4
    <3> HIDE DEF part
    <3> QED
      BY <3>1, <3>2 DEF l
  <2> QED
    BY <2>2, <2>3, <2>4
<1>6. parts \in Seq(Seq(L)) /\ Len(parts) = Len(sent) /\ \A i \in 1..Len(sent) : parts[i] = part(sent[i])
  <2> HIDE DEF part
  <2> QED
    BY <1>3, <1>5
<1>7. ASSUME NEW x \in L PROVE \E i \in 1..Len(sent) : x \in ToSet(part(sent[i]))
  <2>1. CASE x \in {l \in data : ~is_group(l.value)}
    <3>1. PICK i \in 1..Len(sent) : x = sent[i]
      BY <1>3, <2>1 DEF ToSet
    <3>2. part(x) = <<x>> /\ x \in ToSet(<<x>>)
      BY <2>1 DEF ToSet
    <3> QED
      BY <3>1, <3>2
  <2>2. CASE x \in UNION {within(l) : l \in groups}
    <3>1. PICK l \in groups : x \in within(l)
      BY <2>2
    <3>2. PICK i \in 1..Len(sent) : l = sent[i]
      BY <1>3, <3>1 DEF ToSet
    <3>3. part(l) = inside(l)
      BY <3>1
    <3>4. x \in ToSet(inside(l))
      <4> HIDE DEF groups, inside, within
      <4> QED
        BY <1>4, <3>1
    <3> HIDE DEF inside, part
    <3> QED
      BY <3>2, <3>3, <3>4
  <2> HIDE DEF data, groups, within
  <2> QED
    BY <1>1, <1>7, <2>1, <2>2
<1> HIDE DEF part, parts
<1>8. FlattenSeq(parts) \in Seq(L)
  BY <1>6, FlattenIs
<1>9. ASSUME NEW x \in L PROVE x \in ToSet(FlattenSeq(parts))
  <2>1. PICK i \in 1..Len(sent) : x \in ToSet(parts[i])
    BY <1>6, <1>7
  <2>2. i \in 1..Len(parts)
    BY <1>6
  <2>3. ToSet(parts[i]) \subseteq ToSet(FlattenSeq(parts))
    BY <1>6, <2>2, FlattenKeeps
  <2> QED
    BY <2>1, <2>3
<1>10. ToSet(FlattenSeq(parts)) \subseteq L
  BY <1>8, LenProperties, ElementOfSeq DEF ToSet
<1> QED
  BY <1>2, <1>8, <1>9, <1>10 DEF L

LEMMA NamesAre ==
    ASSUME NEW sent, IsPayload(sent)
    PROVE  ToSet(Names(flatten_layers(sent))) = {layer.name : layer \in Layers(sent)}
<1> DEFINE flat == flatten_layers(sent)
<1>1. ToSet(flat) = Layers(sent)
  BY FlattenedAre
<1> HIDE DEF flat
<1>2. ToSet(Names(flat)) = {layer.name : layer \in ToSet(flat)}
  BY DEF Names, ToSet
<1> QED
  BY <1>1, <1>2 DEF flat

\* The value under a name is that of a layer of this name.
LEMMA AtIs ==
    ASSUME NEW sent, IsPayload(sent), NEW layer \in Layers(sent)
    PROVE  \E l \in Layers(sent) : l.name = layer.name /\ At(flatten_layers(sent), layer.name) = l.value
<1> DEFINE flat == flatten_layers(sent)
           I == {i \in 1..Len(flat) : flat[i].name = layer.name}
<1>1. flat \in Seq(Layers(sent)) /\ ToSet(flat) = Layers(sent)
  BY FlattenedAre
<1> HIDE DEF flat
<1>2. /\ Len(flat) \in Nat /\ DOMAIN flat = 1..Len(flat)
      /\ \A i \in 1..Len(flat) : flat[i] \in Layers(sent)
  BY <1>1, LenProperties, ElementOfSeq
<1>3. PICK k \in I : TRUE
  BY <1>1, <1>2 DEF ToSet
<1>4. SelectLastInSeq(flat, LAMBDA l : l.name = layer.name) = Max(I)
  BY <1>3 DEF SelectLastInSeq
<1>5. At(flat, layer.name) = flat[Max(I)].value
  BY <1>4 DEF At
<1>6. I \in SUBSET (1..Len(flat))
  OBVIOUS
<1>7. Max(I) \in I
  <2> HIDE DEF I
  <2> QED
    BY <1>2, <1>3, <1>6, LastIsOne
<1> DEFINE m == Max(I)
<1>8. m \in 1..Len(flat) /\ flat[m].name = layer.name
  BY <1>7
<1>9. flat[m] \in Layers(sent)
  BY <1>2, <1>8
<1> QED
  BY <1>5, <1>8, <1>9 DEF flat

LEMMA CanonicalIs ==
    CANONICAL_ORDER \in Seq(ToSet(CANONICAL_ORDER)) /\ IsInjective(CANONICAL_ORDER)
<1> DEFINE c(k) == CANONICAL_ORDER[k]
           C == ToSet(CANONICAL_ORDER)
<1>1. /\ c(1) = "shared.user_profile" /\ c(2) = "shared.reasoning" /\ c(3) = "shared.knowledge"
      /\ c(4) = "identity" /\ c(5) = "reasoning" /\ c(6) = "emotional"
      /\ c(7) = "knowledge_index" /\ c(8) = "episodic_index" /\ c(9) = "latest_episode"
  BY DEF CANONICAL_ORDER
<1>2. CANONICAL_ORDER = [i \in 1..9 |-> c(i)]
  BY DEF CANONICAL_ORDER
<1>3. \A i \in 1..9 : c(i) \in C
  BY <1>2 DEF ToSet
<1> HIDE DEF c, C
<1>4. [i \in 1..9 |-> c(i)] \in Seq(C)
  BY <1>3
<1>5. ASSUME NEW i \in 1..9, NEW j \in 1..9, c(i) = c(j) PROVE i = j
  <2>1. i \in {1, 2, 3, 4, 5, 6, 7, 8, 9} /\ j \in {1, 2, 3, 4, 5, 6, 7, 8, 9}
    OBVIOUS
  <2> QED
    BY ONLY <1>1, <1>5, <2>1, SMTT(60)
<1>6. IsInjective([i \in 1..9 |-> c(i)])
  BY <1>5 DEF IsInjective
<1> QED
  BY <1>2, <1>4, <1>6 DEF C

\* The layers in order: those of the configuration that are there, or all.
Words(configured) == ToSet(CANONICAL_ORDER) \cup ToSet(NameOrder) \cup ToSet(configured)

LEMMA WordsAre ==
    ASSUME NEW configured \in Seq(STRING)
    PROVE  /\ configured \in Seq(Words(configured))
           /\ NameOrder \in Seq(Words(configured))
           /\ CANONICAL_ORDER \in Seq(Words(configured))
<1>1. ASSUME NEW T, NEW seq \in Seq(T) PROVE seq \in Seq(ToSet(seq))
  <2>1. Len(seq) \in Nat /\ DOMAIN seq = 1..Len(seq) /\ seq \in [1..Len(seq) -> T]
    BY LenProperties
  <2>2. \A i \in 1..Len(seq) : seq[i] \in ToSet(seq)
    BY <2>1 DEF ToSet
  <2>3. seq = [i \in 1..Len(seq) |-> seq[i]]
    BY <2>1
  <2> DEFINE R == ToSet(seq)
  <2> HIDE DEF R
  <2>4. [i \in 1..Len(seq) |-> seq[i]] \in Seq(R)
    BY <2>1, <2>2 DEF R
  <2> QED
    BY <2>3, <2>4 DEF R
<1>2. configured \in Seq(ToSet(configured)) /\ NameOrder \in Seq(ToSet(NameOrder))
  BY <1>1, AwakeningAssumption
<1> QED
  BY <1>2, CanonicalIs, SeqMonotonic DEF Words

LEMMA OrderIs ==
    ASSUME NEW present, ToSet(present) \subseteq ToSet(NameOrder), NEW configured \in Seq(STRING)
    PROVE  /\ layer_order(present, configured) \in Seq(Words(configured))
           /\ ToSet(layer_order(present, configured)) =
                 {n \in ToSet(present) : configured # <<>> => n \in ToSet(configured)}
           /\ IsInjective(configured) => IsInjective(layer_order(present, configured))
<1> DEFINE N == ToSet(present)
           C == ToSet(CANONICAL_ORDER)
           W == Words(configured)
<1>0. configured \in Seq(W) /\ NameOrder \in Seq(W) /\ CANONICAL_ORDER \in Seq(W)
  BY WordsAre
<1> HIDE DEF W
<1>1. CASE configured # <<>>
  <2>1. layer_order(present, configured) = Only(configured, N)
    BY <1>1 DEF layer_order
  <2>2. /\ Only(configured, N) \in Seq(W)
        /\ ToSet(Only(configured, N)) = {x \in ToSet(configured) : x \in N}
        /\ IsInjective(configured) => IsInjective(Only(configured, N))
    BY <1>0, OnlyIs
  <2> HIDE DEF N
  <2> QED
    BY <1>1, <2>1, <2>2 DEF N, W
<1>2. CASE configured = <<>>
  <2> DEFINE known == Only(CANONICAL_ORDER, N)
             unknown == Only(NameOrder, N \ C)
  <2>1. layer_order(present, configured) = known \o unknown
    BY <1>2 DEF layer_order
  <2>2. known \in Seq(W) /\ ToSet(known) = {x \in C : x \in N} /\ IsInjective(known)
    BY <1>0, CanonicalIs, OnlyIs
  <2>3. /\ unknown \in Seq(W)
        /\ ToSet(unknown) = {x \in ToSet(NameOrder) : x \in N \ C}
        /\ IsInjective(unknown)
    BY <1>0, AwakeningAssumption, OnlyIs
  <2> HIDE DEF known, unknown, C, N
  <2>4. known \o unknown \in Seq(W)
    BY <2>2, <2>3, ConcatProperties
  <2>5. ToSet(known) \cap ToSet(unknown) = {}
    BY <2>2, <2>3
  <2>6. ToSet(known \o unknown) = ToSet(known) \cup ToSet(unknown) /\ IsInjective(known \o unknown)
    BY <2>2, <2>3, <2>5, ConcatIs
  <2>7. ToSet(known) \cup ToSet(unknown) = N
    BY <2>2, <2>3 DEF N
  <2> QED
    BY <1>2, <2>1, <2>4, <2>6, <2>7 DEF N, W
<1> QED
  BY <1>1, <1>2


-----------------------------------------------------------------------------
(* A section, and the sections of a prompt.                                *)

\* No block is empty: what has blocks has text.
LEMMA BlocksShow ==
    ASSUME NEW blocks \in Seq(BlockSet)
    PROVE  blocks = <<>> <=> FlattenSeq(blocks) = <<>>
<1>1. FlattenSeq(<<>>) = <<>>
  BY DEF FlattenSeq
<1>2. ASSUME blocks # <<>> PROVE FlattenSeq(blocks) # <<>>
  <2>1. 1 \in 1..Len(blocks)
    BY <1>2, EmptySeq
  <2>2. blocks[1] \in BlockSet /\ blocks \in Seq(Seq(Items))
    BY <2>1, ElementOfSeq, BlocksAreItems
  <2>3. blocks[1] \in Seq(Items) /\ blocks[1] # <<>>
    <3>1. Len(<<"whole">>) = 1 /\ Len(<<>>) = 0
      OBVIOUS
    <3>2. <<"whole">> # <<>>
      BY <3>1
    <3>3. \A b \in BlockSet : b # <<>>
      BY <3>2 DEF BlockSet
    <3> QED
      BY <2>2, <3>3, BlocksAreItems
  <2> DEFINE first == blocks[1]
  <2>4. first[1] \in ToSet(first)
    <3>1. 1 \in DOMAIN first
      BY <2>3, EmptySeq, LenProperties
    <3> QED
      BY <3>1 DEF ToSet
  <2>5. ToSet(first) \subseteq ToSet(FlattenSeq(blocks))
    BY <2>1, <2>2, FlattenKeeps
  <2>6. ToSet(<<>>) = {}
    BY DEF ToSet
  <2> HIDE DEF first
  <2> QED
    BY <2>4, <2>5, <2>6
<1> QED
  BY <1>1, <1>2

Whole == <<"whole">>

OneOrBullets(block) == Len(block) = 1 \/ \A j \in DOMAIN block : OneLiner(block[j])

LEMMA BlockIs ==
    ASSUME NEW block \in BlockSet
    PROVE  OneOrBullets(block)
<1>1. CASE block = <<"whole">>
  BY <1>1 DEF OneOrBullets
<1>2. CASE block \in Seq(OneLiners)
  <2>1. \A j \in DOMAIN block : block[j] \in OneLiners
    BY <1>2, LenProperties, ElementOfSeq
  <2> QED
    BY <2>1 DEF OneOrBullets, OneLiner, OneLiners
<1> QED
  BY <1>1, <1>2 DEF BlockSet

LEMMA RenderIs ==
    ASSUME NEW name, NEW value, value.shape = "list" => value.items \in Seq(Items),
           NEW section, section = render_layer(name, value)
    PROVE  /\ section = [name |-> name, blocks |-> section.blocks]
           /\ FlattenSeq(section.blocks) = Shown(value)
           /\ section.blocks # <<>> <=> Headed(value)
           /\ \A k \in DOMAIN section.blocks : OneOrBullets(section.blocks[k])
           /\ (value.shape = "list" => ~Contains(value.items, "blank")) =>
                 \A k \in 1..Len(section.blocks) - 1 :
                    section.blocks[k] = Whole \/ section.blocks[k + 1] = Whole
<1> DEFINE blocks == section.blocks
<1>1. section = [name |-> name, blocks |-> blocks]
  BY DEF render_layer
<1>2. CASE Empty(value)
  <2>1. blocks = <<>> /\ Shown(value) = <<>> /\ ~Headed(value)
    BY <1>2 DEF render_layer, Shown, Headed
  <2>2. FlattenSeq(<<>>) = <<>>
    BY DEF FlattenSeq
  <2> QED
    BY <1>1, <2>1, <2>2
<1>3. CASE ~Empty(value) /\ value.shape = "list"
  <2> DEFINE items == value.items
  <2>1. blocks = Blocks(items)
    BY <1>3 DEF render_layer
  <2>2. Shown(value) = Only(items, ToSet(items) \ {"nothing", "blank"})
    BY <1>3 DEF Shown
  <2>3. items \in Seq(Items)
    BY <1>3
  <2> HIDE DEF items, blocks
  <2>4. blocks \in Seq(BlockSet) /\ FlattenSeq(blocks) = Shown(value)
    BY <2>1, <2>2, <2>3, BlocksHold
  <2>5. blocks # <<>> <=> Headed(value)
    BY <1>3, <2>4, BlocksShow DEF Headed
  <2>6. \A k \in DOMAIN blocks : OneOrBullets(blocks[k])
    <3>1. DOMAIN blocks = 1..Len(blocks) /\ \A k \in 1..Len(blocks) : blocks[k] \in BlockSet
      BY <2>4, LenProperties, ElementOfSeq
    <3> QED
      BY <3>1, BlockIs
  <2>7. ~Contains(items, "blank") =>
           \A k \in 1..Len(blocks) - 1 : blocks[k] = Whole \/ blocks[k + 1] = Whole
    BY <2>1, <2>3, BlocksApart DEF Whole
  <2> QED
    BY <1>1, <1>3, <2>4, <2>5, <2>6, <2>7 DEF items, blocks
<1>4. CASE ~Empty(value) /\ value.shape # "list"
  <2> DEFINE shape == Text(value)
  <2>1. blocks = <<shape>>
    BY <1>4 DEF render_layer
  <2>2. Shown(value) = shape /\ Headed(value)
    BY <1>4 DEF Shown, Headed
  <2>3. shape \in Seq({value.shape}) /\ OneOrBullets(shape)
    <3>1. CASE shape = <<>>
      BY <3>1 DEF OneOrBullets
    <3>2. CASE shape = <<value.shape>>
      BY <3>2 DEF OneOrBullets
    <3> QED
      BY <3>1, <3>2 DEF Text
  <2> HIDE DEF shape, blocks
  <2>4. FlattenSeq(Append(<<>>, shape)) = FlattenSeq(<<>>) \o shape
    <3> DEFINE T == {value.shape}
    <3> HIDE DEF T
    <3>1. <<>> \in Seq(Seq(T)) /\ shape \in Seq(T)
      BY <2>3, EmptySeq DEF T
    <3> QED
      BY ONLY <3>1, FlattenAppend
  <2>5. FlattenSeq(<<>>) = <<>> /\ Append(<<>>, shape) = <<shape>>
    BY DEF FlattenSeq
  <2>6. <<>> \o shape = shape
    BY <2>3, ConcatEmptySeq
  <2>7. FlattenSeq(blocks) = shape
    BY <2>1, <2>4, <2>5, <2>6
  <2>8. blocks # <<>> /\ Len(blocks) = 1 /\ DOMAIN blocks = 1..1 /\ blocks[1] = shape
    BY <2>1
  <2>9. \A k \in DOMAIN blocks : OneOrBullets(blocks[k])
    BY <2>3, <2>8
  <2>10. \A k \in 1..Len(blocks) - 1 : blocks[k] = Whole \/ blocks[k + 1] = Whole
    BY <2>8
  <2> QED
    BY <1>1, <2>2, <2>3, <2>7, <2>8, <2>9, <2>10 DEF blocks
<1> QED
  BY <1>2, <1>3, <1>4

\* An answer whose names are names, as AwakeningAssumption says of those there are.
Known(sent) ==
    IsPayload(sent) /\ ToSet(Names(flatten_layers(sent))) \subseteq ToSet(NameOrder)

Asks(configured, excluded, name) ==
    /\ configured # <<>> => name \in ToSet(configured)
    /\ name \notin excluded

Rendered(sent, name) == render_layer(name, At(flatten_layers(sent), name))

\* A prompt has the section of every name asked for that has one, once if the
\* configuration names it once.
LEMMA PromptIs ==
    ASSUME NEW sent, Known(sent), NEW configured \in Seq(STRING), NEW excluded
    PROVE  /\ ToSet(assemble_system_prompt(sent, configured, excluded)) =
                 {s \in {Rendered(sent, n) : n \in {l.name : l \in Layers(sent)}} :
                    Asks(configured, excluded, s.name) /\ s.blocks # <<>>}
           /\ IsInjective(configured) =>
                 IsInjective(Names(assemble_system_prompt(sent, configured, excluded)))
<1> DEFINE flat == flatten_layers(sent)
           N == ToSet(Names(flat))
           lo == layer_order(Names(flat), configured)
           ordered == Only(lo, N \ excluded)
           texts == [i \in DOMAIN ordered |-> render_layer(ordered[i], At(flat, ordered[i]))]
           places == {i \in DOMAIN texts : texts[i].blocks # <<>>}
           prompt == assemble_system_prompt(sent, configured, excluded)
           W == Words(configured)
<1>1. prompt = Picked(texts, places)
  BY DEF assemble_system_prompt
<1>2. N = {l.name : l \in Layers(sent)}
  BY NamesAre DEF Known
<1>3. /\ lo \in Seq(W)
      /\ ToSet(lo) = {n \in N : configured # <<>> => n \in ToSet(configured)}
      /\ IsInjective(configured) => IsInjective(lo)
  BY OrderIs DEF Known
<1> HIDE DEF lo, N, W
<1>4. /\ ordered \in Seq(W)
      /\ ToSet(ordered) = {n \in ToSet(lo) : n \in N \ excluded}
      /\ IsInjective(lo) => IsInjective(ordered)
  BY <1>3, OnlyIs
<1>5. ToSet(ordered) = {n \in N : Asks(configured, excluded, n)}
  BY <1>3, <1>4 DEF Asks
<1> HIDE DEF ordered
<1>6. Len(ordered) \in Nat /\ DOMAIN ordered = 1..Len(ordered)
  BY <1>4, LenProperties
<1>7. \A n : Rendered(sent, n) = render_layer(n, At(flat, n)) /\ Rendered(sent, n).name = n
  BY DEF Rendered, render_layer
<1> DEFINE T == {Rendered(sent, n) : n \in ToSet(ordered)}
<1>8. texts = [i \in 1..Len(ordered) |-> Rendered(sent, ordered[i])]
  BY <1>6, <1>7
<1>9. \A i \in 1..Len(ordered) : Rendered(sent, ordered[i]) \in T
  BY <1>6 DEF ToSet
<1> HIDE DEF T, texts, flat
<1>10. [i \in 1..Len(ordered) |-> Rendered(sent, ordered[i])] \in Seq(T)
  BY <1>6, <1>9
<1>11. texts \in Seq(T) /\ DOMAIN texts = 1..Len(ordered) /\ Len(texts) = Len(ordered)
       /\ \A i \in 1..Len(ordered) : texts[i] = Rendered(sent, ordered[i])
  BY <1>6, <1>8, <1>10
<1>12. ToSet(prompt) = {texts[i] : i \in {k \in DOMAIN texts : k \in places}}
  <2> HIDE DEF places, prompt
  <2> QED
    BY <1>1, <1>11, PickedSet
<1> HIDE DEF prompt
<1>13. ASSUME NEW s \in ToSet(prompt)
       PROVE  \E n \in N : s = Rendered(sent, n) /\ Asks(configured, excluded, n) /\ s.blocks # <<>>
  <2>1. PICK i \in 1..Len(ordered) : s = texts[i] /\ s.blocks # <<>>
    BY <1>11, <1>12
  <2>2. ordered[i] \in ToSet(ordered)
    BY <1>6 DEF ToSet
  <2> QED
    BY <1>5, <1>11, <2>1, <2>2
<1>14. ASSUME NEW n \in N, Asks(configured, excluded, n), Rendered(sent, n).blocks # <<>>
       PROVE  Rendered(sent, n) \in ToSet(prompt)
  <2>1. n \in ToSet(ordered)
    BY <1>5, <1>14
  <2>2. PICK i \in 1..Len(ordered) : n = ordered[i]
    BY <1>6, <2>1 DEF ToSet
  <2>3. texts[i] = Rendered(sent, n) /\ i \in DOMAIN texts
    BY <1>11, <2>2
  <2> QED
    BY <1>12, <1>14, <2>3
<1>15. ToSet(prompt) = {s \in {Rendered(sent, n) : n \in N} :
                           Asks(configured, excluded, s.name) /\ s.blocks # <<>>}
  BY <1>7, <1>13, <1>14
<1>16. ASSUME IsInjective(configured) PROVE IsInjective(Names(prompt))
  <2>1. IsInjective(ordered)
    BY <1>3, <1>4, <1>16
  <2>2. PICK at : Takes(at, prompt, texts, Len(texts), places)
    <3> HIDE DEF places
    <3> QED
      BY <1>1, <1>11, PickedTakes
  <2>3. prompt \in Seq(T)
    <3> HIDE DEF places
    <3> QED
      BY <1>1, <1>11, PickedSeq
  <2>4. Len(prompt) \in Nat /\ DOMAIN prompt = 1..Len(prompt)
    BY <2>3, LenProperties
  <2> HIDE DEF places
  <2>5. ASSUME NEW i \in 1..Len(prompt), NEW j \in 1..Len(prompt), prompt[i].name = prompt[j].name
        PROVE  i = j
    <3>1. /\ at[i] \in 1..Len(ordered) /\ prompt[i] = texts[at[i]]
          /\ at[j] \in 1..Len(ordered) /\ prompt[j] = texts[at[j]]
      BY <1>11, <2>2 DEF Takes
    <3>2. ordered[at[i]] = ordered[at[j]]
      BY <1>7, <1>11, <2>5, <3>1
    <3>3. at[i] = at[j]
      BY <1>6, <2>1, <3>1, <3>2 DEF IsInjective
    <3>4. ~(i < j) /\ ~(j < i)
      BY <2>2, <3>1, <3>3 DEF Takes
    <3> QED
      BY <2>4, <3>4
  <2> QED
    BY <2>4, <2>5 DEF IsInjective, Names
<1> QED
  BY <1>2, <1>15, <1>16 DEF prompt


-----------------------------------------------------------------------------
(* What is said of every prompt.                                           *)

LEMMA PayloadsAreKnown == \A sent \in Payloads : Known(sent)
BY AwakeningAssumption DEF Known

LEMMA SelectionsAre == \A configured \in Selections : configured \in Seq(STRING)
BY AwakeningAssumption

\* The section of a name is that of a layer of the name.
LEMMA RenderedIs ==
    ASSUME NEW sent, Known(sent), NEW layer \in Layers(sent)
    PROVE  \E l \in Layers(sent) :
              /\ l.name = layer.name
              /\ Rendered(sent, layer.name) = render_layer(l.name, l.value)
<1>1. PICK l \in Layers(sent) :
         l.name = layer.name /\ At(flatten_layers(sent), layer.name) = l.value
  BY AtIs DEF Known
<1> QED
  BY <1>1 DEF Rendered

LEMMA NothingIsLost == NothingLost
<1> SUFFICES ASSUME NEW sent \in Awakened, NEW configured \in Selections, NEW excluded \in Exclusions
             PROVE  LET prompt == assemble_system_prompt(sent, configured, excluded)
                        asked == {layer \in Layers(sent) :
                                    /\ configured # <<>> => Contains(configured, layer.name)
                                    /\ layer.name \notin excluded}
                        said == {[name |-> s.name, text |-> FlattenSeq(s.blocks)] : s \in ToSet(prompt)}
                        InFull(layer) == [name |-> layer.name, text |-> Shown(layer.value)]
                    IN  /\ said \subseteq {InFull(layer) : layer \in {l \in asked : Headed(l.value)}}
                        /\ \A l \in asked : \E m \in asked :
                              m.name = l.name /\ (Headed(m.value) => InFull(m) \in said)
                        /\ IsInjective(configured) => IsInjective(Names(prompt))
  BY DEF NothingLost
<1> DEFINE prompt == assemble_system_prompt(sent, configured, excluded)
           L == Layers(sent)
           asked == {layer \in L : /\ configured # <<>> => Contains(configured, layer.name)
                                   /\ layer.name \notin excluded}
           Read(s) == [name |-> s.name, text |-> FlattenSeq(s.blocks)]
           InFull(layer) == [name |-> layer.name, text |-> Shown(layer.value)]
           said == {Read(s) : s \in ToSet(prompt)}
<1>1. Known(sent) /\ configured \in Seq(STRING)
  BY PayloadsAreKnown, SelectionsAre DEF Awakened
<1>2. ToSet(prompt) = {s \in {Rendered(sent, n) : n \in {l.name : l \in L}} :
                          Asks(configured, excluded, s.name) /\ s.blocks # <<>>}
  BY <1>1, PromptIs
<1>3. \A l \in L : l \in asked <=> Asks(configured, excluded, l.name)
  <2>1. DOMAIN configured = 1..Len(configured)
    BY <1>1, LenProperties
  <2> QED
    BY <2>1 DEF Asks, Contains, ToSet
<1>4. ASSUME NEW layer \in L
      PROVE  \E l \in L : /\ l.name = layer.name
                          /\ Read(Rendered(sent, layer.name)) = InFull(l)
                          /\ Rendered(sent, layer.name).name = layer.name
                          /\ Rendered(sent, layer.name).blocks # <<>> <=> Headed(l.value)
  <2> DEFINE s == Rendered(sent, layer.name)
  <2>1. PICK l \in L : l.name = layer.name /\ s = render_layer(l.name, l.value)
    BY <1>1, RenderedIs
  <2>2. l.value.shape = "list" => l.value.items \in Seq(Items)
    BY <1>1, LayersAre DEF Known, IsLayer
  <2> HIDE DEF s
  <2>3. /\ s = [name |-> l.name, blocks |-> s.blocks]
        /\ FlattenSeq(s.blocks) = Shown(l.value)
        /\ s.blocks # <<>> <=> Headed(l.value)
    BY <2>1, <2>2, RenderIs
  <2>4. s.name = l.name
    BY <2>3
  <2> QED
    BY <2>1, <2>3, <2>4 DEF s
<1>5. IsInjective(configured) => IsInjective(Names(prompt))
  BY <1>1, PromptIs
<1> HIDE DEF prompt, asked, Read, InFull, L
<1>6. ASSUME NEW s \in ToSet(prompt)
      PROVE  \E l \in {m \in asked : Headed(m.value)} : Read(s) = InFull(l)
  <2>1. PICK layer \in L : /\ s = Rendered(sent, layer.name)
                           /\ s.blocks # <<>>
                           /\ Asks(configured, excluded, s.name)
    BY <1>2
  <2>2. PICK l \in L : /\ l.name = layer.name
                       /\ Read(s) = InFull(l)
                       /\ s.name = layer.name
                       /\ Headed(l.value)
    BY <1>4, <2>1
  <2>3. l \in asked
    BY <1>3, <2>1, <2>2
  <2> QED
    BY <2>2, <2>3
<1>7. ASSUME NEW layer \in asked
      PROVE  \E m \in asked : m.name = layer.name /\ (Headed(m.value) => InFull(m) \in said)
  <2> DEFINE s == Rendered(sent, layer.name)
  <2>1. layer \in L
    BY DEF asked
  <2>2. PICK l \in L : /\ l.name = layer.name
                       /\ Read(s) = InFull(l)
                       /\ s.name = layer.name
                       /\ s.blocks # <<>> <=> Headed(l.value)
    BY <1>4, <2>1
  <2>3. Asks(configured, excluded, layer.name) /\ l \in asked
    BY <1>3, <2>1, <2>2
  <2>4. Headed(l.value) => s \in ToSet(prompt)
    BY <1>2, <2>1, <2>2, <2>3
  <2> HIDE DEF s
  <2> QED
    BY <2>2, <2>3, <2>4
<1>8. said \subseteq {InFull(layer) : layer \in {l \in asked : Headed(l.value)}}
  BY <1>6
<1> QED
  BY <1>5, <1>7, <1>8 DEF prompt, asked, Read, InFull, L

LEMMA RecordsAreApart == WholeRecordsApart
<1> SUFFICES ASSUME NEW sent \in Awakened, NEW configured \in Selections, NEW excluded \in Exclusions,
                    NEW section \in ToSet(assemble_system_prompt(sent, configured, excluded))
             PROVE  LET blocks == section.blocks
                        Bullets(k) == \A j \in DOMAIN blocks[k] : OneLiner(blocks[k][j])
                    IN  /\ \A k \in DOMAIN blocks : Len(blocks[k]) = 1 \/ Bullets(k)
                        /\ (\A l \in Layers(sent) : l.name = section.name /\ l.value.shape = "list" =>
                                                       ~Contains(l.value.items, "blank"))
                           => \A k \in 1..Len(blocks) - 1 : ~Bullets(k) \/ ~Bullets(k + 1)
  BY DEF WholeRecordsApart
<1> DEFINE blocks == section.blocks
           Bullets(k) == \A j \in DOMAIN blocks[k] : OneLiner(blocks[k][j])
<1>1. Known(sent) /\ configured \in Seq(STRING)
  BY PayloadsAreKnown, SelectionsAre DEF Awakened
<1>2. PICK layer \in Layers(sent) : section = Rendered(sent, layer.name)
  BY <1>1, PromptIs
<1>3. PICK l \in Layers(sent) : l.name = layer.name /\ At(flatten_layers(sent), layer.name) = l.value
  BY <1>1, AtIs DEF Known
<1>4. section = render_layer(l.name, l.value)
  BY <1>2, <1>3 DEF Rendered
<1>5. l.value.shape = "list" => l.value.items \in Seq(Items)
  BY <1>1, LayersAre DEF Known, IsLayer
<1>6. /\ section = [name |-> l.name, blocks |-> blocks]
      /\ \A k \in DOMAIN blocks : OneOrBullets(blocks[k])
      /\ (l.value.shape = "list" => ~Contains(l.value.items, "blank")) =>
            \A k \in 1..Len(blocks) - 1 : blocks[k] = Whole \/ blocks[k + 1] = Whole
  BY <1>4, <1>5, RenderIs
<1>7. section.name = l.name
  BY <1>6
<1> HIDE DEF blocks
<1>8. ASSUME NEW k, blocks[k] = Whole PROVE ~Bullets(k)
  <2>1. 1 \in DOMAIN Whole /\ Whole[1] = "whole" /\ ~OneLiner("whole")
    BY DEF Whole, OneLiner
  <2> QED
    BY <1>8, <2>1
<1>9. \A k \in DOMAIN blocks : Len(blocks[k]) = 1 \/ Bullets(k)
  BY <1>6 DEF OneOrBullets
<1> HIDE DEF Bullets
<1>10. ASSUME \A m \in Layers(sent) : m.name = section.name /\ m.value.shape = "list" =>
                                          ~Contains(m.value.items, "blank"),
              NEW k \in 1..Len(blocks) - 1
       PROVE  ~Bullets(k) \/ ~Bullets(k + 1)
  <2>1. blocks[k] = Whole \/ blocks[k + 1] = Whole
    BY <1>6, <1>7, <1>10
  <2> QED
    BY <1>8, <2>1
<1> QED
  BY <1>9, <1>10 DEF blocks, Bullets

\* A prompt depends on the layers alone.
LEMMA LayersAlone ==
    ASSUME NEW s, NEW t, Known(s), Known(t), Layers(s) = Layers(t), ~Clash(s),
           NEW configured \in Seq(STRING), NEW excluded
    PROVE  assemble_system_prompt(s, configured, excluded)
             = assemble_system_prompt(t, configured, excluded)
<1> DEFINE N == ToSet(Names(flatten_layers(s)))
           lo(sent) == layer_order(Names(flatten_layers(sent)), configured)
           ordered(sent) == Only(lo(sent), ToSet(Names(flatten_layers(sent))) \ excluded)
           texts(sent, o) == [i \in DOMAIN o |-> render_layer(o[i], At(flatten_layers(sent), o[i]))]
<1>1. ToSet(Names(flatten_layers(t))) = N /\ N = {l.name : l \in Layers(s)}
  BY NamesAre DEF Known
<1>2. lo(s) = lo(t)
  BY <1>1 DEF layer_order
<1>3. ordered(s) = ordered(t)
  BY <1>1, <1>2
<1> DEFINE o == ordered(s)
<1>4. ToSet(o) \subseteq N
  <2>1. lo(s) \in Seq(Words(configured)) /\ ToSet(lo(s)) \subseteq N
    BY OrderIs DEF Known
  <2> HIDE DEF lo, N
  <2> QED
    BY <2>1, OnlyIs
<1>5. ASSUME NEW i \in DOMAIN o
      PROVE  At(flatten_layers(s), o[i]) = At(flatten_layers(t), o[i])
  <2> DEFINE n == o[i]
  <2>1. n \in N
    BY <1>4, <1>5 DEF ToSet
  <2> HIDE DEF n
  <2>2. PICK layer \in Layers(s) : layer.name = n
    BY <1>1, <2>1
  <2>3. PICK l \in Layers(s) : l.name = n /\ At(flatten_layers(s), n) = l.value
    BY <2>2, AtIs DEF Known
  <2>4. PICK m \in Layers(s) : m.name = n /\ At(flatten_layers(t), n) = m.value
    <3>1. layer \in Layers(t) /\ IsPayload(t)
      BY <2>2 DEF Known
    <3>2. \E m \in Layers(t) : m.name = layer.name /\ At(flatten_layers(t), layer.name) = m.value
      BY <3>1, AtIs
    <3> QED
      BY <2>2, <3>2
  <2>5. l = m
    BY <2>3, <2>4 DEF Clash
  <2> QED
    BY <2>3, <2>4, <2>5 DEF n
<1> HIDE DEF o, ordered
<1>6. texts(s, o) = texts(t, o)
  BY <1>5
<1>7. \A sent : assemble_system_prompt(sent, configured, excluded)
                  = Picked(texts(sent, ordered(sent)),
                           {i \in DOMAIN texts(sent, ordered(sent)) :
                              texts(sent, ordered(sent))[i].blocks # <<>>})
  BY DEF assemble_system_prompt, ordered
<1> HIDE DEF texts
<1> QED
  BY <1>3, <1>6, <1>7 DEF o

LEMMA SwappedIs ==
    ASSUME NEW sent, IsPayload(sent), NEW i \in DOMAIN sent, NEW j \in DOMAIN sent
    PROVE  IsPayload(Swapped(sent, i, j)) /\ Layers(Swapped(sent, i, j)) = Layers(sent)
<1> DEFINE t == Swapped(sent, i, j)
           T == ToSet(sent)
<1>1. /\ sent \in Seq(T)
      /\ \A layer \in T :
            /\ layer = [name |-> layer.name, value |-> layer.value]
            /\ layer.value.shape = "list" => layer.value.items \in Seq(Items)
      /\ \A layer \in T : is_group(layer.value) => IsLayers(layer.value.layers)
  BY DEF IsPayload, IsLayers
<1>2. T = {sent[k] : k \in DOMAIN sent}
  BY DEF ToSet
<1> HIDE DEF T
<1>3. /\ Len(sent) \in Nat /\ DOMAIN sent = 1..Len(sent)
      /\ \A k \in DOMAIN sent : sent[k] \in T
  BY <1>1, LenProperties, ElementOfSeq
<1>4. t \in Seq(T) /\ DOMAIN t = DOMAIN sent
  BY <1>1, <1>3 DEF Swapped
<1>5. \A k \in DOMAIN sent : t[k] = IF k = j THEN sent[i] ELSE IF k = i THEN sent[j] ELSE sent[k]
  BY <1>3 DEF Swapped
<1> HIDE DEF t
<1>6. ToSet(t) = T
  <2>1. ToSet(t) = {t[k] : k \in DOMAIN sent}
    BY <1>4 DEF ToSet
  <2>2. ASSUME NEW k \in DOMAIN sent PROVE t[k] \in T
    BY <1>3, <1>5
  <2>3. ASSUME NEW k \in DOMAIN sent PROVE \E m \in DOMAIN sent : t[m] = sent[k]
    <3>1. CASE k = i
      BY <1>5, <3>1
    <3>2. CASE k = j
      BY <1>5, <3>2
    <3>3. CASE k # i /\ k # j
      BY <1>5, <3>3
    <3> QED
      BY <3>1, <3>2, <3>3
  <2> QED
    BY <1>2, <2>1, <2>2, <2>3
<1>7. IsPayload(t)
  BY <1>1, <1>4, <1>6 DEF IsPayload, IsLayers
<1>8. Layers(t) = Layers(sent)
  BY <1>6 DEF Layers, T
<1> QED
  BY <1>7, <1>8 DEF t

LEMMA SentOrderIsIrrelevant == SentOrderIrrelevant
<1> SUFFICES ASSUME NEW sent \in Distinct, NEW configured \in Selections, NEW excluded \in Exclusions,
                    NEW i \in DOMAIN sent, NEW j \in DOMAIN sent
             PROVE  assemble_system_prompt(sent, configured, excluded)
                      = assemble_system_prompt(Swapped(sent, i, j), configured, excluded)
  BY DEF SentOrderIrrelevant
<1> DEFINE t == Swapped(sent, i, j)
<1>1. Known(sent) /\ ~Clash(sent) /\ configured \in Seq(STRING)
  BY PayloadsAreKnown, SelectionsAre DEF Distinct, Awakened
<1>2. IsPayload(t) /\ Layers(t) = Layers(sent)
  BY <1>1, SwappedIs DEF Known
<1> HIDE DEF t
<1>3. Known(t)
  BY <1>1, <1>2, NamesAre DEF Known
<1> QED
  BY <1>1, <1>2, <1>3, LayersAlone DEF t

\* All of what is asked for is in the prompt (awakening_domain.py:12-13).
THEOREM PromptLosesNothingHolds == LoadSpec => []PromptLosesNothing
<1>1. PromptLosesNothing
  BY NothingIsLost DEF PromptLosesNothing
<1> QED
  BY <1>1, PTL

\* Records are sections, one-liners bullets (awakening_domain.py:132-133).
THEOREM PromptKeepsRecordsApartHolds == LoadSpec => []PromptKeepsRecordsApart
<1>1. PromptKeepsRecordsApart
  BY RecordsAreApart DEF PromptKeepsRecordsApart
<1> QED
  BY <1>1, PTL

\* The order of a prompt is the brain's own (awakening_domain.py:156-158).
THEOREM PromptIgnoresSentOrderHolds == LoadSpec => []PromptIgnoresSentOrder
<1>1. PromptIgnoresSentOrder
  BY SentOrderIsIrrelevant DEF PromptIgnoresSentOrder
<1> QED
  BY <1>1, PTL

=============================================================================
