---------------------------- MODULE HomingProofs ----------------------------
(***************************************************************************)
(* What homing guarantees for every set of clients, static subnets and     *)
(* appliances, every assignment list and any number of calls.  The         *)
(* inductive invariant says where a client may still have left a trace     *)
(* while its call runs (SweepInv), and what the assignments already        *)
(* handled have settled (DoneInv); the first carries the refinement of     *)
(* ClientHome, the second what a realize that returns has repaired.        *)
(***************************************************************************)
EXTENDS Homing, SequenceTheorems, TLAPS

\* Where something of the client is left.
Traces(c) == Definers(c) \cup Holders(c)

\* realize's sweep: every appliance, on both sides.
Everywhere == [n \in 1..Len(List) |-> [lan |-> List[n], vpn |-> List[n]]]

\* The first place whose VLAN the sweep has still to delete.
Ahead == IF pc = "withdraw" THEN j + 1 ELSE j

\* At work on assignment k: its sweep has not passed the appliance it is at.
CallInv ==
    pc # "idle" =>
        /\ op \in {Realized, "home_client"}
        /\ op = Realized => sweep = Everywhere
        /\ op = "home_client" => Len(assigns) = 1

SweepInv ==
    /\ pc \in {"sweep", "withdraw"} =>
          \A a \in Appliances \ {Target} :
              /\ a \in Definers(Client) => \E n \in Ahead..Len(sweep) : sweep[n].lan = a
              /\ a \in Holders(Client) => \E n \in j..Len(sweep) : sweep[n].vpn = a
    /\ pc = "withdraw" => j <= Len(sweep) /\ (op = Realized => sweep[j].vpn # Target)
    /\ pc = "advertise" => Traces(Client) \subseteq {Target} /\ Client \in defined[Target]

HomeInv == TypeOK /\ CallInv /\ SweepInv
-----------------------------------------------------------------------------
(* Types.                                                                  *)

LEMMA NonEmptyLen ==
    ASSUME NEW S, NEW s \in Seq(S), s # <<>>
    PROVE  1 <= Len(s)
<1>1. Len(s) \in Nat /\ Len(s) # 0
  BY EmptySeq, LenProperties
<1> DEFINE n == Len(s)
<1>2. n \in Nat /\ n # 0
  BY <1>1
<1> HIDE DEF n
<1>3. 1 <= n
  BY <1>2
<1> QED BY <1>3 DEF n

LEMMA CurrentType ==
    ASSUME TypeOK, pc # "idle"
    PROVE  Client \in Clients /\ Target \in Appliances /\ k \in 1..Len(assigns)
           /\ Client \in Subnets
<1>1. assigns \in Seq(Assignment) /\ k \in 1..Len(assigns)
  BY DEF TypeOK
<1>2. assigns[k] \in Assignment
  BY <1>1
<1> QED BY <1>1, <1>2 DEF Assignment, Client, Target, Subnets

LEMMA SweepType ==
    ASSUME TypeOK
    PROVE  Len(sweep) \in Nat /\ \A n \in 1..Len(sweep) : sweep[n] \in Former
  BY DEF TypeOK

LEMMA EverywhereType ==
    /\ Everywhere \in Seq(Former) /\ Len(Everywhere) = Len(List) /\ Len(List) \in Nat
    /\ \A n \in 1..Len(List) : Everywhere[n].lan = List[n] /\ Everywhere[n].vpn = List[n]
    /\ \A a \in Appliances : \E n \in 1..Len(List) : Everywhere[n].lan = a /\ Everywhere[n].vpn = a
<1>1. Len(List) \in Nat /\ \A n \in 1..Len(List) : List[n] \in Appliances
  BY ListAssumption
<1>2. \A n \in 1..Len(List) : [lan |-> List[n], vpn |-> List[n]] \in Former
  BY <1>1 DEF Former
<1> QED BY <1>1, <1>2, ListAssumption DEF Everywhere

\* What a driver operation of the running call may write.
Effect ==
    \/ DeleteVlan /\ pc = "sweep" /\ Swept /\ sweep[j].lan # None
    \/ DropEntry /\ pc = "withdraw" /\ j <= Len(sweep) /\ sweep[j].vpn # None
    \/ SetVlan /\ pc = "sweep" /\ j > Len(sweep)
    \/ AddEntry /\ pc = "advertise"

LEMMA EffectType ==
    ASSUME TypeOK, Effect \/ UNCHANGED <<defined, entry>>
    PROVE  /\ defined' \in [Appliances -> SUBSET Clients]
           /\ entry' \in [Appliances -> [Subnets -> Entry]]
<1>1. CASE DeleteVlan /\ pc = "sweep" /\ Swept /\ sweep[j].lan # None
  BY <1>1 DEF DeleteVlan, TypeOK
<1>2. CASE DropEntry /\ pc = "withdraw" /\ j <= Len(sweep) /\ sweep[j].vpn # None
  BY <1>2 DEF DropEntry, TypeOK, Entry
<1>3. CASE SetVlan /\ pc = "sweep" /\ j > Len(sweep)
  BY <1>3, CurrentType DEF SetVlan, TypeOK
<1>4. CASE AddEntry /\ pc = "advertise"
  BY <1>4 DEF AddEntry, TypeOK, Entry
<1>5. CASE UNCHANGED <<defined, entry>>
  BY <1>5 DEF TypeOK
<1> QED BY <1>1, <1>2, <1>3, <1>4, <1>5 DEF Effect

LEMMA TypeInit == Init => TypeOK
<1> SUFFICES ASSUME Init PROVE TypeOK
  OBVIOUS
<1>1. PICK home \in [Clients -> SUBSET Appliances] :
        /\ defined = [a \in Appliances |-> {c \in Clients : a \in home[c]}]
        /\ entry = [a \in Appliances |->
                [s \in Subnets |-> IF s \in Clients /\ a \in home[s]
                                   THEN "on" ELSE "absent"]]
  BY DEF Init
<1>2. defined \in [Appliances -> SUBSET Clients]
  BY <1>1
<1>3. entry \in [Appliances -> [Subnets -> Entry]]
  BY <1>1 DEF Entry
<1>4. assigns \in Seq(Assignment) /\ sweep \in Seq(Former) /\ Len(sweep) = 0
  BY EmptySeq DEF Init
<1>5. /\ pc = "idle" /\ op = "none" /\ last = "none" /\ k = 1 /\ j = 1 /\ calls = 0
  BY DEF Init
<1>7. settledAt \in BOOLEAN
  BY DEF Init
<1>8. k \in Nat \ {0} /\ (pc # "idle" => k <= Len(assigns))
  BY <1>5
<1>9. /\ op \in {"none", Realized, "home_client", "set_subnet_advertised"}
      /\ pc \in {"idle", "sweep", "withdraw", "advertise"}
      /\ last \in {"none", "ok", "failed"}
  BY <1>5
<1>6. j \in 1..(Len(sweep) + 1) /\ calls \in 0..MaxCalls
  BY <1>4, <1>5, CallsAssumption
<1> QED BY <1>2, <1>3, <1>4, <1>6, <1>7, <1>8, <1>9 DEF TypeOK

LEMMA TypeStep == HomeInv /\ [Next]_vars => TypeOK'
<1> SUFFICES ASSUME HomeInv, [Next]_vars PROVE TypeOK'
  OBVIOUS
<1>0. TypeOK /\ Len(sweep) \in Nat /\ Len(assigns) \in Nat
  BY DEF HomeInv, TypeOK
<1>1. ASSUME NEW as \in Assignments, Realize(as) PROVE TypeOK'
  <2>1. /\ calls < MaxCalls /\ calls' = calls + 1 /\ op' = Realized /\ k' = 1 /\ j' = 1
        /\ UNCHANGED <<defined, entry>> /\ assigns' = as /\ sweep' = Everywhere
        /\ pc' \in {"idle", "sweep"} /\ last' \in {"ok", last}
        /\ pc' # "idle" => as # <<>>
    BY <1>1 DEF Realize, Begin, Everywhere
  <2>2. as \in Seq(Assignment) /\ Everywhere \in Seq(Former)
    BY AssignmentsAssumption, EverywhereType
  <2>3. Len(as) \in Nat /\ Len(Everywhere) \in Nat
    BY <2>2, LenProperties
  <2>4. j' \in 1..(Len(sweep') + 1) /\ calls' \in 0..MaxCalls
    BY <1>0, <2>1, <2>3, CallsAssumption DEF TypeOK
  <2>5. pc' # "idle" => k' <= Len(assigns')
    <3> SUFFICES ASSUME pc' # "idle" PROVE k' <= Len(assigns')
      OBVIOUS
    <3>1. as # <<>>
      BY <2>1
    <3>2. k' = 1 /\ assigns' = as
      BY <2>1
    <3>3. 1 <= Len(as)
      BY <2>2, <3>1, NonEmptyLen
    <3>4. k' <= Len(as)
      BY <3>2, <3>3
    <3> QED BY <3>2, <3>4
  <2>6. pc' \in {"idle", "sweep", "withdraw", "advertise"} /\ last' \in {"none", "ok", "failed"}
    BY <1>0, <2>1 DEF TypeOK
  <2>7. settledAt' \in BOOLEAN
    BY <1>1 DEF Realize
  <2>8. k' \in Nat \ {0}
    BY <2>1
  <2>9. /\ op' \in {"none", Realized, "home_client", "set_subnet_advertised"}
        /\ defined' \in [Appliances -> SUBSET Clients]
        /\ entry' \in [Appliances -> [Subnets -> Entry]]
        /\ assigns' \in Seq(Assignment) /\ sweep' \in Seq(Former)
    BY <1>0, <2>1, <2>2 DEF TypeOK
  <2> QED BY <2>4, <2>5, <2>6, <2>7, <2>8, <2>9 DEF TypeOK
<1>2. ASSUME NEW c \in Clients, NEW t \in Appliances,
             NEW p \in Appliances \cup {None}, NEW q \in Appliances \cup {None},
             HomeClient(c, t, p, q)
      PROVE  TypeOK'
  <2>1. /\ calls < MaxCalls /\ calls' = calls + 1 /\ op' = "home_client"
        /\ k' = 1 /\ j' = 1 /\ UNCHANGED <<defined, entry, last>>
        /\ settledAt' \in BOOLEAN /\ pc' = "sweep"
        /\ assigns' = <<[client |-> c, target |-> t]>>
        /\ sweep' = <<[lan |-> p, vpn |-> q]>>
    BY <1>2 DEF HomeClient, Begin
  <2>2. [client |-> c, target |-> t] \in Assignment
    BY DEF Assignment
  <2>3. assigns' \in Seq(Assignment) /\ Len(assigns') = 1
    BY <2>1, <2>2
  <2>4. sweep' \in Seq(Former) /\ Len(sweep') \in Nat
    <3>1. [lan |-> p, vpn |-> q] \in Former
      BY DEF Former
    <3> QED BY <2>1, <3>1
  <2>5. j' \in 1..(Len(sweep') + 1) /\ calls' \in 0..MaxCalls
    BY <1>0, <2>1, <2>4, CallsAssumption DEF TypeOK
  <2> QED BY <1>0, <2>1, <2>3, <2>4, <2>5 DEF TypeOK
<1>3. ASSUME NEW a \in Appliances, NEW s \in Subnets, NEW advertise \in BOOLEAN,
             SetSubnetAdvertised(a, s, advertise)
      PROVE  TypeOK'
  <2>1. entry' \in [Appliances -> [Subnets -> Entry]]
    BY <1>0, <1>3 DEF SetSubnetAdvertised, Flip, Entry, TypeOK
  <2>2. /\ calls < MaxCalls /\ calls' = calls + 1 /\ op' = "set_subnet_advertised"
        /\ k' = 1 /\ j' = 1 /\ UNCHANGED <<defined, pc>> /\ pc = "idle"
        /\ settledAt' \in BOOLEAN /\ last' = "ok" /\ assigns' = <<>> /\ sweep' = <<>>
    BY <1>3 DEF SetSubnetAdvertised
  <2>3. assigns' \in Seq(Assignment) /\ sweep' \in Seq(Former) /\ Len(sweep') = 0
    BY <2>2, EmptySeq
  <2>4. j' \in 1..(Len(sweep') + 1) /\ calls' \in 0..MaxCalls
    BY <1>0, <2>2, <2>3, CallsAssumption DEF TypeOK
  <2> QED BY <1>0, <2>1, <2>2, <2>3, <2>4 DEF TypeOK
<1>4. CASE SkipTarget
  BY <1>0, <1>4 DEF SkipTarget, call, TypeOK
<1>10. CASE NoPrevious
  BY <1>0, <1>10 DEF NoPrevious, call, TypeOK
<1>5. CASE Delete
  <2>1. Effect \/ UNCHANGED <<defined, entry>>
    BY <1>5 DEF Delete, Raises, Effect
  <2> QED BY <1>0, <1>5, <2>1, EffectType DEF Delete, Goes, Raises, call, TypeOK
<1>6. CASE Withdraw
  <2>1. Effect \/ UNCHANGED <<defined, entry>>
    BY <1>6 DEF Withdraw, Raises, Effect, HomeInv, SweepInv
  <2>2. j <= Len(sweep)
    BY <1>6 DEF Withdraw, HomeInv, SweepInv
  <2> QED
    BY <1>0, <1>6, <2>1, <2>2, EffectType DEF Withdraw, Goes, Raises, call, TypeOK
<1>7. CASE Define
  <2>1. Effect \/ UNCHANGED <<defined, entry>>
    BY <1>0, <1>7 DEF Define, Raises, Effect
  <2> QED BY <1>0, <1>7, <2>1, EffectType DEF Define, Goes, Raises, call, TypeOK
<1>8. CASE Advertise
  <2>1. Effect \/ UNCHANGED <<defined, entry>>
    BY <1>8 DEF Advertise, Raises, Effect
  <2> QED
    BY <1>0, <1>8, <2>1, EffectType DEF Advertise, Advance, Raises, call, TypeOK
<1>9. CASE UNCHANGED vars
  BY <1>0, <1>9 DEF vars, TypeOK
<1> QED
  BY <1>1, <1>2, <1>3, <1>4, <1>5, <1>6, <1>7, <1>8, <1>9, <1>10 DEF Next, Calls, Finished
-----------------------------------------------------------------------------
(* The sweep.                                                              *)

LEMMA HomeInvInit == Init => HomeInv
<1> SUFFICES ASSUME Init PROVE HomeInv
  OBVIOUS
<1>1. pc = "idle"
  BY DEF Init
<1> QED BY <1>1, TypeInit DEF HomeInv, CallInv, SweepInv

\* The call's own arguments do not change while it runs.
LEMMA CallInvStep == HomeInv /\ [Next]_vars => CallInv'
<1> SUFFICES ASSUME HomeInv, [Next]_vars PROVE CallInv'
  OBVIOUS
<1>1. ASSUME NEW as \in Assignments, Realize(as) PROVE CallInv'
  BY <1>1 DEF Realize, Begin, CallInv, Realized, Everywhere
<1>2. ASSUME NEW c \in Clients, NEW t \in Appliances,
             NEW p \in Appliances \cup {None}, NEW q \in Appliances \cup {None},
             HomeClient(c, t, p, q)
      PROVE  CallInv'
  <2>1. op' = "home_client" /\ Len(assigns') = 1
    BY <1>2 DEF HomeClient, Begin
  <2> QED BY <2>1 DEF CallInv, Realized
<1>3. ASSUME NEW a \in Appliances, NEW s \in Subnets, NEW advertise \in BOOLEAN,
             SetSubnetAdvertised(a, s, advertise)
      PROVE  CallInv'
  BY <1>3 DEF SetSubnetAdvertised, CallInv
<1>4. CASE (pc # "idle" /\ UNCHANGED <<op, assigns, sweep>>) \/ UNCHANGED vars
  BY <1>4 DEF CallInv, HomeInv, vars
<1>5. ASSUME SkipTarget \/ NoPrevious \/ Delete \/ Withdraw \/ Define \/ Advertise
      PROVE  pc # "idle" /\ UNCHANGED <<op, assigns, sweep>>
  BY <1>5 DEF SkipTarget, NoPrevious, Delete, Withdraw, Define, Advertise, call
<1> QED BY <1>1, <1>2, <1>3, <1>4, <1>5 DEF Next, Calls, Finished

\* Whoever holds a trace is still ahead of the sweep; the target holds the rest.
LEMMA SweepInvStep == HomeInv /\ [Next]_vars => SweepInv'
<1> SUFFICES ASSUME HomeInv, [Next]_vars PROVE SweepInv'
  OBVIOUS
<1>0. TypeOK /\ Len(sweep) \in Nat /\ \A n \in 1..Len(sweep) : sweep[n] \in Former
  BY SweepType DEF HomeInv
<1>00. TypeOK'
  BY TypeStep
<1>1. ASSUME NEW as \in Assignments, Realize(as) PROVE SweepInv'
  <2>1. pc' \in {"idle", "sweep"} /\ j' = 1 /\ sweep' = Everywhere
    BY <1>1 DEF Realize, Begin, Everywhere
  <2>2. \A a \in Appliances :
            \E n \in j'..Len(sweep') : sweep'[n].lan = a /\ sweep'[n].vpn = a
    BY <2>1, EverywhereType
  <2> QED BY <2>1, <2>2 DEF SweepInv, Ahead
<1>2. ASSUME NEW c \in Clients, NEW t \in Appliances,
             NEW p \in Appliances \cup {None}, NEW q \in Appliances \cup {None},
             HomeClient(c, t, p, q)
      PROVE  SweepInv'
  <2>1. /\ pc' = "sweep" /\ j' = 1 /\ k' = 1 /\ UNCHANGED <<defined, entry>>
        /\ assigns' = <<[client |-> c, target |-> t]>>
        /\ Definers(c) \ {t} \subseteq {p} /\ Holders(c) \ {t} \subseteq {q}
        /\ sweep' = <<[lan |-> p, vpn |-> q]>>
    BY <1>2 DEF HomeClient, Begin
  <2>2. Client' = c /\ Target' = t /\ Ahead' = 1
    BY <2>1 DEF Client, Target, Ahead
  <2>3. Len(sweep') = 1 /\ sweep'[1].lan = p /\ sweep'[1].vpn = q
    BY <2>1
  <2>4. Definers(c)' = Definers(c) /\ Holders(c)' = Holders(c)
    BY <2>1 DEF Definers, Holders
  <2>5. Definers(Client)' = Definers(c) /\ Holders(Client)' = Holders(c)
    BY <2>2, <2>4 DEF Definers, Holders
  <2>6. ASSUME NEW a \in Appliances \ {t}
        PROVE  /\ a \in Definers(c) => \E n \in 1..Len(sweep') : sweep'[n].lan = a
               /\ a \in Holders(c) => \E n \in 1..Len(sweep') : sweep'[n].vpn = a
    BY <2>1, <2>3
  <2> QED BY <2>1, <2>2, <2>5, <2>6 DEF SweepInv
<1>3. ASSUME NEW a \in Appliances, NEW s \in Subnets, NEW advertise \in BOOLEAN,
             SetSubnetAdvertised(a, s, advertise)
      PROVE  SweepInv'
  BY <1>3 DEF SetSubnetAdvertised, SweepInv
<1>4. ASSUME pc' = "idle" PROVE SweepInv'
  BY <1>4 DEF SweepInv
<1>5. CASE UNCHANGED vars
  BY <1>5 DEF vars, SweepInv, HomeInv, Client, Target, Ahead, Traces, Definers, Holders
<1>6. ASSUME UNCHANGED <<defined, entry, k, assigns>>
      PROVE  /\ Client' = Client /\ Target' = Target
             /\ Definers(Client)' = Definers(Client) /\ Holders(Client)' = Holders(Client)
  BY <1>6 DEF Client, Target, Definers, Holders
<1>7. CASE SkipTarget
  <2>1. /\ pc = "sweep" /\ j \in 1..Len(sweep) /\ j' = j + 1 /\ op = Realized
        /\ sweep[j].lan = Target /\ UNCHANGED <<defined, entry, pc, k, assigns, sweep>>
    BY <1>0, <1>7 DEF SkipTarget, call, TypeOK
  <2>2. sweep[j].vpn = Target
    BY <2>1, EverywhereType DEF HomeInv, CallInv
  <2>3. ASSUME NEW a \in Appliances \ {Target}
        PROVE  /\ a \in Definers(Client) => \E n \in j'..Len(sweep) : sweep[n].lan = a
               /\ a \in Holders(Client) => \E n \in j'..Len(sweep) : sweep[n].vpn = a
    <3>1. /\ a \in Definers(Client) => \E n \in j..Len(sweep) : sweep[n].lan = a
          /\ a \in Holders(Client) => \E n \in j..Len(sweep) : sweep[n].vpn = a
      BY <2>1 DEF HomeInv, SweepInv, Ahead
    <3>2. \A n \in j..Len(sweep) : n # j => n \in j'..Len(sweep)
      BY <1>0, <2>1
    <3> QED BY <2>1, <2>2, <3>1, <3>2
  <2> QED BY <1>6, <2>1, <2>3 DEF SweepInv, Ahead
<1>14. CASE NoPrevious
  <2>1. CASE pc = "sweep" /\ sweep[j].lan = None /\ pc' = "withdraw" /\ j' = j
    <3>1. j \in 1..Len(sweep) /\ UNCHANGED <<defined, entry, k, op, assigns, sweep>>
      BY <1>0, <1>14 DEF NoPrevious, call, TypeOK
    <3>2. ASSUME op = Realized PROVE FALSE
      <4>1. List[j] \in Appliances /\ sweep[j].lan = List[j]
        BY <2>1, <3>1, <3>2, EverywhereType, ListAssumption DEF HomeInv, CallInv
      <4> QED BY <2>1, <4>1, NoneAssumption
    <3>3. ASSUME NEW a \in Appliances \ {Target}
          PROVE  /\ a \in Definers(Client) => \E n \in (j + 1)..Len(sweep) : sweep[n].lan = a
                 /\ a \in Holders(Client) => \E n \in j..Len(sweep) : sweep[n].vpn = a
      <4>1. /\ a \in Definers(Client) => \E n \in j..Len(sweep) : sweep[n].lan = a
            /\ a \in Holders(Client) => \E n \in j..Len(sweep) : sweep[n].vpn = a
        BY <2>1 DEF HomeInv, SweepInv, Ahead
      <4>2. \A n \in j..Len(sweep) : n # j => n \in (j + 1)..Len(sweep)
        BY <1>0, <3>1
      <4>3. a # None
        BY NoneAssumption
      <4> QED BY <2>1, <4>1, <4>2, <4>3
    <3> QED BY <1>6, <2>1, <3>1, <3>2, <3>3 DEF SweepInv, Ahead
  <2>2. CASE pc = "withdraw" /\ sweep[j].vpn = None /\ pc' = "sweep" /\ j' = j + 1
    <3>1. j \in 1..Len(sweep) /\ UNCHANGED <<defined, entry, k, op, assigns, sweep>>
      BY <1>0, <1>14 DEF NoPrevious, call, TypeOK
    <3>2. ASSUME NEW a \in Appliances \ {Target}
          PROVE  /\ a \in Definers(Client) => \E n \in j'..Len(sweep) : sweep[n].lan = a
                 /\ a \in Holders(Client) => \E n \in j'..Len(sweep) : sweep[n].vpn = a
      <4>1. /\ a \in Definers(Client) => \E n \in j'..Len(sweep) : sweep[n].lan = a
            /\ a \in Holders(Client) => \E n \in j..Len(sweep) : sweep[n].vpn = a
        BY <2>2 DEF HomeInv, SweepInv, Ahead
      <4>2. \A n \in j..Len(sweep) : n # j => n \in j'..Len(sweep)
        BY <1>0, <2>2, <3>1
      <4>3. a # None
        BY NoneAssumption
      <4> QED BY <2>2, <4>1, <4>2, <4>3
    <3> QED BY <1>6, <2>2, <3>1, <3>2 DEF SweepInv, Ahead
  <2> QED BY <1>14, <2>1, <2>2 DEF NoPrevious
<1>8. ASSUME UNCHANGED <<k, assigns, sweep>>
      PROVE  Client' = Client /\ Target' = Target
  BY <1>8 DEF Client, Target
<1>9. ASSUME pc # "idle" PROVE Client \in Clients /\ Client \in Subnets /\ Target \in Appliances
  BY <1>0, <1>9, CurrentType
<1>10. CASE Delete
  <2>1. CASE DeleteVlan /\ Swept /\ pc = "sweep" /\ pc' = "withdraw"
             /\ sweep[j].lan # None /\ UNCHANGED <<k, j, op, assigns, sweep>>
    <3>1. j \in 1..Len(sweep) /\ sweep[j].lan \in Appliances
      BY <1>0, <2>1 DEF Swept, TypeOK, Former
    <3>2. /\ \A a \in Appliances : defined'[a] \subseteq defined[a]
          /\ Client \notin defined'[sweep[j].lan] /\ entry' = entry
      BY <1>0, <2>1, <3>1 DEF DeleteVlan, TypeOK
    <3>3. /\ Client' = Client /\ Target' = Target
          /\ Definers(Client)' \subseteq Definers(Client) \ {sweep[j].lan}
          /\ Holders(Client)' = Holders(Client)
      BY <1>8, <2>1, <3>2 DEF Definers, Holders
    <3>4. ASSUME op = Realized PROVE sweep[j].vpn # Target
      BY <2>1, <3>1, <3>4, EverywhereType DEF HomeInv, CallInv, Swept
    <3>5. ASSUME NEW a \in Appliances \ {Target}
          PROVE  /\ a \in Definers(Client)' => \E n \in (j + 1)..Len(sweep) : sweep[n].lan = a
                 /\ a \in Holders(Client)' => \E n \in j..Len(sweep) : sweep[n].vpn = a
      <4>1. /\ a \in Definers(Client) => \E n \in j..Len(sweep) : sweep[n].lan = a
            /\ a \in Holders(Client) => \E n \in j..Len(sweep) : sweep[n].vpn = a
        BY <2>1 DEF HomeInv, SweepInv, Ahead
      <4>2. \A n \in j..Len(sweep) : n # j => n \in (j + 1)..Len(sweep)
        BY <1>0, <3>1
      <4> QED BY <3>3, <4>1, <4>2
    <3> QED BY <2>1, <3>1, <3>3, <3>4, <3>5 DEF SweepInv, Ahead
  <2> QED BY <1>4, <1>10, <2>1 DEF Delete, Goes, Raises, call
<1>11. CASE Withdraw
  <2>1. CASE DropEntry /\ pc = "withdraw" /\ pc' = "sweep" /\ j' = j + 1
             /\ sweep[j].vpn # None /\ UNCHANGED <<k, assigns, sweep>>
    <3>1. j \in 1..Len(sweep) /\ sweep[j].vpn \in Appliances /\ Client \in Subnets
      BY <1>0, <1>9, <2>1 DEF HomeInv, SweepInv, TypeOK, Former
    <3>2. /\ entry'[sweep[j].vpn][Client] = "absent" /\ defined' = defined
          /\ \A a \in Appliances : a # sweep[j].vpn => entry'[a] = entry[a]
      BY <1>0, <2>1, <3>1 DEF DropEntry, TypeOK
    <3>3. /\ Client' = Client /\ Target' = Target
          /\ Holders(Client)' \subseteq Holders(Client) \ {sweep[j].vpn}
          /\ Definers(Client)' = Definers(Client)
      BY <1>8, <2>1, <3>2 DEF Definers, Holders
    <3>4. ASSUME NEW a \in Appliances \ {Target}
          PROVE  /\ a \in Definers(Client)' => \E n \in j'..Len(sweep) : sweep[n].lan = a
                 /\ a \in Holders(Client)' => \E n \in j'..Len(sweep) : sweep[n].vpn = a
      <4>1. /\ a \in Definers(Client) => \E n \in j'..Len(sweep) : sweep[n].lan = a
            /\ a \in Holders(Client) => \E n \in j..Len(sweep) : sweep[n].vpn = a
        BY <2>1 DEF HomeInv, SweepInv, Ahead
      <4>2. \A n \in j..Len(sweep) : n # j => n \in j'..Len(sweep)
        BY <1>0, <2>1, <3>1
      <4> QED BY <3>3, <4>1, <4>2
    <3> QED BY <2>1, <3>3, <3>4 DEF SweepInv, Ahead
  <2> QED BY <1>4, <1>11, <2>1 DEF Withdraw, Goes, Raises, call
<1>12. CASE Define
  <2>1. CASE SetVlan /\ pc = "sweep" /\ j > Len(sweep) /\ pc' = "advertise"
             /\ UNCHANGED <<k, assigns, sweep>>
    <3>1. \A a \in Appliances \ {Target} : a \notin Traces(Client)
      BY <1>0, <2>1 DEF HomeInv, SweepInv, TypeOK, Traces, Ahead
    <3>2. /\ Client \in defined'[Target] /\ entry' = entry
          /\ \A a \in Appliances \ {Target} : defined'[a] = defined[a]
      BY <1>0, <1>9, <2>1 DEF SetVlan, TypeOK
    <3>3. Client' = Client /\ Target' = Target
      BY <1>8, <2>1
    <3>4. ASSUME NEW a, (a \in Traces(Client))' PROVE a = Target
      BY <3>1, <3>2, <3>3, <3>4 DEF Traces, Definers, Holders
    <3> QED BY <2>1, <3>2, <3>3, <3>4 DEF SweepInv
  <2> QED BY <1>4, <1>12, <2>1 DEF Define, Goes, Raises, call
<1>13. CASE Advertise
  <2>1. CASE Advance /\ pc # "idle" /\ UNCHANGED <<op, assigns, sweep>> /\ pc' # "idle"
    <3>1. k < Len(assigns) /\ pc' = "sweep" /\ j' = 1
      BY <2>1 DEF Advance
    <3>2. Len(assigns) # 1
      <4>1. k \in Nat \ {0} /\ Len(assigns) \in Nat
        BY <1>0, LenProperties DEF TypeOK
      <4>2. PICK n, m : n = Len(assigns) /\ m = k
        OBVIOUS
      <4>3. n \in Nat /\ m \in Nat \ {0} /\ m < n
        BY <3>1, <4>1, <4>2
      <4>4. n # 1
        BY <4>3
      <4> QED BY <4>2, <4>4
    <3>3. sweep' = Everywhere
      BY <2>1, <3>2 DEF HomeInv, CallInv
    <3>4. \A a \in Appliances :
              \E n \in j'..Len(sweep') : sweep'[n].lan = a /\ sweep'[n].vpn = a
      BY <3>1, <3>3, EverywhereType
    <3> QED BY <3>1, <3>4 DEF SweepInv, Ahead
  <2> QED BY <1>4, <1>13, <2>1 DEF Advertise, Raises, call
<1> QED
  BY <1>1, <1>2, <1>3, <1>5, <1>7, <1>10, <1>11, <1>12, <1>13, <1>14
     DEF Next, Calls, Finished

LEMMA HomeInvStep == HomeInv /\ [Next]_vars => HomeInv'
  BY TypeStep, CallInvStep, SweepInvStep DEF HomeInv

LEMMA HomeInvCorrect == Spec => []HomeInv
  BY HomeInvInit, HomeInvStep, PTL DEF Spec

\* Every reachable state of every sequence of calls is well typed.
THEOREM TypeCorrect == Spec => []TypeOK
<1>1. HomeInv => TypeOK
  BY DEF HomeInv
<1> QED BY <1>1, HomeInvCorrect, PTL
-----------------------------------------------------------------------------
(* The refinement of ClientHome.                                           *)

\* The abstract state: who defines each client's VLAN and who advertises it.
Defs == [c \in Clients |-> Definers(c)]
Advs == [c \in Clients |-> Advertisers(c)]

LEMMA OverlayInit == TypeOK => Overlay!Init
  BY DEF Overlay!Init, TypeOK, Definers, Advertisers

\* A step that changes neither is none of the overlay's business.
LEMMA OverlayStutter ==
    ASSUME \A c \in Clients : Definers(c)' = Definers(c) /\ Advertisers(c)' = Advertisers(c)
    PROVE  UNCHANGED Overlay!vars
<1>1. Defs' = Defs /\ Advs' = Advs
  BY DEF Defs, Advs
<1> QED BY <1>1 DEF Overlay!vars, Defs, Advs

LEMMA OverlayDelete ==
    ASSUME TypeOK, pc # "idle", sweep[j].lan \in Appliances, DeleteVlan
    PROVE  Overlay!Undefine(Client, sweep[j].lan)
<1>1. Client \in Clients
  BY CurrentType
<1>2. ASSUME NEW c \in Clients
      PROVE  /\ Definers(c)' = IF c = Client THEN Definers(c) \ {sweep[j].lan} ELSE Definers(c)
             /\ Advertisers(c)' = Advertisers(c)
  BY <1>1 DEF DeleteVlan, TypeOK, Definers, Advertisers
<1>3. Defs' = [Defs EXCEPT ![Client] = @ \ {sweep[j].lan}] /\ Advs' = Advs
  BY <1>1, <1>2 DEF Defs, Advs
<1> QED BY <1>3 DEF Overlay!Undefine, Defs, Advs

LEMMA OverlayWithdraw ==
    ASSUME TypeOK, pc # "idle", sweep[j].vpn \in Appliances, DropEntry
    PROVE  Overlay!Withdraw(Client, sweep[j].vpn)
<1>1. Client \in Clients /\ Client \in Subnets
  BY CurrentType
<1>2. ASSUME NEW c \in Clients
      PROVE  /\ Advertisers(c)' =
                    IF c = Client THEN Advertisers(c) \ {sweep[j].vpn} ELSE Advertisers(c)
             /\ Definers(c)' = Definers(c)
  BY <1>1 DEF DropEntry, TypeOK, Definers, Advertisers, Subnets
<1>3. Advs' = [Advs EXCEPT ![Client] = @ \ {sweep[j].vpn}] /\ Defs' = Defs
  BY <1>1, <1>2 DEF Defs, Advs
<1> QED BY <1>3 DEF Overlay!Withdraw, Defs, Advs

LEMMA OverlayDefine ==
    ASSUME TypeOK, pc # "idle", Traces(Client) \subseteq {Target}, SetVlan
    PROVE  Overlay!Define(Client, Target)
<1>1. Client \in Clients /\ Target \in Appliances
  BY CurrentType
<1>2. ASSUME NEW c \in Clients
      PROVE  /\ Definers(c)' = IF c = Client THEN {Target} ELSE Definers(c)
             /\ Advertisers(c)' = Advertisers(c)
  BY <1>1 DEF SetVlan, TypeOK, Definers, Advertisers, Traces, Holders
<1>3. Defs' = [Defs EXCEPT ![Client] = {Target}] /\ Advs' = Advs
  BY <1>1, <1>2 DEF Defs, Advs
<1>4. Definers(Client) \subseteq {Target} /\ Advertisers(Client) \subseteq {Target}
  BY DEF Traces, Holders, Advertisers
<1> QED BY <1>1, <1>3, <1>4 DEF Overlay!Define, Defs, Advs

LEMMA OverlayAdvertise ==
    ASSUME TypeOK, pc # "idle", Traces(Client) \subseteq {Target},
           Client \in defined[Target], AddEntry
    PROVE  Overlay!Advertise(Client, Target)
<1>1. Client \in Clients /\ Target \in Appliances /\ Client \in Subnets
  BY CurrentType
<1>2. ASSUME NEW c \in Clients
      PROVE  /\ Advertisers(c)' = IF c = Client THEN {Target} ELSE Advertisers(c)
             /\ Definers(c)' = Definers(c)
  BY <1>1 DEF AddEntry, TypeOK, Definers, Advertisers, Traces, Holders, Subnets
<1>3. Advs' = [Advs EXCEPT ![Client] = {Target}] /\ Defs' = Defs
  BY <1>1, <1>2 DEF Defs, Advs
<1>4. Definers(Client) = {Target} /\ Advertisers(Client) \subseteq {Target}
  BY <1>1 DEF Traces, Definers, Holders, Advertisers
<1> QED BY <1>1, <1>3, <1>4 DEF Overlay!Advertise, Defs, Advs

LEMMA OverlayFlip ==
    ASSUME TypeOK, NEW a \in Appliances, NEW s \in Clients, NEW advertise \in BOOLEAN,
           SetSubnetAdvertised(a, s, advertise)
    PROVE  Overlay!Advertise(s, a) \/ Overlay!Withdraw(s, a)
<1>1. /\ entry' = [entry EXCEPT ![a][s] = Flip(entry[a][s], advertise)] /\ defined' = defined
      /\ Definers(s) = {a} /\ Advertisers(s) \subseteq {a} /\ s \in Subnets
  BY DEF SetSubnetAdvertised, Subnets
<1>2. ASSUME NEW c \in Clients, c # s
      PROVE  Definers(c)' = Definers(c) /\ Advertisers(c)' = Advertisers(c)
  BY <1>1, <1>2 DEF TypeOK, Definers, Advertisers, Subnets
<1>3. Definers(s)' = Definers(s)
  BY <1>1 DEF Definers
<1>4. /\ entry'[a][s] = Flip(entry[a][s], advertise)
      /\ \A b \in Appliances \ {a} : entry'[b] = entry[b]
  BY <1>1 DEF TypeOK
<1>5. CASE advertise
  <2>1. entry'[a][s] = "on"
    BY <1>4, <1>5 DEF Flip
  <2>2. Advertisers(s)' = {a}
    BY <1>1, <1>4, <2>1 DEF Advertisers
  <2>3. Advs' = [Advs EXCEPT ![s] = {a}] /\ Defs' = Defs
    BY <1>2, <1>3, <2>2 DEF Defs, Advs
  <2> QED BY <1>1, <2>3 DEF Overlay!Advertise, Defs, Advs
<1>6. CASE ~advertise
  <2>1. entry'[a][s] # "on"
    BY <1>4, <1>6 DEF Flip
  <2>2. Advertisers(s)' = Advertisers(s) \ {a}
    BY <1>4, <2>1 DEF Advertisers
  <2>3. Advs' = [Advs EXCEPT ![s] = @ \ {a}] /\ Defs' = Defs
    BY <1>2, <1>3, <2>2 DEF Defs, Advs
  <2> QED BY <2>3 DEF Overlay!Withdraw, Defs, Advs
<1> QED BY <1>5, <1>6

LEMMA OverlayStep == HomeInv /\ [Next]_vars => [Overlay!Next]_(Overlay!vars)
<1> SUFFICES ASSUME HomeInv, [Next]_vars PROVE Overlay!Next \/ UNCHANGED Overlay!vars
  OBVIOUS
<1>0. TypeOK
  BY DEF HomeInv
<1>1. ASSUME UNCHANGED <<defined, entry>> PROVE UNCHANGED Overlay!vars
  <2>1. \A c \in Clients : Definers(c)' = Definers(c) /\ Advertisers(c)' = Advertisers(c)
    BY <1>1 DEF Definers, Advertisers
  <2> QED BY <2>1, OverlayStutter
<1>2. ASSUME pc # "idle" PROVE Client \in Clients /\ Target \in Appliances
  BY <1>0, <1>2, CurrentType
<1>3. CASE UNCHANGED <<defined, entry>>
  BY <1>1, <1>3
<1>4. CASE \E a \in Appliances, s \in Subnets, advertise \in BOOLEAN :
              SetSubnetAdvertised(a, s, advertise)
  <2>1. PICK a \in Appliances, s \in Subnets, advertise \in BOOLEAN :
            SetSubnetAdvertised(a, s, advertise)
    BY <1>4
  <2>2. CASE s \in Clients
    BY <1>0, <2>1, <2>2, OverlayFlip DEF Overlay!Next
  <2>3. CASE s \notin Clients
    <3>1. \A c \in Clients : Definers(c)' = Definers(c) /\ Advertisers(c)' = Advertisers(c)
      BY <1>0, <2>1, <2>3 DEF SetSubnetAdvertised, TypeOK, Definers, Advertisers, Subnets
    <3> QED BY <3>1, OverlayStutter
  <2> QED BY <2>2, <2>3
<1>5. CASE Delete /\ ~UNCHANGED <<defined, entry>>
  <2>1. DeleteVlan /\ pc # "idle" /\ j \in 1..Len(sweep) /\ sweep[j].lan # None
    BY <1>0, <1>5 DEF Delete, Raises, Swept, TypeOK
  <2>2. sweep[j].lan \in Appliances
    BY <1>0, <2>1, SweepType DEF Former
  <2> QED BY <1>0, <1>2, <2>1, <2>2, OverlayDelete DEF Overlay!Next
<1>6. CASE Withdraw /\ ~UNCHANGED <<defined, entry>>
  <2>1. DropEntry /\ pc # "idle" /\ j \in 1..Len(sweep) /\ sweep[j].vpn # None
    BY <1>0, <1>6 DEF Withdraw, Raises, HomeInv, SweepInv, TypeOK
  <2>2. sweep[j].vpn \in Appliances
    BY <1>0, <2>1, SweepType DEF Former
  <2> QED BY <1>0, <1>2, <2>1, <2>2, OverlayWithdraw DEF Overlay!Next
<1>7. CASE Define /\ ~UNCHANGED <<defined, entry>>
  <2>1. SetVlan /\ pc = "sweep" /\ j > Len(sweep)
    BY <1>7 DEF Define, Raises
  <2>2. \A a \in Appliances \ {Target} : a \notin Traces(Client)
    BY <1>0, <2>1, SweepType DEF HomeInv, SweepInv, TypeOK, Traces, Ahead
  <2>3. Traces(Client) \subseteq {Target}
    BY <2>2 DEF Traces, Definers, Holders
  <2> QED BY <1>0, <1>2, <2>1, <2>3, OverlayDefine DEF Overlay!Next
<1>8. CASE Advertise /\ ~UNCHANGED <<defined, entry>>
  <2>1. AddEntry /\ pc = "advertise"
    BY <1>8 DEF Advertise, Raises
  <2>2. Traces(Client) \subseteq {Target} /\ Client \in defined[Target]
    BY <2>1 DEF HomeInv, SweepInv
  <2> QED BY <1>0, <1>2, <2>1, <2>2, OverlayAdvertise DEF Overlay!Next
<1>9. ASSUME NEW as \in Assignments, Realize(as) PROVE UNCHANGED <<defined, entry>>
  BY <1>9 DEF Realize, Begin
<1>10. ASSUME NEW c \in Clients, NEW t \in Appliances,
              NEW p \in Appliances \cup {None}, NEW q \in Appliances \cup {None},
              HomeClient(c, t, p, q)
       PROVE  UNCHANGED <<defined, entry>>
  BY <1>10 DEF HomeClient, Begin
<1>11. SkipTarget \/ NoPrevious \/ UNCHANGED vars => UNCHANGED <<defined, entry>>
  BY DEF SkipTarget, NoPrevious, vars
<1> QED
  BY <1>3, <1>4, <1>5, <1>6, <1>7, <1>8, <1>9, <1>10, <1>11 DEF Next, Calls, Finished

\* Whatever fails, and in whatever order calls follow one another, no step gives
\* a client a second home and no subnet attracts traffic to where it is not.
THEOREM ImplementsClientHomeCorrect == Spec => ImplementsClientHome
<1>1. Init => Overlay!Init
  BY TypeInit, OverlayInit
<1> QED BY <1>1, OverlayStep, HomeInvCorrect, PTL DEF Spec, ImplementsClientHome, Overlay!Spec
-----------------------------------------------------------------------------
(* What a realize that returns has repaired.                               *)

\* Every assignment already handled, and not to be overridden, is in place.
DoneInv ==
    /\ pc # "idle" /\ op = Realized =>
          \A m \in Final(assigns) : m < k => SettledOn(assigns[m].client, assigns[m].target)
    /\ RealizeSettles

\* An operation of the call touches only the client it is for.
LEMMA OthersUntouched ==
    ASSUME TypeOK, pc # "idle", Effect \/ UNCHANGED <<defined, entry>>,
           NEW c \in Clients, c # Client, NEW t, SettledOn(c, t)
    PROVE  SettledOn(c, t)'
<1>1. Client \in Clients /\ Target \in Appliances /\ Client \in Subnets /\ c \in Subnets
  BY CurrentType DEF Subnets
<1>2. ASSUME NEW a \in Appliances
      PROVE  (c \in defined'[a] <=> c \in defined[a]) /\ entry'[a][c] = entry[a][c]
  <2>1. CASE DeleteVlan
    BY <1>1, <2>1 DEF DeleteVlan, TypeOK
  <2>2. CASE DropEntry
    BY <1>1, <2>2 DEF DropEntry, TypeOK
  <2>3. CASE SetVlan
    BY <1>1, <2>3 DEF SetVlan, TypeOK
  <2>4. CASE AddEntry
    BY <1>1, <2>4 DEF AddEntry, TypeOK
  <2>5. CASE UNCHANGED <<defined, entry>>
    BY <2>5
  <2> QED BY <2>1, <2>2, <2>3, <2>4, <2>5 DEF Effect
<1>3. Definers(c)' = Definers(c)
  BY <1>2 DEF Definers
<1> QED BY <1>2, <1>3 DEF SettledOn

\* The last operation of an assignment puts it in place.
LEMMA AdvertiseSettles ==
    ASSUME HomeInv, pc = "advertise", AddEntry, NEW c, NEW t, c = Client, t = Target
    PROVE  SettledOn(c, t)'
<1>1. /\ c \in Clients /\ t \in Appliances /\ c \in Subnets
      /\ Traces(c) \subseteq {t} /\ c \in defined[t] /\ defined' = defined
  BY CurrentType DEF HomeInv, SweepInv, AddEntry, Traces, Definers
<1>2. /\ entry'[t][c] = "on"
      /\ \A a \in Appliances \ {t} : entry'[a] = entry[a]
  BY <1>1 DEF AddEntry, HomeInv, TypeOK
<1>3. \A a \in Appliances \ {t} : entry[a][c] = "absent" /\ c \notin defined[a]
  BY <1>1 DEF Traces, Definers, Holders
<1>4. Definers(c)' = {t}
  BY <1>1, <1>3 DEF Definers
<1> QED BY <1>1, <1>2, <1>3, <1>4 DEF SettledOn

\* Finality: no later assignment is for the client of a final one.
LEMMA FinalOthers ==
    ASSUME TypeOK, pc # "idle", NEW m \in Final(assigns), m < k
    PROVE  assigns[m].client # Client /\ assigns[m].client \in Clients
<1>1. k \in (m + 1)..Len(assigns) /\ m \in 1..Len(assigns)
  BY CurrentType DEF Final
<1>2. assigns[m] \in Assignment
  BY <1>1 DEF TypeOK
<1> QED BY <1>1, <1>2 DEF Final, Client, Assignment

\* The handled assignments survive every operation of a later one.
LEMMA HandledStay ==
    ASSUME HomeInv, DoneInv, pc # "idle", op = Realized, UNCHANGED assigns,
           Effect \/ UNCHANGED <<defined, entry>>, NEW m \in Final(assigns), m < k
    PROVE  SettledOn(assigns[m].client, assigns[m].target)'
<1>1. PICK c, t : c = assigns[m].client /\ t = assigns[m].target
  OBVIOUS
<1>2. c # Client /\ c \in Clients
  BY <1>1, FinalOthers DEF HomeInv
<1>3. SettledOn(c, t)
  BY <1>1 DEF DoneInv, SettledOn
<1>4. SettledOn(c, t)'
  BY <1>2, <1>3, OthersUntouched DEF HomeInv
<1> QED BY <1>1, <1>4 DEF SettledOn

LEMMA DoneInvInit == Init => DoneInv
  BY DEF Init, DoneInv, RealizeSettles, Realized

LEMMA DoneInvStep == HomeInv /\ DoneInv /\ [Next]_vars => DoneInv'
<1> SUFFICES ASSUME HomeInv, DoneInv, [Next]_vars PROVE DoneInv'
  OBVIOUS
<1>0. TypeOK
  BY DEF HomeInv
<1>1. ASSUME NEW as \in Assignments, Realize(as) PROVE DoneInv'
  <2>1. CASE pc' = "idle"
    <3>1. Final(assigns') = {}
      <4>1. assigns' = <<>> /\ Len(assigns') = 0
        BY <1>1, <2>1, EmptySeq DEF Realize, Begin
      <4> QED BY <4>1 DEF Final
    <3> QED BY <2>1, <3>1 DEF DoneInv, RealizeSettles, Settled
  <2>2. CASE pc' # "idle"
    <3>1. ASSUME NEW m \in Final(assigns') PROVE ~(m < k')
      <4>1. k' = 1 /\ m \in 1..Len(assigns')
        BY <1>1 DEF Realize, Begin, Final
      <4> QED BY <4>1
    <3> QED BY <2>2, <3>1 DEF DoneInv, RealizeSettles
  <2> QED BY <2>1, <2>2
<1>2. ASSUME op' # Realized PROVE DoneInv'
  BY <1>2 DEF DoneInv, RealizeSettles
<1>3. ASSUME NEW c \in Clients, NEW t \in Appliances,
             NEW p \in Appliances \cup {None}, NEW q \in Appliances \cup {None},
             HomeClient(c, t, p, q)
      PROVE  op' # Realized
  BY <1>3 DEF HomeClient, Begin, Realized
<1>4. ASSUME NEW a \in Appliances, NEW s \in Subnets, NEW advertise \in BOOLEAN,
             SetSubnetAdvertised(a, s, advertise)
      PROVE  op' # Realized
  BY <1>4 DEF SetSubnetAdvertised, Realized
<1>5. ASSUME pc # "idle", Effect \/ UNCHANGED <<defined, entry>>,
             UNCHANGED <<op, assigns>>, op = Realized,
             k' = k, pc' = "idle" => last' = "failed"
      PROVE  DoneInv'
  <2>1. \A m \in Final(assigns) : m < k =>
            SettledOn(assigns[m].client, assigns[m].target)'
    BY <1>5, HandledStay
  <2>2. Final(assigns') = Final(assigns)
    BY <1>5
  <2>3. RealizeSettles'
    BY <1>5 DEF RealizeSettles
  <2> QED BY <1>5, <2>1, <2>2, <2>3 DEF DoneInv
<1>6. CASE SkipTarget
  BY <1>2, <1>5, <1>6 DEF SkipTarget, call
<1>14. CASE NoPrevious
  BY <1>2, <1>5, <1>14 DEF NoPrevious, call
<1>7. CASE Delete
  <2>1. /\ pc # "idle" /\ (Effect \/ UNCHANGED <<defined, entry>>)
        /\ UNCHANGED <<op, assigns>> /\ k' = k /\ (pc' = "idle" => last' = "failed")
    BY <1>7 DEF Delete, Goes, Raises, Effect, call
  <2> QED BY <1>2, <1>5, <2>1
<1>8. CASE Withdraw
  <2>1. /\ pc # "idle" /\ (Effect \/ UNCHANGED <<defined, entry>>)
        /\ UNCHANGED <<op, assigns>> /\ k' = k /\ (pc' = "idle" => last' = "failed")
    BY <1>8 DEF Withdraw, Goes, Raises, Effect, call, HomeInv, SweepInv
  <2> QED BY <1>2, <1>5, <2>1
<1>9. CASE Define
  <2>1. /\ pc # "idle" /\ (Effect \/ UNCHANGED <<defined, entry>>)
        /\ UNCHANGED <<op, assigns>> /\ k' = k /\ (pc' = "idle" => last' = "failed")
    BY <1>9 DEF Define, Goes, Raises, Effect, call
  <2> QED BY <1>2, <1>5, <2>1
<1>10. CASE Advertise /\ pc' = "idle" /\ last' = "failed"
  <2>1. /\ pc # "idle" /\ (Effect \/ UNCHANGED <<defined, entry>>)
        /\ UNCHANGED <<op, assigns>> /\ k' = k
    BY <1>10 DEF Advertise, Advance, Raises, Effect, call
  <2> QED BY <1>2, <1>5, <1>10, <2>1
<1>11. CASE Advertise /\ AddEntry /\ Advance
  <2>1. pc = "advertise" /\ UNCHANGED <<op, assigns>>
    BY <1>11 DEF Advertise, call
  <2>2. CASE op = Realized
    <3>1. ASSUME NEW m \in Final(assigns), m <= k
          PROVE  SettledOn(assigns[m].client, assigns[m].target)'
      <4>1. CASE m < k
        <5>1. Effect
          BY <1>11, <2>1 DEF Effect
        <5> QED BY <2>1, <2>2, <4>1, <5>1, HandledStay
      <4>2. CASE m = k
        <5>1. PICK c, t : c = Client /\ t = Target
          OBVIOUS
        <5>2. SettledOn(c, t)'
          BY <1>11, <2>1, <5>1, AdvertiseSettles
        <5>3. c = assigns'[m].client /\ t = assigns'[m].target
          BY <2>1, <4>2, <5>1 DEF Client, Target
        <5> QED BY <5>2, <5>3 DEF SettledOn
      <4>3. m \in Nat /\ k \in Nat
        BY <1>0 DEF TypeOK, Final
      <4> QED BY <3>1, <4>1, <4>2, <4>3
    <3>2. Final(assigns)' = Final(assigns)
      BY <2>1 DEF Final
    <3>3. \A m \in Final(assigns) : m \in 1..Len(assigns)
      BY DEF Final
    <3>4. k \in 1..Len(assigns) /\ Len(assigns) \in Nat
      BY <1>0, <2>1, CurrentType, LenProperties DEF TypeOK
    <3>5. CASE pc' = "idle"
      <4>1. ~(k < Len(assigns))
        BY <1>11, <3>5 DEF Advance
      <4>2. \A m \in Final(assigns) : m <= k
        BY <3>3, <3>4, <4>1
      <4>3. ASSUME NEW m \in Final(assigns)'
            PROVE  SettledOn(assigns[m].client, assigns[m].target)'
        BY <3>1, <3>2, <4>2
      <4>4. Settled(assigns)'
        BY <4>3 DEF Settled
      <4> QED BY <3>5, <4>4 DEF DoneInv, RealizeSettles
    <3>6. CASE pc' # "idle"
      <4>1. k' = k + 1
        BY <1>11, <3>6 DEF Advance
      <4>2. \A m \in Final(assigns) : m < k' => m <= k
        BY <3>3, <3>4, <4>1
      <4> QED BY <3>1, <3>2, <3>6, <4>2 DEF DoneInv, RealizeSettles
    <3> QED BY <3>5, <3>6
  <2> QED BY <1>2, <2>1, <2>2
<1>12. CASE UNCHANGED vars
  BY <1>12 DEF vars, DoneInv, RealizeSettles, Settled, SettledOn, Definers, Final
<1>13. ASSUME Advertise
       PROVE  (pc' = "idle" /\ last' = "failed") \/ (AddEntry /\ Advance)
  BY <1>13 DEF Advertise, Raises
<1> QED
  BY <1>1, <1>2, <1>3, <1>4, <1>6, <1>7, <1>8, <1>9, <1>10, <1>11, <1>12, <1>13, <1>14
     DEF Next, Calls, Finished

\* A realize that returns leaves every client defined and advertised by its last
\* target alone, whatever earlier calls, failed ones too, had left.
THEOREM RealizeSettlesCorrect == Spec => []RealizeSettles
<1>1. DoneInv => RealizeSettles
  BY DEF DoneInv
<1>2. Init => HomeInv /\ DoneInv
  BY HomeInvInit, DoneInvInit
<1>3. HomeInv /\ DoneInv /\ [Next]_vars => (HomeInv /\ DoneInv)'
  BY HomeInvStep, DoneInvStep
<1> QED BY <1>1, <1>2, <1>3, PTL DEF Spec
-----------------------------------------------------------------------------
(* Re-running a topology that is in place.                                 *)

RerunInv ==
    settledAt /\ pc # "idle" =>
        op = Realized
        /\ \A m \in 1..Len(assigns) : SettledOn(assigns[m].client, assigns[m].target)

LEMMA RerunStill ==
    ASSUME HomeInv, RerunInv, [Next]_vars, settledAt, pc # "idle"
    PROVE  UNCHANGED <<defined, entry>>
<1>0. /\ TypeOK /\ op = Realized /\ SettledOn(Client, Target)
      /\ Client \in Clients /\ Target \in Appliances /\ Client \in Subnets
  BY CurrentType DEF HomeInv, RerunInv, Client, Target
<1>1. /\ Client \in defined[Target] /\ entry[Target][Client] = "on"
      /\ \A a \in Appliances \ {Target} :
            Client \notin defined[a] /\ entry[a][Client] = "absent"
  BY <1>0 DEF SettledOn, Definers
<1>2. CASE DeleteVlan /\ pc = "sweep" /\ Swept /\ sweep[j].lan # None
  <2>1. sweep[j].lan \in Appliances \ {Target}
    BY <1>0, <1>2, SweepType DEF Swept, TypeOK, Former
  <2>2. \A a \in Appliances : defined'[a] = defined[a]
    BY <1>0, <1>1, <1>2, <2>1 DEF DeleteVlan, TypeOK
  <2> QED BY <1>0, <1>2, <2>2 DEF DeleteVlan, TypeOK
<1>3. CASE DropEntry /\ pc = "withdraw" /\ sweep[j].vpn # None
  <2>1. j \in 1..Len(sweep) /\ sweep[j].vpn # Target
    BY <1>0, <1>3 DEF HomeInv, SweepInv, TypeOK
  <2>2. sweep[j].vpn \in Appliances \ {Target}
    BY <1>0, <1>3, <2>1, SweepType DEF Former
  <2>3. \A a \in Appliances : entry'[a] = entry[a]
    BY <1>0, <1>1, <1>3, <2>2 DEF DropEntry, TypeOK
  <2> QED BY <1>0, <1>3, <2>3 DEF DropEntry, TypeOK
<1>4. CASE SetVlan
  <2>1. \A a \in Appliances : defined'[a] = defined[a]
    BY <1>0, <1>1, <1>4 DEF SetVlan, TypeOK
  <2> QED BY <1>0, <1>4, <2>1 DEF SetVlan, TypeOK
<1>5. CASE AddEntry
  <2>1. \A a \in Appliances : entry'[a] = entry[a]
    BY <1>0, <1>1, <1>5 DEF AddEntry, TypeOK
  <2> QED BY <1>0, <1>5, <2>1 DEF AddEntry, TypeOK
<1>6. CASE UNCHANGED <<defined, entry>>
  BY <1>6
<1>7. CASE Delete
  BY <1>2, <1>6, <1>7 DEF Delete, Raises
<1>8. CASE Withdraw
  BY <1>3, <1>6, <1>8 DEF Withdraw, Raises
<1>9. CASE Define
  BY <1>4, <1>6, <1>9 DEF Define, Raises
<1>10. CASE Advertise
  BY <1>5, <1>6, <1>10 DEF Advertise, Raises
<1>11. CASE SkipTarget \/ NoPrevious \/ UNCHANGED vars
  BY <1>6, <1>11 DEF SkipTarget, NoPrevious, vars
<1>12. ~Calls
  <2>1. \A as \in Assignments : ~Realize(as)
    BY DEF Realize, Begin
  <2>2. \A c \in Clients, t \in Appliances, p, q \in Appliances \cup {None} :
            ~HomeClient(c, t, p, q)
    BY DEF HomeClient, Begin
  <2>3. \A a \in Appliances, s \in Subnets, advertise \in BOOLEAN :
            ~SetSubnetAdvertised(a, s, advertise)
    BY DEF SetSubnetAdvertised
  <2> QED BY <2>1, <2>2, <2>3 DEF Calls
<1> QED BY <1>7, <1>8, <1>9, <1>10, <1>11, <1>12 DEF Next, Finished

LEMMA RerunInvStep == HomeInv /\ RerunInv /\ [Next]_vars => RerunInv'
<1> SUFFICES ASSUME HomeInv, RerunInv, [Next]_vars, settledAt', pc' # "idle"
             PROVE  op' = Realized /\ \A m \in 1..Len(assigns') :
                        SettledOn(assigns[m].client, assigns[m].target)'
  BY DEF RerunInv
<1>1. ASSUME UNCHANGED <<defined, entry, op, assigns>>, settledAt, pc # "idle"
      PROVE  op' = Realized /\ \A m \in 1..Len(assigns') :
                        SettledOn(assigns[m].client, assigns[m].target)'
  BY <1>1 DEF RerunInv, SettledOn, Definers
<1>2. CASE SkipTarget \/ NoPrevious \/ Delete \/ Withdraw \/ Define \/ Advertise
  <2>1. pc # "idle" /\ UNCHANGED <<op, assigns>>
    BY <1>2 DEF SkipTarget, NoPrevious, Delete, Withdraw, Define, Advertise, call
  <2>2. settledAt
    BY <1>2 DEF SkipTarget, NoPrevious, Delete, Withdraw, Define, Advertise, call
  <2>3. UNCHANGED <<defined, entry>>
    BY <2>1, <2>2, RerunStill
  <2> QED BY <1>1, <2>1, <2>2, <2>3
<1>3. CASE UNCHANGED vars
  BY <1>1, <1>3 DEF vars
<1>4. ASSUME NEW as \in Assignments, Realize(as)
      PROVE  op' = Realized /\ \A m \in 1..Len(assigns') :
                        SettledOn(assigns[m].client, assigns[m].target)'
  <2>1. Settled(as) /\ Final(as) = 1..Len(as)
    BY <1>4 DEF Realize
  <2>2. op' = Realized /\ assigns' = as /\ UNCHANGED <<defined, entry>>
    BY <1>4 DEF Realize, Begin
  <2>3. \A m \in 1..Len(as) : SettledOn(as[m].client, as[m].target)
    BY <2>1 DEF Settled
  <2> QED BY <2>2, <2>3 DEF SettledOn, Definers
<1>5. ASSUME NEW c \in Clients, NEW t \in Appliances,
             NEW p \in Appliances \cup {None}, NEW q \in Appliances \cup {None},
             HomeClient(c, t, p, q)
      PROVE  FALSE
  BY <1>5 DEF HomeClient
<1>6. ASSUME NEW a \in Appliances, NEW s \in Subnets, NEW advertise \in BOOLEAN,
             SetSubnetAdvertised(a, s, advertise)
      PROVE  FALSE
  BY <1>6 DEF SetSubnetAdvertised
<1> QED BY <1>2, <1>3, <1>4, <1>5, <1>6 DEF Next, Calls, Finished

\* Re-running a topology in place writes nothing that changes it, however the
\* re-run ends.
THEOREM RerunDisturbsNothingCorrect == Spec => RerunDisturbsNothing
<1>1. Init => RerunInv
  BY DEF Init, RerunInv
<1>2. HomeInv /\ RerunInv /\ [Next]_vars
        => [settledAt /\ pc # "idle" => UNCHANGED <<defined, entry>>]_vars
  BY RerunStill
<1> QED
  BY <1>1, <1>2, HomeInvInit, HomeInvStep, RerunInvStep, PTL DEF Spec, RerunDisturbsNothing
=============================================================================
