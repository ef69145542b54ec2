-------------------------- MODULE Carriers_proofs ---------------------------
(***************************************************************************)
(* How an event ends: no run is lost, the run history and the inbox row    *)
(* tell the outcome, and a pause is closed unless its run was stopped.     *)
(* For every workflow whose ids are distinct and whose filters stand in    *)
(* its own chain, any number of workers, deliveries, crashes, retries,     *)
(* parks, operator calls.                                                  *)
(***************************************************************************)
EXTENDS Carriers, RunHistory, Worker_proofs, WellFoundedInduction

-----------------------------------------------------------------------------
(* The chain and what is left of it.                                       *)

LEMMA SpineTyped ==
  /\ Spine \subseteq Steps /\ InnerSteps \subseteq Steps /\ NoStep \notin Spine
  /\ \A f \in Members(Flows) : /\ f \in DOMAIN Chain /\ Chain[f] \in Seq(Steps)
                               /\ Chain[f] \in Chains
                               /\ Members(Chain[f]) \subseteq Spine
  /\ \A k \in DOMAIN Flows : Flows[k] \in Members(Flows)
<1>1. \A f \in Members(Flows) : f \in DOMAIN Chain
  BY ChainsAssumption DEF Members
<1>2. \A f \in Members(Flows) : Chain[f] \in Chains /\ Chain[f] \in Seq(Steps)
  BY <1>1, ChainsTyped
<1>3. \A f \in Members(Flows) : Members(Chain[f]) \subseteq Spine
  BY DEF Spine
<1>4. Spine \subseteq Steps
  BY <1>2 DEF Spine, Members
<1>5. \A s \in Steps : Members(Recovery[s]) \subseteq Steps
  BY ChainsTyped DEF Members
<1>6. \A s \in Steps : Inner(s) \subseteq Steps
  BY ChainsAssumption DEF Inner
<1>7. InnerSteps \subseteq Steps
  BY <1>5, <1>6 DEF InnerSteps
<1>8. \A k \in DOMAIN Flows : Flows[k] \in Members(Flows)
  BY DEF Members
<1>9. QED
  BY <1>1, <1>2, <1>3, <1>4, <1>7, <1>8, ChainsAssumption

LEMMA InnerApart ==
  ASSUME Trees
  PROVE  /\ InnerSteps \cap Spine = {} /\ InnerSteps \cap Stopping = {}
         /\ \A s \in Spine : Root[s] = s
         /\ \A s \in Steps : \A u \in Members(Recovery[s]) \cup Inner(s) :
              u \in InnerSteps /\ Beyond(u) = Beyond(s)
BY DEF Trees, Nested, FiltersOnSpine, InnerSteps, Beyond

(* What is left of a sequence from its n-th element on.                    *)
LEMMA LeftOf ==
  ASSUME NEW S, NEW seq \in Seq(S), NEW n \in Nat, n <= Len(seq)
  PROVE  /\ SubSeq(seq, n + 1, Len(seq)) \in Seq(S)
         /\ Len(SubSeq(seq, n + 1, Len(seq))) = Len(seq) - n
         /\ \A j \in 1 .. Len(seq) - n : SubSeq(seq, n + 1, Len(seq))[j] = seq[n + j]
OBVIOUS

(* What lies behind the first step of a remainder is the rest of it.       *)
LEMMA BehindHead ==
  ASSUME Trees, NEW f \in Members(Flows), NEW n \in 0 .. Len(Chain[f]), NEW steps,
         steps = SubSeq(Chain[f], n + 1, Len(Chain[f])), steps # <<>>
  PROVE  /\ steps \in Seq(Steps) /\ Head(steps) \in Spine
         /\ Beyond(Head(steps)) = Members(Tail(steps))
         /\ n + 1 \in 0 .. Len(Chain[f])
         /\ Tail(steps) = SubSeq(Chain[f], n + 2, Len(Chain[f]))
<1>1. PICK chain : chain = Chain[f]
  OBVIOUS
<1>2. chain \in Seq(Steps) /\ chain \in Chains /\ Members(chain) \subseteq Spine
  BY <1>1, SpineTyped
<1>3. steps = SubSeq(chain, n + 1, Len(chain)) /\ n \in Nat /\ n <= Len(chain) /\ Len(chain) \in Nat
  BY <1>1, <1>2
<1>4. /\ steps \in Seq(Steps) /\ Len(steps) = Len(chain) - n
      /\ \A j \in 1 .. Len(chain) - n : steps[j] = chain[n + j]
  BY <1>2, <1>3, LeftOf
<1>5. Len(steps) # 0
  BY <1>4
<1>6. n < Len(chain) /\ n + 1 \in 1 .. Len(chain)
  BY <1>3, <1>4, <1>5
<1>7. Head(steps) = chain[n + 1] /\ n + 1 \in DOMAIN chain
  <2>1. Head(steps) = steps[1] /\ 1 \in 1 .. Len(chain) - n
    BY <1>3, <1>4, <1>6
  <2>2. steps[1] = chain[n + 1]
    BY <1>4, <2>1
  <2>3. n + 1 \in DOMAIN chain
    BY <1>2, <1>6
  <2>4. QED
    BY <2>1, <2>2, <2>3
<1>8. Head(steps) \in Spine
  BY <1>2, <1>7 DEF Members
<1>9. /\ Tail(steps) \in Seq(Steps) /\ Len(Tail(steps)) = Len(chain) - n - 1
      /\ \A j \in 1 .. Len(chain) - n - 1 : Tail(steps)[j] = chain[n + 1 + j]
  <2>1. Tail(steps) \in Seq(Steps) /\ Len(Tail(steps)) = Len(steps) - 1
        /\ \A j \in 1 .. Len(steps) - 1 : Tail(steps)[j] = steps[j + 1]
    BY <1>4
  <2>2. ASSUME NEW j \in 1 .. Len(chain) - n - 1 PROVE Tail(steps)[j] = chain[n + 1 + j]
    <3>1. j \in 1 .. Len(steps) - 1 /\ j + 1 \in 1 .. Len(chain) - n /\ n + (j + 1) = n + 1 + j
      BY <1>3, <1>4
    <3>2. QED
      BY <1>4, <2>1, <3>1
  <2>3. QED
    BY <1>4, <2>1, <2>2
<1>10. Tail(steps) = SubSeq(chain, n + 2, Len(chain))
  <2>1. PICK m : m = n + 1
    OBVIOUS
  <2>2. m \in Nat /\ m <= Len(chain) /\ m + 1 = n + 2 /\ Len(chain) - m = Len(chain) - n - 1
    BY <1>3, <1>6, <2>1
  <2>3. PICK rest : rest = SubSeq(chain, m + 1, Len(chain))
    OBVIOUS
  <2>4. /\ rest \in Seq(Steps) /\ Len(rest) = Len(chain) - m
        /\ \A j \in 1 .. Len(chain) - m : rest[j] = chain[m + j]
    BY <1>2, <2>2, <2>3, LeftOf
  <2>5. PICK tail : tail = Tail(steps)
    OBVIOUS
  <2>6. /\ tail \in Seq(Steps) /\ Len(tail) = Len(chain) - m
        /\ \A j \in 1 .. Len(chain) - m : tail[j] = chain[m + j]
    BY <1>9, <2>1, <2>2, <2>5
  <2>7. tail = rest
    <3>1. Len(tail) = Len(rest) /\ \A j \in 1 .. Len(rest) : tail[j] = rest[j]
      BY <2>4, <2>6
    <3>2. QED
      BY <2>4, <2>6, <3>1
  <2>8. QED
    BY <2>2, <2>3, <2>5, <2>7
<1>11. Members(Tail(steps)) = {chain[j] : j \in n + 2 .. Len(chain)}
  <2>1. PICK tail : tail = Tail(steps)
    OBVIOUS
  <2>2. /\ tail \in Seq(Steps) /\ Len(tail) = Len(chain) - n - 1
        /\ \A j \in 1 .. Len(chain) - n - 1 : tail[j] = chain[n + 1 + j]
    BY <1>9, <2>1
  <2>3. ASSUME NEW j \in n + 2 .. Len(chain) PROVE chain[j] \in Members(tail)
    <3>1. j - n - 1 \in 1 .. Len(chain) - n - 1 /\ n + 1 + (j - n - 1) = j
      BY <1>3
    <3>2. tail[j - n - 1] = chain[j] /\ j - n - 1 \in DOMAIN tail
      BY <2>2, <3>1
    <3>3. QED
      BY <3>2 DEF Members
  <2>4. ASSUME NEW j \in DOMAIN tail
        PROVE  tail[j] \in {chain[k] : k \in n + 2 .. Len(chain)}
    <3>1. j \in 1 .. Len(chain) - n - 1
      BY <2>2
    <3>2. n + 1 + j \in n + 2 .. Len(chain)
      BY <1>3, <3>1
    <3>3. QED
      BY <2>2, <3>1, <3>2
  <2>5. Members(tail) = {tail[j] : j \in DOMAIN tail}
    BY DEF Members
  <2>6. Members(tail) = {chain[k] : k \in n + 2 .. Len(chain)}
    BY <2>3, <2>4, <2>5
  <2>7. QED
    BY <2>1, <2>6
<1>12. Behind(chain[n + 1]) = {chain[j] : j \in n + 2 .. Len(chain)}
  <2>1. ASSUME NEW j \in n + 2 .. Len(chain) PROVE chain[j] \in Behind(chain[n + 1])
    <3>1. j \in DOMAIN chain /\ n + 1 < j /\ n + 1 \in DOMAIN chain
      BY <1>2, <1>3, <1>7
    <3>2. chain[n + 1] \in Ahead(chain[j])
      BY <1>2, <3>1 DEF Ahead
    <3>3. chain[j] \in Spine
      BY <1>2, <3>1 DEF Members
    <3>4. QED
      BY <3>2, <3>3 DEF Behind
  <2>2. ASSUME NEW s \in Behind(chain[n + 1])
        PROVE  s \in {chain[j] : j \in n + 2 .. Len(chain)}
    <3>1. PICK other \in Chains : \E a \in DOMAIN other, k \in DOMAIN other :
            other[a] = chain[n + 1] /\ a < k /\ other[k] = s
      BY DEF Behind, Ahead
    <3>2. PICK a \in DOMAIN other, k \in DOMAIN other :
            other[a] = chain[n + 1] /\ a < k /\ other[k] = s
      BY <3>1
    <3>3. other = chain /\ a = n + 1
      BY <1>2, <1>7, <3>2 DEF Trees, DistinctIds
    <3>4. k \in n + 2 .. Len(chain)
      BY <1>2, <1>3, <3>2, <3>3
    <3>5. QED
      BY <3>2, <3>3, <3>4
  <2>3. QED
    BY <2>1, <2>2
<1>13. Beyond(Head(steps)) = Members(Tail(steps))
  BY <1>7, <1>8, <1>11, <1>12, InnerApart DEF Beyond
<1>14. n + 1 \in 0 .. Len(chain)
  BY <1>3, <1>6
<1>15. QED
  BY <1>1, <1>4, <1>8, <1>10, <1>13, <1>14

-----------------------------------------------------------------------------
(* Members of sequences.                                                   *)

LEMMA MembersOf ==
  /\ Members(<<>>) = {}
  /\ \A e : Members(<<e>>) = {e}
<1>1. Members(<<>>) = {}
  BY DEF Members
<1>2. ASSUME NEW e PROVE Members(<<e>>) = {e}
  BY DEF Members
<1>3. QED
  BY <1>1, <1>2

LEMMA MembersTyped ==
  ASSUME NEW S, NEW seq \in Seq(S)
  PROVE  Members(seq) \subseteq S /\ (Members(seq) = {} <=> seq = <<>>)
         /\ \A k \in DOMAIN seq : seq[k] \in Members(seq)
<1>1. \A k \in DOMAIN seq : seq[k] \in S
  OBVIOUS
<1>2. \A k \in DOMAIN seq : seq[k] \in Members(seq)
  BY DEF Members
<1>3. Members(seq) \subseteq S
  BY <1>1 DEF Members
<1>4. seq # <<>> => 1 \in DOMAIN seq
  OBVIOUS
<1>5. seq = <<>> => Members(seq) = {}
  BY DEF Members
<1>6. QED
  BY <1>2, <1>3, <1>4, <1>5

LEMMA MembersJoined ==
  ASSUME NEW S, NEW left \in Seq(S), NEW right \in Seq(S)
  PROVE  left \o right \in Seq(S) /\ Members(left \o right) = Members(left) \cup Members(right)
<1>1. PICK all : all = left \o right
  OBVIOUS
<1>2. \A k \in DOMAIN all : \/ k \in DOMAIN left /\ all[k] = left[k]
                            \/ k - Len(left) \in DOMAIN right /\ all[k] = right[k - Len(left)]
  BY <1>1, Joined
<1>3. \A k \in DOMAIN left : k \in DOMAIN all /\ all[k] = left[k]
  BY <1>1
<1>4. \A k \in DOMAIN right : Len(left) + k \in DOMAIN all /\ all[Len(left) + k] = right[k]
  BY <1>1
<1>5. \A seq : \A e : e \in Members(seq) <=> \E k \in DOMAIN seq : e = seq[k]
  BY DEF Members
<1>6. \A e \in Members(all) : e \in Members(left) \/ e \in Members(right)
  BY <1>2, <1>5
<1>7. \A e \in Members(left) : e \in Members(all)
  BY <1>3, <1>5
<1>8. \A e \in Members(right) : e \in Members(all)
  BY <1>4, <1>5
<1>9. QED
  BY <1>1, <1>6, <1>7, <1>8

LEMMA MembersAppend ==
  ASSUME NEW S, NEW seq \in Seq(S), NEW e \in S
  PROVE  Append(seq, e) \in Seq(S) /\ Members(Append(seq, e)) = Members(seq) \cup {e}
<1>1. PICK more : more = Append(seq, e)
  OBVIOUS
<1>2. /\ more \in Seq(S) /\ Len(more) = Len(seq) + 1 /\ Len(seq) \in Nat /\ more[Len(seq) + 1] = e
      /\ \A k \in 1 .. Len(seq) : more[k] = seq[k]
  BY <1>1
<1>3. \A k \in DOMAIN more : k = Len(seq) + 1 \/ k \in DOMAIN seq
  BY <1>2
<1>4. Len(seq) + 1 \in DOMAIN more /\ \A k \in DOMAIN seq : k \in DOMAIN more /\ more[k] = seq[k]
  BY <1>2
<1>5. QED
  BY <1>1, <1>2, <1>3, <1>4 DEF Members

(* The first of a sequence, and the rest.                                  *)
LEMMA MembersPop ==
  ASSUME NEW S, NEW seq \in Seq(S), seq # <<>>
  PROVE  /\ Head(seq) \in S /\ Tail(seq) \in Seq(S)
         /\ Members(seq) = {Head(seq)} \cup Members(Tail(seq))
         /\ seq = <<Head(seq)>> \o Tail(seq)
<1>1. PICK head, tail : head = Head(seq) /\ tail = Tail(seq)
  OBVIOUS
<1>2. head \in S /\ tail \in Seq(S) /\ <<head>> \in Seq(S)
  BY <1>1
<1>3. PICK all : all = <<head>> \o tail
  OBVIOUS
<1>4. all \in Seq(S) /\ Len(all) = Len(tail) + 1 /\ all[1] = head
      /\ \A k \in 1 .. Len(tail) : all[k + 1] = tail[k]
  BY <1>2, <1>3
<1>5. seq[1] = head /\ Len(seq) = Len(tail) + 1 /\ Len(tail) \in Nat
      /\ \A k \in 1 .. Len(tail) : seq[k + 1] = tail[k]
  BY <1>1, <1>2
<1>6. ASSUME NEW k \in 1 .. Len(tail) + 1 PROVE all[k] = seq[k]
  <2>1. CASE k = 1
    BY <1>4, <1>5, <2>1
  <2>2. CASE k # 1
    <3>1. k - 1 \in 1 .. Len(tail) /\ (k - 1) + 1 = k
      BY <1>5, <2>2
    <3>2. QED
      BY <1>4, <1>5, <3>1
  <2>3. QED
    BY <2>1, <2>2
<1>7. all = seq
  BY <1>4, <1>5, <1>6
<1>8. Members(all) = {head} \cup Members(tail)
  <2>1. PICK one : one = <<head>>
    OBVIOUS
  <2>2. one \in Seq(S) /\ all = one \o tail
    BY <1>2, <1>3, <2>1
  <2>3. Members(all) = Members(one) \cup Members(tail)
    BY <1>2, <2>2, MembersJoined
  <2>4. QED
    BY <2>1, <2>3, MembersOf
<1>9. QED
  BY <1>1, <1>2, <1>3, <1>7, <1>8

LEMMA Regrouped ==
  ASSUME NEW a \in Seq(Frames), NEW b \in Seq(Frames), NEW c \in Seq(Frames)
  PROVE  (a \o b) \o c = a \o (b \o c)
OBVIOUS

LEMMA Unpadded ==
  ASSUME NEW S, NEW a \in Seq(S)
  PROVE  <<>> \o a = a /\ a \o <<>> = a
OBVIOUS

-----------------------------------------------------------------------------
(* Frames, and the line they stand in.                                     *)

LEMMA FramesOf ==
  /\ StepsOf(<<>>) = {} /\ Owners(<<>>) = {} /\ NoOwners(<<>>) /\ AllPlain(<<>>)
  /\ \A frame : /\ StepsOf(<<frame>>) = Members(frame.steps)
                /\ Owners(<<frame>>) = {frame.owner}
                /\ NoOwners(<<frame>>) <=> frame.owner = NoStep
                /\ AllPlain(<<frame>>) <=> Plain(frame)
  /\ \A left : AllHang(<<>>, left) /\ \A frame : AllHang(<<frame>>, left) <=> Hangs(frame, left)
BY MembersOf DEF StepsOf, Owners, NoOwners, AllPlain, AllHang

LEMMA FramesJoined ==
  ASSUME NEW a \in Seq(Frames), NEW b \in Seq(Frames)
  PROVE  /\ a \o b \in Seq(Frames)
         /\ StepsOf(a \o b) = StepsOf(a) \cup StepsOf(b)
         /\ Owners(a \o b) = Owners(a) \cup Owners(b)
         /\ NoOwners(a \o b) <=> NoOwners(a) /\ NoOwners(b)
         /\ AllPlain(a \o b) <=> AllPlain(a) /\ AllPlain(b)
         /\ \A left : AllHang(a \o b, left) <=> AllHang(a, left) /\ AllHang(b, left)
<1>1. PICK all : all = a \o b
  OBVIOUS
<1>2. all \in Seq(Frames) /\ Members(all) = Members(a) \cup Members(b)
  BY <1>1, MembersJoined
<1>3. StepsOf(all) = StepsOf(a) \cup StepsOf(b) /\ Owners(all) = Owners(a) \cup Owners(b)
  BY <1>2 DEF StepsOf, Owners
<1>4. NoOwners(all) <=> NoOwners(a) /\ NoOwners(b)
  BY <1>2 DEF NoOwners
<1>5. AllPlain(all) <=> AllPlain(a) /\ AllPlain(b)
  BY <1>2 DEF AllPlain
<1>6. \A left : AllHang(all, left) <=> AllHang(a, left) /\ AllHang(b, left)
  BY <1>2 DEF AllHang
<1>7. QED
  BY <1>1, <1>2, <1>3, <1>4, <1>5, <1>6

(* A frame on top of others.                                               *)
Push(frame, rest) == <<frame>> \o rest

LEMMA FramesPush ==
  ASSUME NEW frame \in Frames, NEW rest \in Seq(Frames)
  PROVE  /\ Push(frame, rest) \in Seq(Frames)
         /\ StepsOf(Push(frame, rest)) = Members(frame.steps) \cup StepsOf(rest)
         /\ Owners(Push(frame, rest)) = {frame.owner} \cup Owners(rest)
         /\ NoOwners(Push(frame, rest)) <=> frame.owner = NoStep /\ NoOwners(rest)
         /\ AllPlain(Push(frame, rest)) <=> Plain(frame) /\ AllPlain(rest)
<1>1. PICK one : one = <<frame>>
  OBVIOUS
<1>2. one \in Seq(Frames)
  BY <1>1
<1>3. /\ one \o rest \in Seq(Frames)
      /\ StepsOf(one \o rest) = StepsOf(one) \cup StepsOf(rest)
      /\ Owners(one \o rest) = Owners(one) \cup Owners(rest)
      /\ NoOwners(one \o rest) <=> NoOwners(one) /\ NoOwners(rest)
      /\ AllPlain(one \o rest) <=> AllPlain(one) /\ AllPlain(rest)
  BY <1>2, FramesJoined
<1>4. /\ StepsOf(one) = Members(frame.steps) /\ Owners(one) = {frame.owner}
      /\ NoOwners(one) <=> frame.owner = NoStep
      /\ AllPlain(one) <=> Plain(frame)
  BY <1>1, FramesOf
<1>5. QED
  BY <1>1, <1>3, <1>4 DEF Push

(* The first frame hangs, or it is the last.                               *)
LEMMA LinePush ==
  ASSUME NEW frame \in Frames, NEW rest \in Seq(Frames), NEW left
  PROVE  Line(Push(frame, rest), left) <=>
           \/ Hangs(frame, left) /\ Line(rest, left)
           \/ rest = <<>> /\ Lasts(frame, left)
<1>1. PICK all : all = Push(frame, rest)
  OBVIOUS
<1> USE DEF Push
<1>2. /\ all \in Seq(Frames) /\ Len(all) = Len(rest) + 1 /\ all # <<>> /\ Len(rest) \in Nat
      /\ all[1] = frame
      /\ \A k \in 1 .. Len(rest) : all[k + 1] = rest[k]
  BY <1>1
<1>3. Members(all) = {frame} \cup Members(rest)
  <2>1. Head(all) = frame /\ Tail(all) = rest
    BY <1>1
  <2>2. QED
    BY <1>2, <2>1, MembersPop
<1>4. AllHang(all, left) <=> Hangs(frame, left) /\ AllHang(rest, left)
  BY <1>3 DEF AllHang
<1>5. CASE rest = <<>>
  <2>1. Len(all) = 1 /\ AllHang(rest, left)
    BY <1>2, <1>5, MembersOf DEF AllHang
  <2>2. \A k \in DOMAIN all : ~(k < Len(all))
    BY <1>2, <2>1
  <2>3. Line(rest, left) <=> left = {}
    BY <1>5, <2>1 DEF Line
  <2>4. Line(all, left) <=> (left = {} /\ Hangs(frame, left)) \/ Lasts(frame, left)
    BY <1>2, <1>4, <2>1, <2>2 DEF Line
  <2>5. QED
    BY <1>1, <1>5, <2>3, <2>4
<1>6. CASE rest # <<>>
  <2>1. Len(rest) \in 1 .. Len(rest) /\ DOMAIN rest = 1 .. Len(rest) /\ DOMAIN all = 1 .. Len(rest) + 1
    BY <1>2, <1>6
  <2>2. all[Len(all)] = rest[Len(rest)]
    BY <1>2, <2>1
  <2>3. (\A k \in DOMAIN all : k < Len(all) => Hangs(all[k], left))
          <=> Hangs(frame, left) /\ \A k \in DOMAIN rest : k < Len(rest) => Hangs(rest[k], left)
    <3>1. ASSUME \A k \in DOMAIN all : k < Len(all) => Hangs(all[k], left)
          PROVE  Hangs(frame, left) /\ \A k \in DOMAIN rest : k < Len(rest) => Hangs(rest[k], left)
      <4>1. Hangs(frame, left)
        <5>1. 1 \in DOMAIN all /\ 1 < Len(all)
          BY <1>2, <2>1
        <5>2. QED
          BY <1>2, <3>1, <5>1
      <4>2. ASSUME NEW k \in DOMAIN rest, k < Len(rest) PROVE Hangs(rest[k], left)
        <5>1. k + 1 \in DOMAIN all /\ k + 1 < Len(all) /\ all[k + 1] = rest[k]
          BY <1>2, <2>1, <4>2
        <5>2. QED
          BY <3>1, <5>1
      <4>3. QED
        BY <4>1, <4>2
    <3>2. ASSUME Hangs(frame, left), \A k \in DOMAIN rest : k < Len(rest) => Hangs(rest[k], left),
                 NEW k \in DOMAIN all, k < Len(all)
          PROVE  Hangs(all[k], left)
      <4>1. CASE k = 1
        BY <1>2, <3>2, <4>1
      <4>2. CASE k # 1
        <5>1. k - 1 \in DOMAIN rest /\ k - 1 < Len(rest) /\ all[k] = rest[k - 1]
          <6>1. k - 1 \in 1 .. Len(rest) /\ (k - 1) + 1 = k /\ k - 1 < Len(rest)
            BY <1>2, <2>1, <3>2, <4>2
          <6>2. QED
            BY <1>2, <2>1, <6>1
        <5>2. QED
          BY <3>2, <5>1
      <4>3. QED
        BY <4>1, <4>2
    <3>3. QED
      BY <3>1, <3>2
  <2>4. Line(all, left) <=> Hangs(frame, left) /\ Line(rest, left)
    BY <1>2, <1>4, <1>6, <2>2, <2>3 DEF Line
  <2>5. QED
    BY <1>1, <1>6, <2>4
<1>7. QED
  BY <1>5, <1>6

(* What hangs in front of a line, hangs in front of its end.               *)
LEMMA LineJoined ==
  ASSUME NEW a \in Seq(Frames), NEW rest \in Seq(Frames), NEW left
  PROVE  /\ AllHang(a, left) /\ Line(rest, left) => Line(a \o rest, left)
         /\ rest # <<>> /\ Line(a \o rest, left) => AllHang(a, left) /\ Line(rest, left)
<1>1. PICK all : all = a \o rest
  OBVIOUS
<1>2. /\ all \in Seq(Frames) /\ Len(all) = Len(a) + Len(rest) /\ Len(a) \in Nat /\ Len(rest) \in Nat
      /\ DOMAIN all = 1 .. Len(a) + Len(rest) /\ DOMAIN a = 1 .. Len(a)
      /\ DOMAIN rest = 1 .. Len(rest)
  BY <1>1
<1>3. \A k \in DOMAIN a : all[k] = a[k]
  BY <1>1
<1>4. \A k \in DOMAIN rest : all[Len(a) + k] = rest[k]
  BY <1>1
<1>5. AllHang(all, left) <=> AllHang(a, left) /\ AllHang(rest, left)
  BY <1>1, FramesJoined
<1>6. CASE rest = <<>>
  <2>1. all = a
    BY <1>1, <1>6
  <2>2. Line(rest, left) => left = {}
    BY <1>6 DEF Line
  <2>3. QED
    BY <1>1, <1>6, <2>1, <2>2 DEF Line
<1>7. CASE rest # <<>>
  <2>1. all # <<>> /\ Len(rest) \in DOMAIN rest /\ all[Len(all)] = rest[Len(rest)]
    <3>1. Len(rest) \in DOMAIN rest
      BY <1>2, <1>7
    <3>2. all # <<>>
      BY <1>2, <3>1
    <3>3. QED
      BY <1>2, <1>4, <3>1, <3>2
  <2>2. ASSUME AllHang(a, left), \A k \in DOMAIN rest : k < Len(rest) => Hangs(rest[k], left),
               NEW k \in DOMAIN all, k < Len(all)
        PROVE  Hangs(all[k], left)
    <3>1. CASE k \in DOMAIN a
      BY <1>3, <2>2, <3>1 DEF AllHang, Members
    <3>2. CASE k \notin DOMAIN a
      <4>1. k - Len(a) \in DOMAIN rest /\ k - Len(a) < Len(rest) /\ Len(a) + (k - Len(a)) = k
        BY <1>2, <2>2, <3>2
      <4>2. QED
        BY <1>4, <2>2, <4>1
    <3>3. QED
      BY <3>1, <3>2
  <2>3. ASSUME \A k \in DOMAIN all : k < Len(all) => Hangs(all[k], left)
        PROVE  AllHang(a, left) /\ \A k \in DOMAIN rest : k < Len(rest) => Hangs(rest[k], left)
    <3>1. ASSUME NEW k \in DOMAIN a PROVE Hangs(a[k], left)
      <4>1. k \in DOMAIN all /\ k < Len(all)
        BY <1>2, <2>1
      <4>2. QED
        BY <1>3, <2>3, <4>1
    <3>2. ASSUME NEW k \in DOMAIN rest, k < Len(rest) PROVE Hangs(rest[k], left)
      <4>1. Len(a) + k \in DOMAIN all /\ Len(a) + k < Len(all)
        BY <1>2, <3>2
      <4>2. QED
        BY <1>4, <2>3, <4>1
    <3>3. QED
      BY <3>1, <3>2 DEF AllHang, Members
  <2>4. QED
    BY <1>1, <1>5, <1>7, <2>1, <2>2, <2>3 DEF Line
<1>8. QED
  BY <1>6, <1>7

(* What a line still holds of the chain is what is left.                   *)
LEMMA LineSteps ==
  ASSUME Trees, NEW frames \in Seq(Frames), NEW left \in SUBSET Spine, Line(frames, left)
  PROVE  StepsOf(frames) \cap Spine = left
<1>1. \A frame : Hangs(frame, left) => Members(frame.steps) \cap Spine = {}
  BY InnerApart DEF Hangs, Inside
<1>2. CASE left = {} /\ AllHang(frames, left)
  BY <1>1, <1>2 DEF AllHang, StepsOf
<1>3. CASE ~(left = {} /\ AllHang(frames, left))
  <2>1. /\ frames # <<>> /\ Lasts(frames[Len(frames)], left)
        /\ \A k \in DOMAIN frames : k < Len(frames) => Hangs(frames[k], left)
    BY <1>3 DEF Line
  <2>2. /\ Len(frames) \in DOMAIN frames
        /\ \A k \in DOMAIN frames : k < Len(frames) \/ k = Len(frames)
    BY <2>1
  <2>3. PICK last : last = frames[Len(frames)]
    OBVIOUS
  <2>4. last \in Members(frames) /\ Members(last.steps) = left
    BY <2>1, <2>2, <2>3 DEF Members, Lasts
  <2>5. \A frame \in Members(frames) : frame = last \/ Hangs(frame, left)
    BY <2>1, <2>2, <2>3 DEF Members
  <2>6. QED
    BY <1>1, <2>4, <2>5 DEF StepsOf
<1>4. QED
  BY <1>2, <1>3

(* A frame moves on by a step: the step is inside of one of the chain, or  *)
(* it is the first of what is left.                                        *)
LEMMA LineAdvance ==
  ASSUME Trees, NEW top \in Frames, NEW adv \in Frames, NEW rest \in Seq(Frames),
         NEW left \in SUBSET Spine, Line(Push(top, rest), left),
         NEW s \in Steps, top.steps # <<>>, s = Head(top.steps), adv.steps = Tail(top.steps),
         adv.owner = top.owner, adv.loop = top.loop, adv.more = top.more
  PROVE  /\ Beyond(s) \subseteq left /\ Line(Push(adv, rest), Beyond(s))
         /\ Members(top.steps) = {s} \cup Members(adv.steps)
         /\ \/ s \in InnerSteps /\ Beyond(s) = left
            \/ /\ s \in Spine /\ rest = <<>> /\ Plain(top) /\ Plain(adv)
               /\ left = {s} \cup Beyond(s)
<1>1. top.steps \in Seq(Steps)
  BY DEF Frames
<1>2. s \in Steps /\ Members(top.steps) = {s} \cup Members(adv.steps)
  BY <1>1, MembersPop
<1>3. CASE Hangs(top, left) /\ Line(rest, left)
  <2>1. s \in InnerSteps /\ Beyond(s) = left
    BY <1>2, <1>3 DEF Hangs, Inside
  <2>2. Hangs(adv, left)
    BY <1>2, <1>3 DEF Hangs
  <2>3. Line(Push(adv, rest), left)
    BY <1>3, <2>2, LinePush
  <2>4. QED
    BY <1>2, <2>1, <2>3
<1>4. CASE rest = <<>> /\ Lasts(top, left)
  <2>0. PICK f \in Members(Flows) : \E n \in 0 .. Len(Chain[f]) :
          top.steps = SubSeq(Chain[f], n + 1, Len(Chain[f]))
    BY <1>4 DEF Lasts
  <2>1. PICK n \in 0 .. Len(Chain[f]) : top.steps = SubSeq(Chain[f], n + 1, Len(Chain[f]))
    BY <2>0
  <2>2. /\ s \in Spine /\ Beyond(s) = Members(adv.steps)
        /\ n + 1 \in 0 .. Len(Chain[f])
        /\ adv.steps = SubSeq(Chain[f], n + 2, Len(Chain[f]))
    BY <2>1, BehindHead
  <2>3. (n + 1) + 1 = n + 2
    OBVIOUS
  <2>4. Plain(top) /\ Plain(adv) /\ left = Members(top.steps)
    BY <1>4 DEF Lasts, Plain
  <2>5. Lasts(adv, Beyond(s))
    <3>1. \E m \in 0 .. Len(Chain[f]) : adv.steps = SubSeq(Chain[f], m + 1, Len(Chain[f]))
      BY <2>2, <2>3
    <3>2. QED
      BY <2>2, <2>4, <3>1 DEF Lasts
  <2>6. Line(Push(adv, rest), Beyond(s))
    BY <1>4, <2>5, LinePush
  <2>7. QED
    BY <1>2, <1>4, <2>2, <2>4, <2>6
<1>5. QED
  BY <1>3, <1>4, LinePush

(* Under the frame of a step of the chain there is only that chain.        *)
LEMMA NestsPush ==
  ASSUME NEW frame \in Frames, NEW rest \in Seq(Frames), NEW segments
  PROVE  Nests(Push(frame, rest), segments) <=>
           /\ frame.owner \in Spine => segments = <<>> /\ AllPlain(rest)
           /\ Nests(rest, segments)
<1>1. PICK all : all = Push(frame, rest)
  OBVIOUS
<1>2. /\ all \in Seq(Frames) /\ DOMAIN all = 1 .. Len(rest) + 1 /\ Len(rest) \in Nat
      /\ DOMAIN rest = 1 .. Len(rest) /\ all[1] = frame
      /\ \A k \in 1 .. Len(rest) : all[k + 1] = rest[k]
  BY <1>1 DEF Push
<1>3. \A k \in DOMAIN all : k = 1 \/ (k - 1 \in DOMAIN rest /\ all[k] = rest[k - 1])
  <2>1. ASSUME NEW k \in DOMAIN all, k # 1 PROVE k - 1 \in DOMAIN rest /\ all[k] = rest[k - 1]
    <3>1. k - 1 \in 1 .. Len(rest) /\ (k - 1) + 1 = k
      BY <1>2, <2>1
    <3>2. QED
      BY <1>2, <3>1
  <2>2. QED
    BY <2>1
<1>4. ASSUME Nests(all, segments)
      PROVE  /\ frame.owner \in Spine => segments = <<>> /\ AllPlain(rest)
             /\ Nests(rest, segments)
  <2>1. ASSUME frame.owner \in Spine PROVE segments = <<>> /\ AllPlain(rest)
    <3>1. 1 \in DOMAIN all /\ all[1].owner \in Spine
      BY <1>2, <2>1
    <3>2. segments = <<>>
      BY <1>4, <3>1 DEF Nests
    <3>3. ASSUME NEW k \in DOMAIN rest PROVE Plain(rest[k])
      <4>1. k + 1 \in DOMAIN all /\ 1 < k + 1 /\ all[k + 1] = rest[k]
        BY <1>2
      <4>2. QED
        BY <1>4, <3>1, <4>1 DEF Nests
    <3>4. QED
      BY <3>2, <3>3 DEF AllPlain, Members
  <2>2. ASSUME NEW j \in DOMAIN rest, NEW k \in DOMAIN rest, rest[j].owner \in Spine
        PROVE  segments = <<>> /\ (j < k => Plain(rest[k]))
    <3>1. /\ j + 1 \in DOMAIN all /\ k + 1 \in DOMAIN all
          /\ all[j + 1] = rest[j] /\ all[k + 1] = rest[k] /\ (j < k => j + 1 < k + 1)
      BY <1>2
    <3>2. QED
      BY <1>4, <2>2, <3>1 DEF Nests
  <2>3. QED
    BY <2>1, <2>2 DEF Nests
<1>5. ASSUME frame.owner \in Spine => segments = <<>> /\ AllPlain(rest), Nests(rest, segments),
             NEW j \in DOMAIN all, NEW k \in DOMAIN all, all[j].owner \in Spine
      PROVE  segments = <<>> /\ (j < k => Plain(all[k]))
  <2>1. CASE j = 1
    <3>1. segments = <<>> /\ AllPlain(rest)
      BY <1>2, <1>5, <2>1
    <3>2. j < k => Plain(all[k])
      <4>1. ASSUME j < k PROVE k - 1 \in DOMAIN rest /\ all[k] = rest[k - 1]
        BY <1>2, <1>3, <2>1, <4>1
      <4>2. QED
        BY <3>1, <4>1 DEF AllPlain, Members
    <3>3. QED
      BY <3>1, <3>2
  <2>2. CASE j # 1
    <3>1. j - 1 \in DOMAIN rest /\ all[j] = rest[j - 1]
      BY <1>3, <2>2
    <3>2. segments = <<>>
      BY <1>5, <3>1 DEF Nests
    <3>3. ASSUME j < k PROVE Plain(all[k])
      <4>1. k - 1 \in DOMAIN rest /\ all[k] = rest[k - 1] /\ j - 1 < k - 1
        BY <1>2, <1>3, <2>2, <3>3
      <4>2. QED
        BY <1>5, <3>1, <4>1 DEF Nests
    <3>4. QED
      BY <3>2, <3>3
  <2>3. QED
    BY <2>1, <2>2
<1>6. QED
  BY <1>1, <1>4, <1>5 DEF Nests

LEMMA PlainFrames ==
  ASSUME NEW frames \in Seq(Frames), AllPlain(frames)
  PROVE  NoOwners(frames) /\ \A segments : Nests(frames, segments)
<1>1. NoOwners(frames)
  BY DEF AllPlain, NoOwners, Plain
<1>2. \A k \in DOMAIN frames : frames[k].owner = NoStep
  BY DEF AllPlain, Plain, Members
<1>3. QED
  BY <1>1, <1>2, SpineTyped DEF Nests

LEMMA OwnerlessFrames ==
  ASSUME NEW frames \in Seq(Frames), NoOwners(frames)
  PROVE  Owners(frames) \subseteq {NoStep} /\ \A segments : Nests(frames, segments)
<1>1. \A k \in DOMAIN frames : frames[k].owner = NoStep
  BY DEF NoOwners, Members
<1>2. QED
  BY <1>1, SpineTyped DEF Nests, NoOwners, Owners

(* A chain that unwinds leaves its place in the line to its remainder.     *)
LEMMA RemainderLine ==
  ASSUME NEW frame \in Frames
  PROVE  /\ Remainder(frame) \in Seq(Frames) /\ NoOwners(Remainder(frame))
         /\ StepsOf(Remainder(frame)) \subseteq Members(frame.steps)
         /\ \A left : Hangs(frame, left) => AllHang(Remainder(frame), left)
         /\ \A left : Lasts(frame, left) => Line(Remainder(frame), left)
<1>1. PICK ahead, behind : /\ ahead = Frame(frame.steps, NoStep, FALSE, <<>>)
                           /\ behind = Frame(<<>>, NoStep, TRUE, frame.more)
  OBVIOUS
<1>2. frame.steps \in Seq(Steps) /\ frame.more \in Seq(Chains) /\ frame.loop \in BOOLEAN
  BY DEF Frames
<1>3. <<>> \in Seq(Chains) /\ <<>> \in Seq(Steps)
  OBVIOUS
<1>4. /\ ahead \in Frames /\ behind \in Frames
      /\ ahead.steps = frame.steps /\ ahead.owner = NoStep /\ Plain(ahead) /\ ahead.more = <<>>
      /\ behind.steps = <<>> /\ behind.owner = NoStep /\ behind.more = frame.more
  <2>1. ahead \in Frames
    BY <1>1, <1>2, <1>3, FrameTyped
  <2>2. behind \in Frames
    BY <1>1, <1>2, <1>3, FrameTyped
  <2>3. QED
    BY <1>1, <2>1, <2>2 DEF Frame, Plain
<1>5. PICK first, last : /\ first = IF frame.steps = <<>> THEN <<>> ELSE <<ahead>>
                         /\ last = IF frame.loop THEN <<behind>> ELSE <<>>
  OBVIOUS
<1>6. Remainder(frame) = first \o last
  BY <1>1, <1>5 DEF Remainder
<1>7. first \in Seq(Frames) /\ last \in Seq(Frames)
  BY <1>4, <1>5
<1>8. NoOwners(first) /\ NoOwners(last)
  BY <1>4, <1>5, FramesOf
<1>9. StepsOf(first) \subseteq Members(frame.steps) /\ StepsOf(last) = {}
  BY <1>4, <1>5, FramesOf, MembersOf
<1>10. ASSUME NEW left, Hangs(frame, left) PROVE AllHang(first, left) /\ AllHang(last, left)
  <2>1. Hangs(ahead, left) /\ Hangs(behind, left)
    BY <1>4, <1>10, MembersOf DEF Hangs
  <2>2. QED
    BY <1>5, <2>1, FramesOf
<1>11. ASSUME NEW left, Lasts(frame, left) PROVE Line(first, left) /\ last = <<>>
  <2>1. last = <<>>
    BY <1>5, <1>11 DEF Lasts, Plain
  <2>2. CASE frame.steps = <<>>
    <3>1. left = {} /\ first = <<>>
      BY <1>5, <1>11, <2>2, MembersOf DEF Lasts
    <3>2. QED
      BY <2>1, <3>1, FramesOf DEF Line
  <2>3. CASE frame.steps # <<>>
    <3>1. Lasts(ahead, left)
      BY <1>4, <1>11 DEF Lasts
    <3>2. first = <<ahead>> /\ Len(<<ahead>>) = 1 /\ <<ahead>>[1] = ahead /\ <<ahead>> # <<>>
      BY <1>5, <2>3
    <3>3. \A k \in DOMAIN <<ahead>> : ~(k < 1)
      OBVIOUS
    <3>4. Line(first, left)
      BY <3>1, <3>2, <3>3 DEF Line
    <3>5. QED
      BY <2>1, <3>4
  <2>4. QED
    BY <2>2, <2>3
<1>12. first \o <<>> = first
  BY <1>7, Unpadded
<1>13. PICK rem : rem = first \o last
  OBVIOUS
<1>14. /\ rem \in Seq(Frames) /\ NoOwners(rem) /\ StepsOf(rem) \subseteq Members(frame.steps)
       /\ \A left : AllHang(first, left) /\ AllHang(last, left) => AllHang(rem, left)
  BY <1>7, <1>8, <1>9, <1>13, FramesJoined
<1>15. \A left : Hangs(frame, left) => AllHang(rem, left)
  BY <1>10, <1>14
<1>16. \A left : Lasts(frame, left) => Line(rem, left)
  BY <1>11, <1>12, <1>13
<1>17. QED
  BY <1>6, <1>13, <1>14, <1>15, <1>16

-----------------------------------------------------------------------------
(* Carriers, as a step changes the records.                                *)

LEMMA SweepMembers ==
  \A delayed, i, s : s \in BySweep(delayed, i) <=>
    \/ \E k \in i.sweep : s \in Members(Chain[Flows[k]])
    \/ \E park \in Members(i.parks) : s \in Pause(delayed, park.paused, park.segments)
<1> SUFFICES ASSUME NEW delayed, NEW i, NEW s
             PROVE  s \in BySweep(delayed, i) <=>
                      \/ \E k \in i.sweep : s \in Members(Chain[Flows[k]])
                      \/ \E park \in Members(i.parks) : s \in Pause(delayed, park.paused, park.segments)
  OBVIOUS
<1>1. PICK whole, rest : /\ whole = UNION {Members(Chain[Flows[k]]) : k \in i.sweep}
                         /\ rest = UNION {Pause(delayed, park.paused, park.segments) : park \in Members(i.parks)}
  OBVIOUS
<1>2. s \in whole <=> \E k \in i.sweep : s \in Members(Chain[Flows[k]])
  BY <1>1
<1>3. s \in rest <=> \E park \in Members(i.parks) : s \in Pause(delayed, park.paused, park.segments)
  BY <1>1
<1>4. BySweep(delayed, i) = whole \cup rest
  BY <1>1 DEF BySweep
<1>5. QED
  BY <1>2, <1>3, <1>4

LEMMA MoreDelayed ==
  ASSUME NEW delayed, NEW later, NEW u, delayed \ {u} \subseteq later
  PROVE  /\ \A paused, segments : Pause(delayed, paused, segments) \ {u} \subseteq Pause(later, paused, segments)
         /\ \A m : ByMessage(delayed, m) \ {u} \subseteq ByMessage(later, m)
         /\ \A i : BySweep(delayed, i) \ {u} \subseteq BySweep(later, i)
         /\ \A i : ByInvocation(delayed, i) \ {u} \subseteq ByInvocation(later, i)
<1>1. \A paused, segments :
        Pause(delayed, paused, segments) \ {u} \subseteq Pause(later, paused, segments)
  BY DEF Pause
<1>2. \A m : ByMessage(delayed, m) \ {u} \subseteq ByMessage(later, m)
  BY <1>1 DEF ByMessage
<1>3. ASSUME NEW i, NEW s \in BySweep(delayed, i) \ {u} PROVE s \in BySweep(later, i)
  <2>1. CASE \E k \in i.sweep : s \in Members(Chain[Flows[k]])
    BY <2>1, SweepMembers
  <2>2. CASE ~\E k \in i.sweep : s \in Members(Chain[Flows[k]])
    <3>1. PICK park \in Members(i.parks) : s \in Pause(delayed, park.paused, park.segments)
      BY <1>3, <2>2, SweepMembers
    <3>2. s \in Pause(later, park.paused, park.segments)
      BY <1>1, <1>3, <3>1
    <3>3. QED
      BY <3>2, SweepMembers
  <2>3. QED
    BY <2>1, <2>2
<1>4. ASSUME NEW i PROVE ByInvocation(delayed, i) \ {u} \subseteq ByInvocation(later, i)
  <2>1. PICK sweep, message, pause :
          sweep = BySweep(later, i) /\ message = ByMessage(later, i.msg)
          /\ pause = Pause(later, i.paused, i.msg.segments)
    OBVIOUS
  <2>2. /\ BySweep(delayed, i) \ {u} \subseteq sweep
        /\ ByMessage(delayed, i.msg) \ {u} \subseteq message
        /\ Pause(delayed, i.paused, i.msg.segments) \ {u} \subseteq pause
    BY <1>1, <1>2, <1>3, <2>1
  <2>3. QED
    BY <2>1, <2>2 DEF ByInvocation
<1>5. QED
  BY <1>1, <1>2, <1>3, <1>4

(* Whatever an invocation carries, its message would carry too.            *)
LEMMA WithinHand ==
  ASSUME NEW i, Shaped(i), i.pc # "idle", i.msg \in Envelopes, NEW delayed
  PROVE  ByInvocation(delayed, i) \cap Spine \subseteq ByMessage(delayed, i.msg)
<1>1. CASE i.msg.kind = "event"
  BY <1>1 DEF ByMessage
<1>2. CASE i.msg.kind # "event"
  <2>1. i.msg.kind = "resume" /\ WithinMessage(i) /\ i.pc # "sweep"
    BY <1>2 DEF Shaped, Envelopes
  <2>2. PICK named : named = StepsOf(i.msg.segments)
    OBVIOUS
  <2>3. ByMessage(delayed, i.msg) = (Members(i.msg.paused) \cap delayed) \cup named
    BY <2>1, <2>2 DEF ByMessage, Pause
  <2>4. /\ i.sweep = {}
        /\ i.pc \in Walking \cup {"stop"} => i.parks = <<>>
        /\ i.pc \in Walking => InHand(i) \cap Spine \subseteq named
        /\ i.pc = "suspend" => Members(i.paused) \cap Spine \subseteq named
        /\ i.pc = "park" => \A park \in Members(i.parks) :
             (Members(park.paused) \cup StepsOf(park.segments)) \cap Spine \subseteq named
        /\ i.pc \in {"pauses", "close", "drop"} => Members(i.paused) \subseteq Members(i.msg.paused)
    BY <2>1, <2>2 DEF WithinMessage
  <2>5. i.pc \in Sweeping => BySweep(delayed, i) \cap Spine \subseteq named
    <3>1. CASE i.pc \in Walking \cup {"stop"}
      BY <2>4, <3>1, MembersOf DEF BySweep
    <3>2. CASE i.pc = "park"
      <4>1. \A park \in Members(i.parks) :
              Pause(delayed, park.paused, park.segments) \cap Spine \subseteq named
        BY <2>4, <3>2 DEF Pause
      <4>2. ASSUME NEW s \in BySweep(delayed, i) \cap Spine PROVE s \in named
        <5>1. PICK park \in Members(i.parks) : s \in Pause(delayed, park.paused, park.segments)
          BY <2>4, <4>2, SweepMembers
        <5>2. QED
          BY <4>1, <4>2, <5>1
      <4>3. QED
        BY <4>2
    <3>3. QED
      BY <2>1, <3>1, <3>2 DEF Sweeping
  <2>6. i.pc \in {"pauses", "close"} =>
          Pause(delayed, i.paused, i.msg.segments) \subseteq ByMessage(delayed, i.msg)
    BY <2>2, <2>3, <2>4 DEF Pause
  <2>7. QED
    BY <2>3, <2>4, <2>5, <2>6 DEF ByInvocation
<1>3. QED
  BY <1>1, <1>2

(* Nothing else changes for a step that no worker has let go of.           *)
LEMMA AccountStep ==
  ASSUME CarriedOn, NEW u, Shapes',
         \A s \in Steps : s # u => status'[s] = status[s],
         dead => dead', off \subseteq off',
         \A m \in BagToSet(queue) :
           \/ m \in BagToSet(queue)'
           \/ \A s \in Spine \ {u} : s \in ByMessage(Delayed, m) => Accounted(s)',
         \A v \in Workers :
           \/ inv'[v] = inv[v]
           \/ \A s \in Spine \ {u} : s \in ByInvocation(Delayed, inv[v]) => Accounted(s)',
         u \in Halted /\ u \notin Halted' => \A s \in Spine \cap Beyond(u) : Accounted(s)',
         u \in Spine => Accounted(u)'
  PROVE  CarriedOn'
<1> SUFFICES ASSUME NEW s \in Spine, s # u PROVE Accounted(s)'
  BY DEF CarriedOn
<1>1. s \in Steps /\ status'[s] = status[s] /\ Accounted(s)
  BY SpineTyped DEF CarriedOn
<1>2. PICK delayed, later : delayed = Delayed /\ later = Delayed'
  OBVIOUS
<1>3. delayed \ {u} \subseteq later
  BY <1>2 DEF Delayed
<1>4. CASE dead \/ FlowOf[s] \in off
  BY <1>4 DEF Accounted
<1>5. CASE Settled(s)
  BY <1>1, <1>5 DEF Accounted, Settled
<1>6. CASE Blocked(s)
  <2>1. PICK v \in Halted : s = v \/ s \in Beyond(v)
    BY <1>6 DEF Blocked
  <2>2. CASE v \in Halted'
    BY <2>1, <2>2 DEF Accounted, Blocked
  <2>3. CASE v \notin Halted'
    <3>1. v = u
      BY <2>1, <2>3 DEF Halted
    <3>2. QED
      BY <2>1, <2>3, <3>1
  <2>4. QED
    BY <2>2, <2>3
<1>7. CASE Carried(s)
  <2>1. CASE \E m \in BagToSet(queue) : s \in ByMessage(Delayed, m)
    <3>1. PICK m \in BagToSet(queue) : s \in ByMessage(delayed, m)
      BY <1>2, <2>1
    <3>2. s \in ByMessage(later, m)
      BY <1>3, <3>1, MoreDelayed
    <3>3. CASE m \in BagToSet(queue)'
      BY <1>2, <3>2, <3>3 DEF Accounted, Carried
    <3>4. QED
      BY <1>2, <3>1, <3>3
  <2>2. CASE \E v \in Workers : s \in ByInvocation(Delayed, inv[v])
    <3>1. PICK v \in Workers : s \in ByInvocation(Delayed, inv[v])
      BY <2>2
    <3>2. CASE inv'[v] = inv[v]
      <4>1. PICK i : i = inv[v]
        OBVIOUS
      <4>2. s \in ByInvocation(later, i)
        BY <1>2, <1>3, <3>1, <4>1, MoreDelayed
      <4>3. QED
        BY <1>2, <3>2, <4>1, <4>2 DEF Accounted, Carried
    <3>3. QED
      BY <3>1, <3>2
  <2>3. QED
    BY <1>7, <2>1, <2>2 DEF Carried
<1>8. QED
  BY <1>1, <1>4, <1>5, <1>6, <1>7 DEF Accounted

(* One invocation moves, and the records of one step at most.              *)
LEMMA CarryStep ==
  ASSUME WorkerInv, CarriedOn, NEW w \in Workers, NEW i, NEW next, NEW u, NEW delayed, NEW later,
         i = inv[w], inv' = [inv EXCEPT ![w] = next], delayed = Delayed, later = Delayed',
         \A s \in Steps : s # u => status'[s] = status[s],
         u \in Steps /\ status'[u] = "filtered" => u \in Spine,
         dead => dead', off \subseteq off',
         \A m \in BagToSet(queue)' : m \in BagToSet(queue) \/ MessageShaped(m),
         \A m \in BagToSet(queue) :
           \/ m \in BagToSet(queue)'
           \/ \A s \in Spine \ {u} : s \in ByMessage(delayed, m) => Accounted(s)',
         Shaped(next),
         \A s \in Spine \ {u} : s \in ByInvocation(delayed, i) =>
           s \in ByInvocation(later, next) \/ Accounted(s)',
         u \in Halted /\ u \notin Halted' => Spine \cap Beyond(u) \subseteq ByInvocation(later, next),
         u \in Spine => u \in ByInvocation(later, next) \/ Accounted(u)'
  PROVE  CarriedOn'
<1>1. inv'[w] = next /\ \A v \in Workers : v # w => inv'[v] = inv[v]
  BY DEF WorkerInv, TypeOK
<1>2. ASSUME NEW s \in ByInvocation(later, next) PROVE Accounted(s)'
  BY <1>1, <1>2 DEF Accounted, Carried
<1>3. Shapes'
  <2>1. \A m \in BagToSet(queue)' : MessageShaped(m)
    BY DEF CarriedOn, Shapes
  <2>2. \A v \in Workers : Shaped(inv'[v])
    <3>1. ASSUME NEW v \in Workers, v # w PROVE Shaped(inv'[v])
      <4>1. inv'[v] = inv[v] /\ Shaped(inv[v])
        BY <1>1, <3>1 DEF CarriedOn, Shapes
      <4>2. QED
        BY <4>1
    <3>2. Shaped(inv'[w])
      BY <1>1
    <3>3. QED
      BY <3>1, <3>2
  <2>3. \A s \in Steps : status'[s] = "filtered" => s \in Spine
    BY DEF CarriedOn, Shapes
  <2>4. QED
    BY <2>1, <2>2, <2>3 DEF Shapes
<1>4. \A v \in Workers :
        \/ inv'[v] = inv[v]
        \/ \A s \in Spine \ {u} : s \in ByInvocation(Delayed, inv[v]) => Accounted(s)'
  BY <1>1, <1>2
<1>5. u \in Halted /\ u \notin Halted' => \A s \in Spine \cap Beyond(u) : Accounted(s)'
  BY <1>2
<1>6. u \in Spine => Accounted(u)'
  BY <1>2
<1>7. QED
  BY <1>3, <1>4, <1>5, <1>6, AccountStep

(* A chain goes on: what it had in hand it still has, or the message has.  *)
LEMMA WalkOn ==
  ASSUME Trees, NEW i, NEW next, Shaped(i), i.pc \in Walking, next.pc \in Walking,
         i.msg \in Envelopes, next.msg = i.msg, next.sweep = i.sweep, next.parks = i.parks,
         next.flow = i.flow, NEW left \in SUBSET Spine, WalkShaped(next, left),
         InHand(next) \cap Spine \subseteq InHand(i),
         next.pc = "suspend" =>
           Members(next.paused) \cap Spine \subseteq InHand(i)
             \cup (IF i.pc = "suspend" THEN Members(i.paused) ELSE {})
  PROVE  Shaped(next)
<1>1. next.pc \notin Starting \cup {"idle", "stop", "park"} /\ next.pc \in Sweeping
  BY DEF Walking, Starting, Sweeping
<1>2. i.pc \notin Starting \cup {"idle", "stop", "park"} /\ i.pc \in Sweeping
  BY DEF Walking, Starting, Sweeping
<1>3. /\ MessageShaped(i.msg) /\ (i.msg.kind = "resume" => WithinMessage(i))
      /\ \A park \in Members(i.parks) : ParkShaped(park)
  BY <1>2 DEF Shaped
<1>4. ASSUME i.msg.kind = "resume" PROVE WithinMessage(next)
  <2>1. PICK named : named = StepsOf(i.msg.segments)
    OBVIOUS
  <2>2. /\ i.sweep = {} /\ i.flow = i.msg.flow /\ i.parks = <<>>
        /\ InHand(i) \cap Spine \subseteq named
        /\ i.pc = "suspend" => Members(i.paused) \cap Spine \subseteq named
    BY <1>3, <1>4, <2>1 DEF WithinMessage
  <2>3. InHand(next) \cap Spine \subseteq named
    BY <2>2
  <2>4. next.pc = "suspend" => Members(next.paused) \cap Spine \subseteq named
    BY <2>2
  <2>5. next.pc \notin {"pauses", "close", "drop", "park"}
    BY <1>1 DEF Starting
  <2>6. QED
    BY <2>1, <2>2, <2>3, <2>4, <2>5 DEF WithinMessage
<1>5. QED
  BY <1>1, <1>3, <1>4 DEF Shaped, Starting

LEMMA WalkCarries ==
  ASSUME NEW i, NEW next, i.pc \in Walking, next.pc \in Walking, next.msg = i.msg,
         next.sweep = i.sweep, next.parks = i.parks, NEW delayed, NEW later, NEW u,
         delayed \ {u} \subseteq later,
         (InHand(i) \cap Spine) \ {u} \subseteq InHand(next),
         i.pc = "suspend" => next.pc = "suspend" /\ Members(i.paused) \subseteq Members(next.paused),
         i.pc = "raise" /\ NoOwners(i.stack) => next.pc = "raise" /\ NoOwners(next.stack)
  PROVE  \A s \in Spine \ {u} : s \in ByInvocation(delayed, i) => s \in ByInvocation(later, next)
<1> SUFFICES ASSUME NEW s \in Spine \ {u}, s \in ByInvocation(delayed, i)
             PROVE  s \in ByInvocation(later, next)
  OBVIOUS
<1>1. /\ i.pc \notin {"resume", "requeue", "failed", "pauses", "close", "drop"}
      /\ i.pc \in Sweeping /\ next.pc \in Sweeping
  BY DEF Walking, Sweeping
<1>2. BySweep(delayed, i) \ {u} \subseteq BySweep(later, next)
  <2>1. BySweep(later, next) = BySweep(later, i)
    BY DEF BySweep
  <2>2. QED
    BY <2>1, MoreDelayed
<1>3. ByMessage(delayed, i.msg) \ {u} \subseteq ByMessage(later, next.msg)
  BY MoreDelayed
<1>4. \/ s \in BySweep(delayed, i) \/ s \in InHand(i)
      \/ i.pc = "suspend" /\ s \in Members(i.paused) \cap delayed
      \/ i.pc = "raise" /\ NoOwners(i.stack) /\ s \in ByMessage(delayed, i.msg)
  BY <1>1 DEF ByInvocation
<1>5. QED
  BY <1>1, <1>2, <1>3, <1>4 DEF ByInvocation

(* The message takes over whatever is still carried.                       *)
LEMMA HandBack ==
  ASSUME NEW i, NEW next, Shaped(i), i.pc # "idle", i.msg \in Envelopes, next.msg = i.msg,
         next.pc \in {"requeue", "failed"} \/ (next.pc = "raise" /\ NoOwners(next.stack)),
         NEW delayed, NEW later, NEW u, delayed \ {u} \subseteq later
  PROVE  \A s \in Spine \ {u} : s \in ByInvocation(delayed, i) => s \in ByInvocation(later, next)
<1>1. ByMessage(delayed, i.msg) \ {u} \subseteq ByMessage(later, next.msg)
  BY MoreDelayed
<1>2. ByInvocation(delayed, i) \cap Spine \subseteq ByMessage(delayed, i.msg)
  BY WithinHand
<1>3. ByMessage(later, next.msg) \subseteq ByInvocation(later, next)
  BY DEF ByInvocation
<1>4. QED
  BY <1>1, <1>2, <1>3

(* The line of an invocation whose stack has a top.                        *)
LEMMA LineOfStack ==
  ASSUME NEW i, i.tail = <<>>, i.segments \in Seq(Frames), NEW frame \in Frames,
         NEW rest \in Seq(Frames), i.stack = Push(frame, rest)
  PROVE  /\ LineOf(i) = Push(frame, rest \o i.segments) /\ rest \o i.segments \in Seq(Frames)
         /\ LineOf(i) \in Seq(Frames)
         /\ rest \o i.segments = <<>> <=> rest = <<>> /\ i.segments = <<>>
         /\ StepsOf(LineOf(i)) = Members(frame.steps) \cup StepsOf(rest) \cup StepsOf(i.segments)
         /\ StepsOf(rest \o i.segments) = StepsOf(rest) \cup StepsOf(i.segments)
         /\ Owners(i.stack) = {frame.owner} \cup Owners(rest)
<1>1. PICK segments : segments = i.segments
  OBVIOUS
<1>2. PICK one : one = <<frame>>
  OBVIOUS
<1>3. one \in Seq(Frames) /\ segments \in Seq(Frames)
  BY <1>1, <1>2
<1>4. one \o rest \in Seq(Frames) /\ rest \o segments \in Seq(Frames)
      /\ (rest \o segments = <<>> <=> rest = <<>> /\ segments = <<>>)
  BY <1>3
<1>5. (one \o rest) \o segments = one \o (rest \o segments)
  BY <1>3, Regrouped
<1>6. (one \o rest) \o segments \in Seq(Frames)
  <2>1. PICK stack : stack = one \o rest
    OBVIOUS
  <2>2. stack \in Seq(Frames) /\ stack \o segments \in Seq(Frames)
    BY <1>3, <1>4, <2>1
  <2>3. QED
    BY <2>1, <2>2
<1>7. <<>> \o ((one \o rest) \o segments) = (one \o rest) \o segments
  <2>1. PICK whole : whole = (one \o rest) \o segments
    OBVIOUS
  <2>2. <<>> \o whole = whole
    BY <1>6, <2>1, Unpadded
  <2>3. QED
    BY <2>1, <2>2
<1>8. LineOf(i) = one \o (rest \o segments)
  BY <1>1, <1>2, <1>5, <1>7 DEF LineOf, Push
<1>9. StepsOf(rest \o segments) = StepsOf(rest) \cup StepsOf(segments)
  BY <1>3, FramesJoined
<1>10. /\ one \o (rest \o segments) \in Seq(Frames)
       /\ StepsOf(one \o (rest \o segments)) = Members(frame.steps) \cup StepsOf(rest \o segments)
  BY <1>2, <1>4, FramesPush DEF Push
<1>11. Owners(one \o rest) = {frame.owner} \cup Owners(rest)
  BY <1>2, FramesPush DEF Push
<1>12. QED
  BY <1>1, <1>2, <1>4, <1>8, <1>9, <1>10, <1>11 DEF Push

-----------------------------------------------------------------------------
(* The steps of an invocation that walks a chain.                          *)

(* The same delivery, in the same workflow.                                *)
Goes(i, next) ==
    /\ next.msg = i.msg /\ next.sweep = i.sweep /\ next.parks = i.parks /\ next.flow = i.flow
    /\ next.segments = i.segments

(* The records of u may change, and of no other step.                      *)
Writes(u) == \A s \in Steps : s # u => status'[s] = status[s]

LEMMA Holding ==
  ASSUME WorkerInv, CarriedOn, NEW w \in Workers, NEW i, i = inv[w]
  PROVE  /\ i \in Invocations /\ Consistent(i) /\ Shaped(i)
         /\ i.stack \in Seq(Frames) /\ i.segments \in Seq(Frames) /\ i.tail \in Seq(Frames)
         /\ i.step \in Steps \cup {NoStep} /\ i.paused \in Seq(Pausing)
         /\ i.parks \in Seq(Suspensions) /\ i.sweep \subseteq DOMAIN Flows
         /\ i.pc # "idle" => i.msg \in Envelopes
         /\ i.pc \notin {"run", "mark"} => i.step = NoStep
BY Fields DEF CarriedOn, Shapes

LEMMA LineTyped ==
  ASSUME NEW i, i.stack \in Seq(Frames), i.segments \in Seq(Frames), i.tail \in Seq(Frames)
  PROVE  LineOf(i) \in Seq(Frames)
         /\ StepsOf(LineOf(i)) = StepsOf(i.tail) \cup StepsOf(i.stack) \cup StepsOf(i.segments)
<1>1. PICK tail, stack, segments : tail = i.tail /\ stack = i.stack /\ segments = i.segments
  OBVIOUS
<1>2. PICK rest : rest = stack \o segments
  OBVIOUS
<1>3. rest \in Seq(Frames) /\ StepsOf(rest) = StepsOf(stack) \cup StepsOf(segments)
  BY <1>1, <1>2, FramesJoined
<1>4. tail \o rest \in Seq(Frames) /\ StepsOf(tail \o rest) = StepsOf(tail) \cup StepsOf(rest)
  BY <1>1, <1>3, FramesJoined
<1>5. QED
  BY <1>1, <1>2, <1>3, <1>4 DEF LineOf

LEMMA WalkStep ==
  ASSUME Trees, WorkerInv, CarriedOn, NEW w \in Workers, NEW i, NEW next, NEW u,
         NEW delayed, NEW later, i = inv[w], inv' = [inv EXCEPT ![w] = next],
         delayed = Delayed, later = Delayed', UNCHANGED <<messages, environment>>,
         Writes(u), u \in Steps => status'[u] # "filtered" \/ status'[u] = status[u],
         i.pc \in Walking, next.pc \in Walking, next.msg = i.msg, next.sweep = i.sweep,
         next.parks = i.parks, next.flow = i.flow,
         next.stack \in Seq(Frames), next.segments \in Seq(Frames), next.tail \in Seq(Frames),
         NEW left \in SUBSET Spine, WalkShaped(next, left),
         InHand(next) \cap Spine \subseteq InHand(i),
         next.pc = "suspend" =>
           Members(next.paused) \cap Spine \subseteq InHand(i)
             \cup (IF i.pc = "suspend" THEN Members(i.paused) ELSE {}),
         \A s \in Spine \ {u} : s \in ByInvocation(delayed, i) => s \in ByInvocation(later, next),
         u \in Halted /\ u \notin Halted' => Beyond(u) \subseteq left,
         u \in Spine => u \in ByInvocation(later, next) \/ Settled(u)'
  PROVE  CarriedOn'
<1>1. i.pc # "idle" /\ i.msg \in Envelopes /\ Shaped(i)
  BY Holding DEF Walking
<1>2. Shaped(next)
  BY <1>1, WalkOn
<1>3. left \subseteq ByInvocation(later, next)
  <2>1. left \subseteq StepsOf(LineOf(next))
    BY LineTyped, LineSteps DEF WalkShaped
  <2>2. QED
    BY <2>1 DEF ByInvocation, InHand
<1>4. dead' = dead /\ off' = off /\ queue' = queue
  BY DEF messages, environment
<1>5. u \in Steps /\ status'[u] = "filtered" => u \in Spine
  BY DEF CarriedOn, Shapes
<1>6. u \in Spine => u \in ByInvocation(later, next) \/ Accounted(u)'
  BY DEF Accounted
<1>7. QED
  BY <1>2, <1>3, <1>4, <1>5, <1>6, CarryStep DEF Writes

(* A filter says no: what is left behind it is out of everybody's hands.   *)
LEMMA StopStep ==
  ASSUME Trees, WorkerInv, CarriedOn, NEW w \in Workers, NEW i, NEW next, NEW u \in Spine,
         i = inv[w], inv' = [inv EXCEPT ![w] = next], UNCHANGED <<messages, environment>>,
         Writes(u), status'[u] = "filtered", i.pc \in {"walk", "run"}, next.pc = "stop",
         next.msg = i.msg, next.sweep = i.sweep, next.parks = i.parks, next.flow = i.flow,
         StopShaped(next), InHand(i) \cap Spine \subseteq {u} \cup Beyond(u)
  PROVE  CarriedOn'
<1>1. PICK delayed, later : delayed = Delayed /\ later = Delayed'
  OBVIOUS
<1>2. /\ i.pc \in Walking /\ i.pc \in Sweeping /\ next.pc \in Sweeping
      /\ next.pc \notin Walking \cup Starting \cup {"idle", "park"}
      /\ i.pc \notin {"idle", "resume", "requeue", "failed", "raise", "suspend", "pauses", "close", "drop"}
  BY DEF Walking, Sweeping, Starting
<1>3. i.msg \in Envelopes /\ Shaped(i)
  BY <1>2, Holding
<1>4. /\ MessageShaped(i.msg) /\ (i.msg.kind = "resume" => WithinMessage(i))
      /\ \A park \in Members(i.parks) : ParkShaped(park)
  BY <1>2, <1>3 DEF Shaped
<1>5. i.msg.kind = "resume" => WithinMessage(next)
  BY <1>2, <1>4 DEF WithinMessage, Starting
<1>6. Shaped(next)
  BY <1>2, <1>4, <1>5 DEF Shaped, Starting
<1>7. u \in Halted' /\ u \in Steps
  BY SpineTyped DEF Halted
<1>8. \A s \in Spine : s = u \/ s \in Beyond(u) => Accounted(s)'
  BY <1>7 DEF Accounted, Blocked
<1>9. delayed \ {u} \subseteq later
  BY <1>1 DEF Delayed, Writes
<1>10. ASSUME NEW s \in Spine \ {u}, s \in ByInvocation(delayed, i)
       PROVE  s \in ByInvocation(later, next) \/ Accounted(s)'
  <2>1. s \in BySweep(delayed, i) \/ s \in InHand(i)
    BY <1>2, <1>10 DEF ByInvocation
  <2>2. BySweep(later, next) = BySweep(later, i)
    BY DEF BySweep
  <2>3. s \in BySweep(delayed, i) => s \in BySweep(later, next)
    BY <1>9, <2>2, MoreDelayed
  <2>4. QED
    BY <1>2, <1>8, <2>1, <2>3 DEF ByInvocation
<1>11. dead' = dead /\ off' = off /\ queue' = queue
  BY DEF messages, environment
<1>12. QED
  BY <1>1, <1>6, <1>7, <1>8, <1>10, <1>11, CarryStep DEF Writes

(* The first step of the top frame, and what is left behind it.            *)
OnTop(i, s, moved, top, adv, rest, left) ==
    /\ i.pc = "walk" /\ i.tail = <<>> /\ i.step = NoStep
    /\ i.stack = Push(top, rest) /\ moved = Push(adv, rest)
    /\ adv.owner = top.owner /\ adv.loop = top.loop /\ adv.more = top.more
    /\ Members(top.steps) = {s} \cup Members(adv.steps)
    /\ WalkShaped(i, left) /\ Beyond(s) \subseteq left
    /\ Line(Push(adv, rest \o i.segments), Beyond(s))
    /\ \/ s \in InnerSteps /\ Beyond(s) = left
       \/ /\ s \in Spine /\ rest = <<>> /\ i.segments = <<>>
          /\ Plain(top) /\ Plain(adv) /\ left = {s} \cup Beyond(s)

LEMMA Advanced ==
  ASSUME Trees, WorkerInv, CarriedOn, NEW w \in Workers, NEW i, i = inv[w],
         NEW s \in Steps, AtStep(w, s)
  PROVE  \E top, adv \in Frames : \E rest \in Seq(Frames) : \E left \in SUBSET Spine :
           OnTop(i, s, Advance(w), top, adv, rest, left)
<1>1. /\ i.pc = "walk" /\ i.stack # <<>> /\ Top(w).steps # <<>> /\ Head(Top(w).steps) = s
      /\ i.step = NoStep /\ Shaped(i) /\ i.stack \in Seq(Frames) /\ i.segments \in Seq(Frames)
  BY Holding DEF AtStep
<1>2. PICK left \in SUBSET Spine : WalkShaped(i, left)
  BY <1>1 DEF Shaped, Walking
<1>3. i.tail = <<>> /\ Line(LineOf(i), left)
  BY <1>1, <1>2 DEF WalkShaped
<1>4. PICK top, rest : top = Top(w) /\ rest = Pop(w)
  OBVIOUS
<1>5. top \in Frames /\ rest \in Seq(Frames) /\ i.stack = Push(top, rest)
  BY <1>1, <1>4, MembersPop DEF Top, Pop, Push
<1>6. PICK adv : adv = [top EXCEPT !.steps = Tail(@)]
  OBVIOUS
<1>7. /\ adv \in Frames /\ adv.steps = Tail(top.steps) /\ adv.owner = top.owner
      /\ adv.loop = top.loop /\ adv.more = top.more
  <2>1. top.steps \in Seq(Steps) /\ top.steps # <<>>
    BY <1>1, <1>4, <1>5 DEF Frames
  <2>2. Tail(top.steps) \in Seq(Steps)
    BY <2>1
  <2>3. QED
    BY <1>5, <1>6, <2>2 DEF Frames
<1>8. Advance(w) = Push(adv, rest)
  <2>1. PICK moved : moved = [i.stack EXCEPT ![1] = adv]
    OBVIOUS
  <2>2. Advance(w) = moved
    <3>1. i.stack[1] = top
      BY <1>1, <1>4 DEF Top
    <3>2. QED
      BY <1>1, <1>6, <2>1, <3>1 DEF Advance
  <2>3. moved \in Seq(Frames) /\ moved # <<>> /\ Head(moved) = adv /\ Tail(moved) = rest
    BY <1>1, <1>4, <1>7, <2>1, ReplaceHead DEF Pop
  <2>4. QED
    BY <2>2, <2>3, MembersPop DEF Push
<1>9. PICK behind : behind = rest \o i.segments
  OBVIOUS
<1>10. LineOf(i) = Push(top, behind) /\ behind \in Seq(Frames)
       /\ (behind = <<>> <=> rest = <<>> /\ i.segments = <<>>)
  BY <1>1, <1>3, <1>5, <1>9, LineOfStack
<1>11. top.steps # <<>> /\ s = Head(top.steps) /\ Line(Push(top, behind), left)
  BY <1>1, <1>3, <1>4, <1>10
<1>12. /\ Beyond(s) \subseteq left /\ Line(Push(adv, behind), Beyond(s))
       /\ Members(top.steps) = {s} \cup Members(adv.steps)
       /\ \/ s \in InnerSteps /\ Beyond(s) = left
          \/ /\ s \in Spine /\ behind = <<>> /\ Plain(top) /\ Plain(adv)
             /\ left = {s} \cup Beyond(s)
  <2>1. top \in Frames /\ adv \in Frames /\ behind \in Seq(Frames)
    BY <1>5, <1>7, <1>10
  <2>2. /\ top.steps # <<>> /\ s = Head(top.steps) /\ adv.steps = Tail(top.steps)
        /\ adv.owner = top.owner /\ adv.loop = top.loop /\ adv.more = top.more
    BY <1>7, <1>11
  <2>3. Line(Push(top, behind), left)
    BY <1>11
  <2>4. QED
    BY <2>1, <2>2, <2>3, LineAdvance
<1>13. OnTop(i, s, Advance(w), top, adv, rest, left)
  BY <1>1, <1>2, <1>3, <1>5, <1>7, <1>8, <1>9, <1>10, <1>12 DEF OnTop
<1>14. QED
  BY <1>5, <1>7, <1>13

(* What an invocation has in hand, frame by frame.                         *)
LEMMA HandOf ==
  ASSUME NEW i, i.tail = <<>>, i.segments \in Seq(Frames), NEW frame \in Frames,
         NEW rest \in Seq(Frames), i.stack = Push(frame, rest)
  PROVE  InHand(i) = Members(frame.steps) \cup StepsOf(rest) \cup StepsOf(i.segments)
                     \cup {i.step} \cup {frame.owner} \cup Owners(rest)
<1>1. /\ StepsOf(LineOf(i)) = Members(frame.steps) \cup StepsOf(rest) \cup StepsOf(i.segments)
      /\ Owners(i.stack) = {frame.owner} \cup Owners(rest)
  BY LineOfStack
<1>2. QED
  BY <1>1 DEF InHand

LEMMA PassByCarries ==
  ASSUME Trees, WorkerInv, CarriedOn, NEW w \in Workers, NEW s \in Steps, PassBy(w, s)
  PROVE  CarriedOn'
<1>1. PICK i, delayed, later : i = inv[w] /\ delayed = Delayed /\ later = Delayed'
  OBVIOUS
<1>2. /\ AtStep(w, s) /\ status[s] \in Finished /\ UNCHANGED <<records, messages, environment>>
      /\ inv' = [inv EXCEPT ![w].stack = Advance(w), ![w].pc = WalkOrStop(s)]
  BY DEF PassBy, ReadsFinished
<1>3. PICK top \in Frames, adv \in Frames, rest \in Seq(Frames), left \in SUBSET Spine :
        OnTop(i, s, Advance(w), top, adv, rest, left)
  BY <1>1, <1>2, Advanced
<1> USE DEF OnTop
<1>4. PICK stack, pc : stack = Push(adv, rest) /\ pc = WalkOrStop(s)
  OBVIOUS
<1>5. PICK next : next = [i EXCEPT !.stack = stack, !.pc = pc]
  OBVIOUS
<1>6. inv' = [inv EXCEPT ![w] = next]
  BY <1>1, <1>2, <1>3, <1>4, <1>5
<1>7. /\ Shaped(i) /\ i.segments \in Seq(Frames) /\ i.msg \in Envelopes /\ i.pc # "idle"
      /\ i.parks \in Seq(Suspensions)
  BY <1>1, <1>3, Holding
<1>8. /\ next.pc = pc /\ next.stack = stack /\ Goes(i, next) /\ next.tail = <<>>
      /\ next.step = NoStep /\ next.paused = i.paused
  BY <1>1, <1>3, <1>5, Holding DEF Invocations, Goes
<1>9. stack \in Seq(Frames) /\ i.stack \in Seq(Frames)
  BY <1>3, <1>4, FramesPush
<1>10. status' = status /\ delayed = later
  BY <1>1, <1>2 DEF records, Delayed
<1>11. /\ InHand(i) = Members(top.steps) \cup StepsOf(rest) \cup StepsOf(i.segments)
                     \cup {NoStep} \cup {top.owner} \cup Owners(rest)
       /\ InHand(next) = Members(adv.steps) \cup StepsOf(rest) \cup StepsOf(i.segments)
                     \cup {NoStep} \cup {top.owner} \cup Owners(rest)
  <2>1. i.tail = <<>> /\ i.stack = Push(top, rest) /\ i.step = NoStep
    BY <1>3
  <2>2. next.tail = <<>> /\ next.stack = Push(adv, rest) /\ next.step = NoStep
        /\ next.segments = i.segments /\ next.segments \in Seq(Frames) /\ adv.owner = top.owner
    BY <1>3, <1>4, <1>7, <1>8 DEF Goes
  <2>3. InHand(i) = Members(top.steps) \cup StepsOf(rest) \cup StepsOf(i.segments)
                     \cup {i.step} \cup {top.owner} \cup Owners(rest)
    BY <1>7, <2>1, HandOf
  <2>4. InHand(next) = Members(adv.steps) \cup StepsOf(rest) \cup StepsOf(next.segments)
                     \cup {next.step} \cup {adv.owner} \cup Owners(rest)
    BY <2>2, HandOf
  <2>5. QED
    BY <2>1, <2>2, <2>3, <2>4
<1>12. CASE status[s] = "completed"
  <2>1. next.pc = "walk"
    BY <1>4, <1>8, <1>12 DEF WalkOrStop
  <2>2. Line(LineOf(next), Beyond(s))
    <3>1. next.tail = <<>> /\ next.stack = Push(adv, rest) /\ next.segments = i.segments
          /\ next.segments \in Seq(Frames)
      BY <1>4, <1>7, <1>8 DEF Goes
    <3>2. LineOf(next) = Push(adv, rest \o next.segments)
      BY <3>1, LineOfStack
    <3>3. QED
      BY <1>3, <3>1, <3>2
  <2>3. Nests(stack, i.segments)
    <3>1. Nests(i.stack, i.segments)
      BY <1>3 DEF WalkShaped
    <3>2. QED
      BY <1>3, <1>4, <3>1, NestsPush
  <2>4. WalkShaped(next, Beyond(s))
    <3>1. /\ \A t \in left : FlowOf[t] = i.flow
          /\ NoOwners(i.tail) /\ NoOwners(i.segments)
      BY <1>3 DEF WalkShaped
    <3>2. QED
      BY <1>3, <1>8, <2>1, <2>2, <2>3, <3>1, SpineTyped DEF WalkShaped, Goes
  <2>5. Beyond(s) \in SUBSET Spine
    BY <1>3
  <2>6. \A t \in Spine \ {s} : t \in ByInvocation(delayed, i) => t \in ByInvocation(later, next)
    <3>1. (InHand(i) \cap Spine) \ {s} \subseteq InHand(next)
      BY <1>3, <1>11
    <3>2. i.pc \in Walking /\ next.pc \in Walking /\ delayed \ {s} \subseteq later
      BY <1>3, <1>10, <2>1 DEF Walking
    <3>3. QED
      BY <1>3, <1>8, <3>1, <3>2, WalkCarries DEF Goes
  <2>7. InHand(next) \cap Spine \subseteq InHand(i)
    BY <1>3, <1>11
  <2>8. Writes(s) /\ status'[s] = status[s] /\ Settled(s)' /\ UNCHANGED <<messages, environment>>
    BY <1>2, <1>10, <1>12 DEF Writes, Settled
  <2>9. i.pc \in Walking /\ next.pc \in Walking /\ next.pc # "suspend"
    BY <1>3, <2>1 DEF Walking
  <2>10. s \in Halted => s \in Halted'
    BY <1>10 DEF Halted
  <2>11. /\ next.msg = i.msg /\ next.sweep = i.sweep /\ next.parks = i.parks
         /\ next.flow = i.flow /\ next.stack \in Seq(Frames) /\ next.segments \in Seq(Frames)
         /\ next.tail \in Seq(Frames)
    BY <1>7, <1>8, <1>9 DEF Goes
  <2>12. QED
    BY <1>1, <1>6, <2>4, <2>5, <2>6, <2>7, <2>8, <2>9, <2>10, <2>11, WalkStep
<1>13. CASE status[s] # "completed"
  <2>1. status[s] = "filtered" /\ s \in Spine /\ next.pc = "stop"
    BY <1>2, <1>4, <1>8, <1>13 DEF Finished, WalkOrStop, CarriedOn, Shapes
  <2>2. rest = <<>> /\ i.segments = <<>> /\ Plain(top) /\ Plain(adv) /\ left = {s} \cup Beyond(s)
    BY <1>3, <2>1, InnerApart
  <2>3. StopShaped(next)
    <3>1. AllPlain(stack)
      BY <1>3, <1>4, <2>2, FramesPush, FramesOf
    <3>2. QED
      BY <1>8, <2>2, <3>1 DEF StopShaped, Goes
  <2>4. InHand(i) \cap Spine \subseteq {s} \cup Beyond(s)
    <3>1. StepsOf(LineOf(i)) \cap Spine = left
      <4>1. LineOf(i) \in Seq(Frames)
        BY <1>1, <1>7, <1>9, Holding, LineTyped
      <4>2. Line(LineOf(i), left)
        BY <1>3 DEF WalkShaped
      <4>3. QED
        BY <1>3, <4>1, <4>2, LineSteps
    <3>2. Owners(i.stack) = {NoStep}
      <4>1. Owners(Push(top, rest)) = {top.owner} \cup Owners(rest)
        BY <1>3, FramesPush
      <4>2. top.owner = NoStep /\ Owners(rest) = {}
        BY <2>2, FramesOf DEF Plain
      <4>3. QED
        BY <1>3, <4>1, <4>2
    <3>3. QED
      BY <1>3, <2>2, <3>1, <3>2, SpineTyped DEF InHand
  <2>5. Writes(s) /\ status'[s] = "filtered" /\ UNCHANGED <<messages, environment>>
    BY <1>2, <1>10, <2>1 DEF Writes
  <2>6. QED
    BY <1>1, <1>3, <1>6, <1>8, <2>1, <2>3, <2>4, <2>5, StopStep DEF Goes
<1>14. QED
  BY <1>12, <1>13

(* Nothing but the place of the invocation in its chains changes.          *)
LEMMA QuietWalk ==
  ASSUME Trees, WorkerInv, CarriedOn, NEW w \in Workers, NEW i, NEW next,
         i = inv[w], inv' = [inv EXCEPT ![w] = next], UNCHANGED <<records, messages, environment>>,
         i.pc \in Walking, next.pc \in Walking, next.msg = i.msg, next.sweep = i.sweep,
         next.parks = i.parks, next.flow = i.flow,
         next.stack \in Seq(Frames), next.segments \in Seq(Frames), next.tail \in Seq(Frames),
         NEW left \in SUBSET Spine, WalkShaped(next, left),
         InHand(next) \cap Spine \subseteq InHand(i),
         next.pc = "suspend" =>
           Members(next.paused) \cap Spine \subseteq InHand(i)
             \cup (IF i.pc = "suspend" THEN Members(i.paused) ELSE {}),
         NEW delayed, delayed = Delayed,
         \A s \in Spine : s \in ByInvocation(delayed, i) => s \in ByInvocation(delayed, next)
  PROVE  CarriedOn'
<1>1. i.pc # "idle" /\ i.msg \in Envelopes /\ Shaped(i)
  BY Holding DEF Walking
<1>2. Shaped(next)
  BY <1>1, WalkOn
<1>3. PICK later : later = Delayed'
  OBVIOUS
<1>4. status' = status /\ dead' = dead /\ off' = off /\ queue' = queue
  BY DEF records, messages, environment
<1>5. \A s \in Spine : s \in ByInvocation(delayed, i) => s \in ByInvocation(later, next)
  BY <1>3, <1>4 DEF Delayed
<1>6. \E u : u \notin Steps /\ u \notin Spine /\ u \notin Halted
  BY SpineTyped, ChainsAssumption DEF Halted
<1>7. ASSUME NEW u, u \notin Steps, u \notin Spine, u \notin Halted PROVE CarriedOn'
  <2>1. \A s \in Steps : s # u => status'[s] = status[s]
    BY <1>4
  <2>2. dead' = dead /\ off' = off /\ queue' = queue
    BY <1>4
  <2>3. \A s \in Spine \ {u} : s \in ByInvocation(delayed, i) =>
          s \in ByInvocation(later, next) \/ Accounted(s)'
    BY <1>5
  <2>4. QED
    BY <1>2, <1>3, <1>7, <2>1, <2>2, <2>3, CarryStep
<1>8. QED
  BY <1>6, <1>7

(* The chains stay as they are.                                            *)
LEMMA SameStack ==
  ASSUME NEW i, NEW next, NEW left \in SUBSET Spine, WalkShaped(i, left), i.pc # "suspend",
         next.flow = i.flow, next.stack = i.stack, next.segments = i.segments, next.tail = i.tail,
         next.step \in {i.step, NoStep},
         next.pc = "suspend" => \A s \in Members(next.paused) : Beyond(s) = left
  PROVE  /\ WalkShaped(next, left)
         /\ InHand(next) \cap Spine \subseteq InHand(i)
         /\ InHand(i) \ {i.step} \subseteq InHand(next)
<1>1. LineOf(next) = LineOf(i)
  BY DEF LineOf
<1>2. InHand(next) \cap Spine \subseteq InHand(i) /\ InHand(i) \ {i.step} \subseteq InHand(next)
  BY <1>1, SpineTyped DEF InHand
<1>3. WalkShaped(next, left)
  <2>1. next.step # NoStep => next.step = i.step
    OBVIOUS
  <2>2. next.step \in Spine => next.step = i.step
    BY SpineTyped
  <2>3. StopShaped(i) => StopShaped(next)
    BY DEF StopShaped
  <2>4. i.tail = <<>>
    BY DEF WalkShaped
  <2>5. QED
    BY <1>1, <2>1, <2>2, <2>3, <2>4 DEF WalkShaped
<1>4. QED
  BY <1>2, <1>3

LEMMA BusyCarries ==
  ASSUME Trees, WorkerInv, CarriedOn, NEW w \in Workers, NEW s \in Steps, Busy(w, s)
  PROVE  CarriedOn'
<1>1. PICK i : i = inv[w]
  OBVIOUS
<1>2. PICK next : next = [i EXCEPT !.pc = "raise", !.error = "busy"]
  OBVIOUS
<1>3. /\ i.pc = "walk" /\ UNCHANGED <<records, messages, environment>>
      /\ inv' = [inv EXCEPT ![w] = next]
  BY <1>1, <1>2 DEF Busy, AtStep
<1>4. /\ Shaped(i) /\ i.stack \in Seq(Frames) /\ i.segments \in Seq(Frames) /\ i.tail \in Seq(Frames)
      /\ i.step = NoStep
  BY <1>1, <1>3, Holding
<1>5. /\ next.pc = "raise" /\ Goes(i, next) /\ next.tail = i.tail
      /\ next.step = i.step /\ next.stack = i.stack
  BY <1>1, <1>2, Holding DEF Invocations, Goes
<1>6. PICK left \in SUBSET Spine : WalkShaped(i, left)
  BY <1>3, <1>4 DEF Shaped, Walking
<1>7. /\ WalkShaped(next, left) /\ InHand(next) \cap Spine \subseteq InHand(i)
      /\ InHand(i) \ {i.step} \subseteq InHand(next)
  BY <1>3, <1>5, <1>6, SameStack DEF Goes
<1>8. i.pc \in Walking /\ next.pc \in Walking
  BY <1>3, <1>5 DEF Walking
<1>9. ASSUME NEW delayed
      PROVE  \A t \in Spine : t \in ByInvocation(delayed, i) => t \in ByInvocation(delayed, next)
  <2>1. (InHand(i) \cap Spine) \ {NoStep} \subseteq InHand(next)
    BY <1>4, <1>7
  <2>2. \A t \in Spine \ {NoStep} : t \in ByInvocation(delayed, i) => t \in ByInvocation(delayed, next)
    BY <1>3, <1>5, <1>8, <2>1, WalkCarries DEF Goes
  <2>3. QED
    BY <2>2, SpineTyped
<1>10. QED
  BY <1>1, <1>3, <1>4, <1>5, <1>7, <1>8, <1>9, QuietWalk DEF Goes

LEMMA NextSegmentCarries ==
  ASSUME Trees, WorkerInv, CarriedOn, NEW w \in Workers, NextSegment(w)
  PROVE  CarriedOn'
<1>1. PICK i : i = inv[w]
  OBVIOUS
<1>2. PICK segments, frame, rest :
        segments = i.segments /\ frame = Head(i.segments) /\ rest = Tail(i.segments)
  OBVIOUS
<1>3. PICK next : next = [i EXCEPT !.stack = <<frame>>, !.segments = rest]
  OBVIOUS
<1>4. /\ i.pc = "walk" /\ i.stack = <<>> /\ i.segments # <<>>
      /\ UNCHANGED <<records, messages, environment>> /\ inv' = [inv EXCEPT ![w] = next]
  BY <1>1, <1>2, <1>3 DEF NextSegment
<1>5. /\ Shaped(i) /\ i.segments \in Seq(Frames) /\ i.step = NoStep /\ i.tail \in Seq(Frames)
  BY <1>1, <1>4, Holding
<1>6. /\ next.pc = "walk" /\ next.msg = i.msg /\ next.sweep = i.sweep /\ next.parks = i.parks
      /\ next.flow = i.flow /\ next.tail = i.tail /\ next.step = NoStep /\ next.stack = <<frame>>
      /\ next.segments = rest
  BY <1>1, <1>3, <1>4, <1>5, Holding DEF Invocations
<1>7. PICK left \in SUBSET Spine : WalkShaped(i, left)
  BY <1>4, <1>5 DEF Shaped, Walking
<1>8. i.tail = <<>> /\ Line(LineOf(i), left) /\ NoOwners(segments)
      /\ \A t \in left : FlowOf[t] = i.flow
  BY <1>2, <1>4, <1>7 DEF WalkShaped
<1>9. /\ frame \in Frames /\ rest \in Seq(Frames) /\ segments \in Seq(Frames)
      /\ segments = Push(frame, rest) /\ frame \in Members(segments)
      /\ Members(rest) \subseteq Members(segments)
  BY <1>2, <1>4, <1>5, MembersPop DEF Push
<1>10. LineOf(i) = segments /\ LineOf(next) = segments
  <2>1. <<>> \o segments = segments
    BY <1>9, Unpadded
  <2>2. LineOf(next) = <<>> \o segments
    BY <1>6, <1>8, <1>9 DEF LineOf, Push
  <2>3. LineOf(i) = <<>> \o (<<>> \o segments)
    BY <1>2, <1>4, <1>8 DEF LineOf
  <2>4. QED
    BY <2>1, <2>2, <2>3
<1>11. frame.owner = NoStep /\ NoOwners(rest)
  BY <1>8, <1>9 DEF NoOwners
<1>12. <<frame>> \in Seq(Frames) /\ NoOwners(<<frame>>) /\ Owners(<<frame>>) = {NoStep}
  BY <1>9, <1>11, FramesOf
<1>13. InHand(i) = StepsOf(segments) \cup {NoStep} /\ InHand(next) = StepsOf(segments) \cup {NoStep}
  BY <1>4, <1>5, <1>6, <1>10, <1>12, FramesOf DEF InHand
<1>14. WalkShaped(next, left)
  <2>1. Nests(<<frame>>, rest)
    BY <1>12, OwnerlessFrames
  <2>2. QED
    BY <1>6, <1>8, <1>7, <1>10, <1>11, <2>1, SpineTyped DEF WalkShaped
<1>15. i.pc \in Walking /\ next.pc \in Walking
  BY <1>4, <1>6 DEF Walking
<1>16. ASSUME NEW delayed
       PROVE  \A t \in Spine : t \in ByInvocation(delayed, i) => t \in ByInvocation(delayed, next)
  <2>1. \A t \in Spine \ {NoStep} : t \in ByInvocation(delayed, i) => t \in ByInvocation(delayed, next)
    BY <1>4, <1>6, <1>13, <1>15, WalkCarries
  <2>2. QED
    BY <2>1, SpineTyped
<1>17. QED
  BY <1>1, <1>4, <1>5, <1>6, <1>9, <1>12, <1>13, <1>14, <1>15, <1>16, QuietWalk

-----------------------------------------------------------------------------
(* The steps of run_chain.                                                 *)

(* The chains behind the step that was first.                              *)
LEMMA BehindTop ==
  ASSUME Trees, NEW i, NEW s \in Steps, NEW moved, NEW top \in Frames, NEW adv \in Frames,
         NEW rest \in Seq(Frames), NEW left \in SUBSET Spine, OnTop(i, s, moved, top, adv, rest, left),
         i.segments \in Seq(Frames)
  PROVE  /\ moved \in Seq(Frames) /\ moved # <<>> /\ Beyond(s) \in SUBSET Spine
         /\ moved \o i.segments \in Seq(Frames)
         /\ Line(moved \o i.segments, Beyond(s)) /\ Nests(moved, i.segments)
         /\ s \in Spine => i.segments = <<>> /\ AllPlain(moved)
         /\ s \in Spine \cup InnerSteps /\ NoOwners(i.segments)
         /\ \A t \in Beyond(s) : FlowOf[t] = i.flow
         /\ InHand(i) = {s} \cup StepsOf(moved \o i.segments) \cup Owners(moved) \cup {NoStep}
<1> USE DEF OnTop
<1>1. PICK behind : behind = rest \o i.segments
  OBVIOUS
<1>2. moved \o i.segments = Push(adv, behind) /\ behind \in Seq(Frames)
  <2>1. PICK one, segments : one = <<adv>> /\ segments = i.segments
    OBVIOUS
  <2>2. one \in Seq(Frames) /\ segments \in Seq(Frames) /\ moved = one \o rest
    BY <2>1 DEF Push
  <2>3. (one \o rest) \o segments = one \o (rest \o segments)
    BY <2>2, Regrouped, Zenon
  <2>4. rest \o segments \in Seq(Frames)
    BY <2>2
  <2>5. QED
    BY <1>1, <2>1, <2>2, <2>3, <2>4 DEF Push
<1>3. /\ moved \in Seq(Frames) /\ Owners(moved) = {top.owner} \cup Owners(rest)
      /\ StepsOf(moved) = Members(adv.steps) \cup StepsOf(rest)
      /\ AllPlain(moved) <=> Plain(adv) /\ AllPlain(rest)
  BY FramesPush
<1>4. Push(adv, behind) \in Seq(Frames)
  BY <1>2, FramesPush
<1>5. StepsOf(moved \o i.segments) = StepsOf(moved) \cup StepsOf(i.segments)
  BY <1>3, FramesJoined
<1>6. /\ Nests(i.stack, i.segments) /\ NoOwners(i.segments)
      /\ \A t \in left : FlowOf[t] = i.flow
  BY DEF WalkShaped
<1>7. Nests(moved, i.segments)
  BY <1>6, NestsPush
<1>8. InHand(i) = Members(top.steps) \cup StepsOf(rest) \cup StepsOf(i.segments)
                  \cup {i.step} \cup {top.owner} \cup Owners(rest)
  BY HandOf
<1>9. moved # <<>>
  BY DEF Push
<1>10. s \in Spine => i.segments = <<>> /\ AllPlain(moved)
  BY <1>3, FramesOf, InnerApart
<1>11. InHand(i) = {s} \cup StepsOf(moved \o i.segments) \cup Owners(moved) \cup {NoStep}
  BY <1>3, <1>5, <1>8
<1>12. Line(moved \o i.segments, Beyond(s))
  BY <1>1, <1>2
<1>13. QED
  BY <1>2, <1>3, <1>4, <1>6, <1>7, <1>9, <1>10, <1>11, <1>12

(* The line of an invocation that has no tail.                             *)
LEMMA LineBare ==
  ASSUME NEW i, i.tail = <<>>, i.stack \in Seq(Frames), i.segments \in Seq(Frames)
  PROVE  /\ LineOf(i) = i.stack \o i.segments /\ LineOf(i) \in Seq(Frames)
         /\ InHand(i) = StepsOf(i.stack \o i.segments) \cup {i.step} \cup Owners(i.stack)
<1>1. PICK stack, segments : stack = i.stack /\ segments = i.segments
  OBVIOUS
<1>2. PICK all : all = stack \o segments
  OBVIOUS
<1>3. all \in Seq(Frames)
  BY <1>1, <1>2
<1>4. <<>> \o all = all
  BY <1>3, Unpadded
<1>5. LineOf(i) = all
  BY <1>1, <1>2, <1>4 DEF LineOf
<1>6. QED
  BY <1>1, <1>2, <1>3, <1>5 DEF InHand

LEMMA TakeStep ==
  ASSUME Trees, WorkerInv, CarriedOn, NEW w \in Workers, NEW s \in Steps, Take(w, s),
         Kind[s] \notin {"branch", "loop"}
  PROVE  CarriedOn'
<1>1. PICK i, delayed, later : i = inv[w] /\ delayed = Delayed /\ later = Delayed'
  OBVIOUS
<1>2. /\ AtStep(w, s) /\ status' = [status EXCEPT ![s] = "processing"]
      /\ inv' = [inv EXCEPT ![w].pc = "run", ![w].step = s, ![w].stack = Advance(w)]
      /\ UNCHANGED <<messages, environment>>
  BY DEF Take
<1>3. PICK moved : moved = Advance(w)
  OBVIOUS
<1>4. PICK top \in Frames, adv \in Frames, rest \in Seq(Frames), left \in SUBSET Spine :
        OnTop(i, s, moved, top, adv, rest, left)
  BY <1>1, <1>2, <1>3, Advanced
<1>5. PICK next : next = [i EXCEPT !.pc = "run", !.step = s, !.stack = moved]
  OBVIOUS
<1>6. inv' = [inv EXCEPT ![w] = next]
  BY <1>1, <1>2, <1>3, <1>5
<1>7. i.segments \in Seq(Frames) /\ i.pc = "walk" /\ i.tail = <<>> /\ i.step = NoStep
  BY <1>1, <1>4, Holding DEF OnTop
<1>8. /\ next.pc = "run" /\ next.stack = moved /\ Goes(i, next) /\ next.tail = <<>>
      /\ next.step = s /\ next.segments = i.segments
  BY <1>1, <1>5, <1>7, Holding DEF Invocations, Goes
<1>9. /\ moved \in Seq(Frames) /\ Beyond(s) \in SUBSET Spine
      /\ Line(moved \o i.segments, Beyond(s)) /\ Nests(moved, i.segments)
      /\ s \in Spine => i.segments = <<>> /\ AllPlain(moved)
      /\ s \in Spine \cup InnerSteps /\ NoOwners(i.segments)
      /\ \A t \in Beyond(s) : FlowOf[t] = i.flow
      /\ InHand(i) = {s} \cup StepsOf(moved \o i.segments) \cup Owners(moved) \cup {NoStep}
  BY <1>4, <1>7, BehindTop
<1>10. LineOf(next) = moved \o i.segments
       /\ InHand(next) = StepsOf(moved \o i.segments) \cup {s} \cup Owners(moved)
  BY <1>7, <1>8, <1>9, LineBare
<1>11. WalkShaped(next, Beyond(s))
  <2>1. next.step \in Spine => StopShaped(next)
    BY <1>8, <1>9 DEF StopShaped
  <2>2. NoOwners(next.tail)
    BY <1>8, FramesOf
  <2>3. QED
    BY <1>8, <1>9, <1>10, <2>1, <2>2 DEF WalkShaped, Goes
<1>12. i.pc \in Walking /\ next.pc \in Walking
  BY <1>7, <1>8 DEF Walking
<1>13. Writes(s) /\ status'[s] = "processing"
  BY <1>2 DEF Writes, WorkerInv, TypeOK
<1>14. \A t \in Spine \ {s} : t \in ByInvocation(delayed, i) => t \in ByInvocation(later, next)
  <2>1. (InHand(i) \cap Spine) \ {s} \subseteq InHand(next)
    BY <1>9, <1>10, SpineTyped
  <2>2. delayed \ {s} \subseteq later
    BY <1>1, <1>13 DEF Delayed, Writes
  <2>3. QED
    BY <1>7, <1>8, <1>12, <2>1, <2>2, WalkCarries DEF Goes
<1>15. InHand(next) \cap Spine \subseteq InHand(i)
  BY <1>9, <1>10
<1>16. s \in ByInvocation(later, next)
  BY <1>10, <1>12 DEF ByInvocation
<1>17. /\ next.msg = i.msg /\ next.sweep = i.sweep /\ next.parks = i.parks /\ next.flow = i.flow
       /\ next.stack \in Seq(Frames) /\ next.segments \in Seq(Frames) /\ next.tail \in Seq(Frames)
  BY <1>7, <1>8, <1>9 DEF Goes
<1>18. UNCHANGED <<messages, environment>> /\ next.pc # "suspend" /\ status'[s] # "filtered"
  BY <1>2, <1>8, <1>13
<1>19. QED
  BY <1>1, <1>6, <1>9, <1>11, <1>12, <1>13, <1>14, <1>15, <1>16, <1>17, <1>18, WalkStep

(* A chain that hangs on a step, in front of the chains behind it.         *)
LEMMA HangsOn ==
  ASSUME Trees, NEW s \in Steps, NEW owner \in Wrappers \cup {NoStep}, NEW loop \in BOOLEAN,
         NEW body \in Seq(Steps), NEW more \in Seq(Chains), NEW frame,
         frame = Frame(body, owner, loop, more), owner = s \/ owner = NoStep,
         s \in Spine \cup InnerSteps,
         Members(body) \subseteq Members(Recovery[s]) \cup Inner(s),
         \A chain \in Members(more) : Members(chain) \subseteq Inner(s)
  PROVE  frame \in Frames /\ Hangs(frame, Beyond(s)) /\ Members(frame.steps) \cap Spine = {}
         /\ frame.owner = owner /\ frame.steps = body
<1>1. frame \in Frames
  BY FrameTyped
<1>2. /\ frame.owner = owner /\ frame.steps = body /\ frame.more = more
  BY DEF Frame
<1>3. \A u \in Members(Recovery[s]) \cup Inner(s) : Inside(u, Beyond(s))
  BY InnerApart DEF Inside
<1>4. Hangs(frame, Beyond(s))
  BY <1>2, <1>3 DEF Hangs
<1>5. QED
  BY <1>1, <1>2, <1>4, InnerApart DEF Hangs, Inside

LEMMA BodyOf ==
  ASSUME NEW s \in Steps, Kind[s] \in {"branch", "loop"}
  PROVE  /\ s \in Wrappers /\ Head(Bodies[s]) \in Seq(Steps) /\ Tail(Bodies[s]) \in Seq(Chains)
         /\ Members(Head(Bodies[s])) \subseteq Inner(s)
         /\ \A chain \in Members(Tail(Bodies[s])) : Members(chain) \subseteq Inner(s)
<1>1. PICK bodies : bodies = Bodies[s]
  OBVIOUS
<1>2. bodies \in Seq(Seq(Steps)) /\ bodies # <<>>
  BY <1>1, ChainsAssumption
<1>3. \A k \in DOMAIN bodies : bodies[k] \in Chains /\ bodies[k] \in Seq(Steps)
  BY <1>1, <1>2 DEF Chains
<1>4. bodies \in Seq(Chains)
  BY <1>2, <1>3
<1>5. /\ Head(bodies) \in Chains /\ Tail(bodies) \in Seq(Chains)
      /\ Members(bodies) = {Head(bodies)} \cup Members(Tail(bodies))
  BY <1>2, <1>4, MembersPop
<1>6. \A chain \in Members(bodies) : Members(chain) \subseteq Inner(s)
  BY <1>1 DEF Members, Inner
<1>7. Head(bodies) \in Seq(Steps)
  BY <1>2
<1>8. QED
  BY <1>1, <1>5, <1>6, <1>7 DEF Wrappers

LEMMA TakeWrapper ==
  ASSUME Trees, WorkerInv, CarriedOn, NEW w \in Workers, NEW s \in Steps, Take(w, s),
         Kind[s] \in {"branch", "loop"}
  PROVE  CarriedOn'
<1>1. PICK i, delayed, later : i = inv[w] /\ delayed = Delayed /\ later = Delayed'
  OBVIOUS
<1>2. PICK moved, body : /\ moved = Advance(w)
                         /\ body = Frame(Head(Bodies[s]), s, Kind[s] = "loop", Tail(Bodies[s]))
  OBVIOUS
<1>3. PICK stack : stack = Push(body, moved)
  OBVIOUS
<1>4. PICK next : next = [i EXCEPT !.stack = stack]
  OBVIOUS
<1>5. /\ AtStep(w, s) /\ status' = [status EXCEPT ![s] = "processing"]
      /\ inv' = [inv EXCEPT ![w] = next] /\ UNCHANGED <<messages, environment>>
  BY <1>1, <1>2, <1>3, <1>4 DEF Take, Push
<1>6. PICK top \in Frames, adv \in Frames, rest \in Seq(Frames), left \in SUBSET Spine :
        OnTop(i, s, moved, top, adv, rest, left)
  BY <1>1, <1>2, <1>5, Advanced
<1>7. i.segments \in Seq(Frames) /\ i.pc = "walk" /\ i.tail = <<>> /\ i.step = NoStep
  BY <1>1, <1>6, Holding DEF OnTop
<1>8. /\ next.pc = "walk" /\ next.stack = stack /\ Goes(i, next) /\ next.tail = <<>>
      /\ next.step = NoStep /\ next.segments = i.segments
  BY <1>1, <1>4, <1>7, Holding DEF Invocations, Goes
<1>9. /\ moved \in Seq(Frames) /\ Beyond(s) \in SUBSET Spine
      /\ moved \o i.segments \in Seq(Frames)
      /\ Line(moved \o i.segments, Beyond(s)) /\ Nests(moved, i.segments)
      /\ s \in Spine => i.segments = <<>> /\ AllPlain(moved)
      /\ s \in Spine \cup InnerSteps /\ NoOwners(i.segments)
      /\ \A t \in Beyond(s) : FlowOf[t] = i.flow
      /\ InHand(i) = {s} \cup StepsOf(moved \o i.segments) \cup Owners(moved) \cup {NoStep}
  BY <1>6, <1>7, BehindTop
<1>10. body \in Frames /\ Hangs(body, Beyond(s)) /\ Members(body.steps) \cap Spine = {}
       /\ body.owner = s
  <2>1. PICK first, more, loop : first = Head(Bodies[s]) /\ more = Tail(Bodies[s]) /\ loop = (Kind[s] = "loop")
    OBVIOUS
  <2>2. /\ s \in Wrappers /\ first \in Seq(Steps) /\ more \in Seq(Chains) /\ loop \in BOOLEAN
        /\ Members(first) \subseteq Inner(s)
        /\ \A chain \in Members(more) : Members(chain) \subseteq Inner(s)
    BY <2>1, BodyOf
  <2>3. body = Frame(first, s, loop, more) /\ s \in Spine \cup InnerSteps
    BY <1>2, <1>9, <2>1
  <2>4. QED
    BY <2>2, <2>3, HangsOn
<1>11. /\ stack \in Seq(Frames) /\ Nests(stack, i.segments)
       /\ LineOf(next) = Push(body, moved \o i.segments)
       /\ StepsOf(LineOf(next)) = Members(body.steps) \cup StepsOf(moved \o i.segments)
       /\ Owners(stack) = {s} \cup Owners(moved)
  <2>1. stack \in Seq(Frames) /\ Owners(stack) = {s} \cup Owners(moved)
    BY <1>3, <1>9, <1>10, FramesPush
  <2>2. Nests(stack, i.segments)
    BY <1>3, <1>9, <1>10, NestsPush
  <2>3. next.segments \in Seq(Frames) /\ next.stack = Push(body, moved)
    BY <1>3, <1>7, <1>8
  <2>4. LineOf(next) = Push(body, moved \o next.segments)
    BY <1>8, <1>9, <1>10, <2>3, LineOfStack
  <2>5. StepsOf(Push(body, moved \o i.segments)) = Members(body.steps) \cup StepsOf(moved \o i.segments)
    BY <1>9, <1>10, FramesPush
  <2>6. QED
    BY <1>8, <2>1, <2>2, <2>4, <2>5
<1>12. WalkShaped(next, Beyond(s))
  <2>1. Line(LineOf(next), Beyond(s))
    <3>1. PICK behind : behind = moved \o i.segments
      OBVIOUS
    <3>2. Line(Push(body, behind), Beyond(s))
      BY <1>9, <1>10, <3>1, LinePush
    <3>3. QED
      BY <1>11, <3>1, <3>2
  <2>2. NoOwners(next.tail)
    BY <1>8, FramesOf
  <2>3. QED
    BY <1>8, <1>9, <1>11, <2>1, <2>2, SpineTyped DEF WalkShaped, Goes
<1>13. i.pc \in Walking /\ next.pc \in Walking
  BY <1>7, <1>8 DEF Walking
<1>14. Writes(s) /\ status'[s] = "processing"
  BY <1>5 DEF Writes, WorkerInv, TypeOK
<1>15. InHand(next) = Members(body.steps) \cup StepsOf(moved \o i.segments) \cup {NoStep} \cup {s} \cup Owners(moved)
  BY <1>8, <1>11 DEF InHand
<1>16. \A t \in Spine \ {s} : t \in ByInvocation(delayed, i) => t \in ByInvocation(later, next)
  <2>1. (InHand(i) \cap Spine) \ {s} \subseteq InHand(next)
    BY <1>9, <1>15
  <2>2. delayed \ {s} \subseteq later
    BY <1>1, <1>14 DEF Delayed, Writes
  <2>3. QED
    BY <1>7, <1>8, <1>13, <2>1, <2>2, WalkCarries DEF Goes
<1>17. InHand(next) \cap Spine \subseteq InHand(i)
  BY <1>9, <1>10, <1>15, SpineTyped
<1>18. s \in ByInvocation(later, next)
  BY <1>13, <1>15 DEF ByInvocation
<1>19. /\ next.msg = i.msg /\ next.sweep = i.sweep /\ next.parks = i.parks /\ next.flow = i.flow
       /\ next.stack \in Seq(Frames) /\ next.segments \in Seq(Frames) /\ next.tail \in Seq(Frames)
  BY <1>7, <1>8, <1>11 DEF Goes
<1>20. UNCHANGED <<messages, environment>> /\ next.pc # "suspend" /\ status'[s] # "filtered"
  BY <1>5, <1>8, <1>14
<1>21. QED
  BY <1>1, <1>5, <1>9, <1>12, <1>13, <1>14, <1>16, <1>17, <1>18, <1>19, <1>20, WalkStep

(* What a chain has in hand, the message can bring back.                   *)
LEMMA InMessage ==
  ASSUME NEW i, Shaped(i), i.pc \in Walking, i.msg \in Envelopes, NEW delayed
  PROVE  InHand(i) \cap Spine \subseteq ByMessage(delayed, i.msg)
<1>1. CASE i.msg.kind = "event"
  BY <1>1 DEF ByMessage
<1>2. CASE i.msg.kind = "resume"
  <2>1. i.pc # "idle"
    BY DEF Walking
  <2>2. WithinMessage(i)
    BY <1>2, <2>1 DEF Shaped
  <2>3. InHand(i) \cap Spine \subseteq StepsOf(i.msg.segments)
    BY <2>2 DEF WithinMessage
  <2>4. StepsOf(i.msg.segments) \subseteq ByMessage(delayed, i.msg)
    BY <1>2 DEF ByMessage, Pause
  <2>5. QED
    BY <2>3, <2>4
<1>3. QED
  BY <1>1, <1>2 DEF Envelopes

(* The step in hand is written, and the chains stay as they are.           *)
LEMMA InPlace ==
  ASSUME Trees, WorkerInv, CarriedOn, NEW w \in Workers, NEW i, NEW next,
         NEW delayed, NEW later, i = inv[w], inv' = [inv EXCEPT ![w] = next],
         delayed = Delayed, later = Delayed', UNCHANGED <<messages, environment>>,
         i.pc \in {"run", "mark"}, next.pc \in Walking, Goes(i, next),
         next.stack = i.stack, next.tail = i.tail, next.step \in {i.step, NoStep},
         next.pc = "suspend" => Members(next.paused) = {i.step},
         Writes(i.step), status'[i.step] # "filtered",
         i.step \in Spine => i.step \in ByInvocation(later, next) \/ Settled(i.step)'
  PROVE  CarriedOn'
<1>1. PICK u : u = i.step
  OBVIOUS
<1>2. /\ Shaped(i) /\ i.stack \in Seq(Frames) /\ i.segments \in Seq(Frames) /\ i.tail \in Seq(Frames)
      /\ u \in Steps /\ u # NoStep
  BY <1>1, Holding DEF Consistent
<1>3. i.pc \in Walking /\ i.pc # "suspend" /\ i.pc # "raise"
  BY DEF Walking
<1>4. PICK left \in SUBSET Spine : WalkShaped(i, left)
  BY <1>2, <1>3 DEF Shaped
<1>5. Beyond(u) = left
  BY <1>1, <1>2, <1>4 DEF WalkShaped
<1>6. /\ WalkShaped(next, left) /\ InHand(next) \cap Spine \subseteq InHand(i)
      /\ InHand(i) \ {u} \subseteq InHand(next)
  BY <1>1, <1>3, <1>4, <1>5, SameStack DEF Goes
<1>7. delayed \ {u} \subseteq later
  BY <1>1 DEF Delayed, Writes
<1>8. \A s \in Spine \ {u} : s \in ByInvocation(delayed, i) => s \in ByInvocation(later, next)
  <2>1. (InHand(i) \cap Spine) \ {u} \subseteq InHand(next)
    BY <1>6
  <2>2. QED
    BY <1>3, <1>7, <2>1, WalkCarries DEF Goes
<1>9. next.pc = "suspend" =>
        Members(next.paused) \cap Spine \subseteq InHand(i)
          \cup (IF i.pc = "suspend" THEN Members(i.paused) ELSE {})
  BY DEF InHand
<1>10. /\ next.msg = i.msg /\ next.sweep = i.sweep /\ next.parks = i.parks /\ next.flow = i.flow
       /\ next.stack \in Seq(Frames) /\ next.segments \in Seq(Frames) /\ next.tail \in Seq(Frames)
  BY <1>2 DEF Goes
<1>11. Writes(u) /\ status'[u] # "filtered" /\ Beyond(u) \subseteq left
       /\ (u \in Spine => u \in ByInvocation(later, next) \/ Settled(u)')
  BY <1>1, <1>5
<1>12. QED
  BY <1>3, <1>6, <1>8, <1>9, <1>10, <1>11, WalkStep

LEMMA RunStepCarries ==
  ASSUME Trees, WorkerInv, CarriedOn, NEW w \in Workers, RunStep(w)
  PROVE  CarriedOn'
<1>1. PICK i, delayed, later : i = inv[w] /\ delayed = Delayed /\ later = Delayed'
  OBVIOUS
<1>2. PICK s : s = i.step
  OBVIOUS
<1>3. i.pc = "run" /\ UNCHANGED <<messages, environment>>
  BY <1>1 DEF RunStep
<1>4. /\ Shaped(i) /\ i.stack \in Seq(Frames) /\ i.segments \in Seq(Frames) /\ i.tail \in Seq(Frames)
      /\ i.msg \in Envelopes /\ s \in Steps /\ s # NoStep /\ i \in Invocations
  BY <1>1, <1>2, <1>3, Holding DEF Consistent
<1>5. CASE Mark(s, "completed") /\ inv' = [inv EXCEPT ![w].pc = "walk", ![w].step = NoStep]
  <2>1. PICK next : next = [i EXCEPT !.pc = "walk", !.step = NoStep]
    OBVIOUS
  <2>2. inv' = [inv EXCEPT ![w] = next]
    BY <1>1, <1>5, <2>1
  <2>3. /\ next.pc = "walk" /\ Goes(i, next) /\ next.stack = i.stack /\ next.tail = i.tail
        /\ next.step = NoStep
    BY <1>4, <2>1 DEF Invocations, Goes
  <2>4. Writes(s) /\ status'[s] = "completed"
    BY <1>4, <1>5 DEF Mark, Writes, WorkerInv, TypeOK
  <2>5. Settled(s)' /\ next.pc \in Walking
    BY <2>3, <2>4 DEF Settled, Walking
  <2>6. QED
    BY <1>1, <1>2, <1>3, <2>2, <2>3, <2>4, <2>5, InPlace
<1>6. CASE Mark(s, "delayed") /\ inv' = [inv EXCEPT ![w].pc = "suspend", ![w].step = NoStep, ![w].paused = <<s>>]
  <2>1. PICK next : next = [i EXCEPT !.pc = "suspend", !.step = NoStep, !.paused = <<s>>]
    OBVIOUS
  <2>2. inv' = [inv EXCEPT ![w] = next]
    BY <1>1, <1>6, <2>1
  <2>3. /\ next.pc = "suspend" /\ Goes(i, next) /\ next.stack = i.stack /\ next.tail = i.tail
        /\ next.step = NoStep /\ next.paused = <<s>>
    BY <1>4, <2>1 DEF Invocations, Goes
  <2>4. Writes(s) /\ status'[s] = "delayed"
    BY <1>4, <1>6 DEF Mark, Writes, WorkerInv, TypeOK
  <2>5. Members(next.paused) = {s} /\ next.pc \in Walking
    BY <2>3, MembersOf DEF Walking
  <2>6. s \in later
    BY <1>1, <1>4, <2>4 DEF Delayed
  <2>7. s \in ByInvocation(later, next)
    BY <2>3, <2>5, <2>6 DEF ByInvocation
  <2>8. QED
    BY <1>1, <1>2, <1>3, <2>2, <2>3, <2>4, <2>5, <2>7, InPlace
<1>7. CASE s \in Stopping /\ Mark(s, "filtered")
           /\ inv' = [inv EXCEPT ![w].pc = "stop", ![w].step = NoStep]
  <2>1. PICK next : next = [i EXCEPT !.pc = "stop", !.step = NoStep]
    OBVIOUS
  <2>2. inv' = [inv EXCEPT ![w] = next]
    BY <1>1, <1>7, <2>1
  <2>3. /\ next.pc = "stop" /\ Goes(i, next) /\ next.stack = i.stack /\ next.tail = i.tail
        /\ next.segments = i.segments
    BY <1>4, <2>1 DEF Invocations, Goes
  <2>4. Writes(s) /\ status'[s] = "filtered"
    BY <1>4, <1>7 DEF Mark, Writes, WorkerInv, TypeOK
  <2>5. PICK left \in SUBSET Spine : WalkShaped(i, left)
    BY <1>3, <1>4 DEF Shaped, Walking
  <2>6. s \in Spine /\ StopShaped(i) /\ Beyond(s) = left /\ Line(LineOf(i), left)
    BY <1>2, <1>4, <1>7, <2>5, InnerApart DEF WalkShaped
  <2>7. StopShaped(next)
    BY <2>3, <2>6 DEF StopShaped
  <2>8. InHand(i) \cap Spine \subseteq {s} \cup Beyond(s)
    <3>1. LineOf(i) \in Seq(Frames)
      BY <1>4, LineTyped
    <3>2. StepsOf(LineOf(i)) \cap Spine = left
      BY <2>6, <3>1, LineSteps
    <3>3. NoOwners(i.stack)
      BY <1>4, <2>6, PlainFrames DEF StopShaped
    <3>4. Owners(i.stack) \subseteq {NoStep}
      BY <1>4, <3>3, OwnerlessFrames
    <3>5. QED
      BY <1>2, <2>6, <3>2, <3>4, SpineTyped DEF InHand
  <2>9. QED
    BY <1>1, <1>3, <2>2, <2>3, <2>4, <2>6, <2>7, <2>8, StopStep DEF Goes
<1>8. QED
  BY <1>1, <1>2, <1>5, <1>6, <1>7 DEF RunStep

LEMMA FailStepCarries ==
  ASSUME Trees, WorkerInv, CarriedOn, NEW w \in Workers, FailStep(w)
  PROVE  CarriedOn'
<1>1. PICK i, delayed, later : i = inv[w] /\ delayed = Delayed /\ later = Delayed'
  OBVIOUS
<1>2. PICK s : s = i.step
  OBVIOUS
<1>3. i.pc = "run" /\ UNCHANGED <<messages, environment>>
  BY <1>1 DEF FailStep
<1>4. /\ Shaped(i) /\ i.stack \in Seq(Frames) /\ i.segments \in Seq(Frames) /\ i.tail \in Seq(Frames)
      /\ i.msg \in Envelopes /\ s \in Steps /\ s # NoStep /\ i \in Invocations
  BY <1>1, <1>2, <1>3, Holding DEF Consistent
<1>5. PICK error, pc, step : /\ pc = (IF Policy[s] = "halt" THEN "raise" ELSE "mark")
                             /\ step = (IF Policy[s] = "halt" THEN NoStep ELSE s)
                             /\ inv' = [inv EXCEPT ![w].pc = pc, ![w].step = step, ![w].error = error, ![w].stack = i.stack]
  BY <1>1, <1>2 DEF FailStep, Fail
<1>6. PICK next : next = [i EXCEPT !.pc = pc, !.step = step, !.error = error, !.stack = i.stack]
  OBVIOUS
<1>7. inv' = [inv EXCEPT ![w] = next]
  BY <1>1, <1>5, <1>6
<1>8. /\ next.pc = pc /\ Goes(i, next) /\ next.stack = i.stack /\ next.tail = i.tail
      /\ next.step = step
  BY <1>4, <1>6 DEF Invocations, Goes
<1>9. Writes(s) /\ status'[s] = "failed"
  BY <1>1, <1>2, <1>4 DEF FailStep, Fail, Release, Writes, WorkerInv, TypeOK
<1>10. next.pc \in Walking /\ next.pc # "suspend" /\ next.step \in {s, NoStep} /\ i.pc \in Walking
  BY <1>3, <1>5, <1>8 DEF Walking
<1>11. s \in Spine => s \in ByInvocation(later, next)
  <2>1. CASE Policy[s] = "halt" /\ s \in Spine
    <3>1. PICK left \in SUBSET Spine : WalkShaped(i, left)
      BY <1>4, <1>10 DEF Shaped
    <3>2. NoOwners(next.stack) /\ next.pc = "raise" /\ next.msg = i.msg
      BY <1>2, <1>4, <1>5, <1>8, <2>1, <3>1, PlainFrames DEF WalkShaped, StopShaped, Goes
    <3>3. s \in ByMessage(later, i.msg)
      BY <1>2, <1>4, <1>10, <2>1, InMessage DEF InHand
    <3>4. QED
      BY <3>2, <3>3 DEF ByInvocation
  <2>2. CASE Policy[s] # "halt"
    BY <1>5, <1>8, <1>10, <2>2 DEF ByInvocation, InHand
  <2>3. QED
    BY <2>1, <2>2
<1>12. QED
  BY <1>1, <1>2, <1>3, <1>7, <1>8, <1>9, <1>10, <1>11, InPlace

(* A chain that hangs on the line goes in front of it.                     *)
InFront(next, frame, rest, segments, left) ==
    /\ left \in SUBSET Spine /\ frame \in Frames /\ rest \in Seq(Frames) /\ segments \in Seq(Frames)
    /\ next.stack = Push(frame, rest) /\ next.segments = segments /\ next.tail = <<>>
    /\ next.step = NoStep /\ next.pc # "suspend"
    /\ Hangs(frame, left) /\ Line(rest \o segments, left) /\ Nests(rest, segments)
    /\ frame.owner \in Spine => segments = <<>> /\ AllPlain(rest)
    /\ NoOwners(segments) /\ \A s \in left : FlowOf[s] = next.flow

LEMMA FrameInFront ==
  ASSUME Trees, NEW next, NEW frame, NEW rest, NEW segments, NEW left,
         InFront(next, frame, rest, segments, left)
  PROVE  /\ WalkShaped(next, left) /\ next.stack \in Seq(Frames)
         /\ InHand(next) = Members(frame.steps) \cup StepsOf(rest \o segments)
                           \cup {NoStep} \cup {frame.owner} \cup Owners(rest)
<1>0. /\ left \in SUBSET Spine /\ frame \in Frames /\ rest \in Seq(Frames) /\ segments \in Seq(Frames)
      /\ next.stack = Push(frame, rest) /\ next.segments = segments /\ next.tail = <<>>
      /\ next.step = NoStep /\ next.pc # "suspend"
      /\ Hangs(frame, left) /\ Line(rest \o segments, left) /\ Nests(rest, segments)
      /\ frame.owner \in Spine => segments = <<>> /\ AllPlain(rest)
      /\ NoOwners(segments) /\ \A s \in left : FlowOf[s] = next.flow
  BY DEF InFront
<1>1. next.segments \in Seq(Frames) /\ next.stack \in Seq(Frames)
  BY <1>0, FramesPush
<1>2. /\ LineOf(next) = Push(frame, rest \o next.segments)
      /\ rest \o next.segments \in Seq(Frames)
      /\ StepsOf(LineOf(next)) = Members(frame.steps) \cup StepsOf(rest) \cup StepsOf(next.segments)
      /\ StepsOf(rest \o next.segments) = StepsOf(rest) \cup StepsOf(next.segments)
      /\ Owners(next.stack) = {frame.owner} \cup Owners(rest)
  <2>1. frame \in Frames /\ rest \in Seq(Frames) /\ next.stack = Push(frame, rest)
        /\ next.tail = <<>> /\ next.segments \in Seq(Frames)
    BY <1>0, <1>1
  <2>2. LineOf(next) = Push(frame, rest \o next.segments)
    BY <2>1, LineOfStack
  <2>3. StepsOf(LineOf(next)) = Members(frame.steps) \cup StepsOf(rest) \cup StepsOf(next.segments)
    BY <2>1, LineOfStack
  <2>4. StepsOf(rest \o next.segments) = StepsOf(rest) \cup StepsOf(next.segments)
    BY <2>1, LineOfStack
  <2>5. Owners(next.stack) = {frame.owner} \cup Owners(rest)
    BY <2>1, LineOfStack
  <2>6. rest \o next.segments \in Seq(Frames)
    BY <2>1, LineOfStack
  <2>7. QED
    BY <2>2, <2>3, <2>4, <2>5, <2>6
<1>3. PICK behind : behind = rest \o segments
  OBVIOUS
<1>4. LineOf(next) = Push(frame, behind) /\ behind \in Seq(Frames) /\ Line(behind, left)
  BY <1>0, <1>2, <1>3
<1>5. Line(LineOf(next), left)
  BY <1>0, <1>4, LinePush
<1>6. Nests(next.stack, next.segments)
  BY <1>0, NestsPush
<1>7. NoOwners(next.tail)
  BY <1>0, FramesOf
<1>8. WalkShaped(next, left)
  <2>1. NoOwners(next.segments)
    BY <1>0
  <2>2. next.step \notin Spine
    BY <1>0, SpineTyped
  <2>3. QED
    BY <1>0, <1>5, <1>6, <1>7, <2>1, <2>2 DEF WalkShaped
<1>9. InHand(next) = Members(frame.steps) \cup StepsOf(rest \o segments)
                     \cup {NoStep} \cup {frame.owner} \cup Owners(rest)
  BY <1>0, <1>2 DEF InHand
<1>10. QED
  BY <1>1, <1>8, <1>9

LEMMA RecoveryOf ==
  ASSUME Trees, NEW s \in Steps, NEW frame, frame = Frame(Recovery[s], NoStep, FALSE, <<>>)
  PROVE  frame \in Frames /\ Hangs(frame, Beyond(s)) /\ Members(frame.steps) \cap Spine = {}
         /\ frame.owner = NoStep
<1>1. Recovery[s] \in Seq(Steps) /\ <<>> \in Seq(Chains)
  BY ChainsAssumption
<1>2. frame \in Frames
  BY <1>1, FrameTyped
<1>3. frame.owner = NoStep /\ frame.steps = Recovery[s] /\ frame.more = <<>>
  BY DEF Frame
<1>4. \A u \in Members(Recovery[s]) : Inside(u, Beyond(s))
  BY InnerApart DEF Inside
<1>5. Hangs(frame, Beyond(s))
  BY <1>3, <1>4, MembersOf DEF Hangs
<1>6. QED
  BY <1>2, <1>3, <1>4, <1>5, InnerApart DEF Inside

LEMMA HandledCarries ==
  ASSUME Trees, WorkerInv, CarriedOn, NEW w \in Workers, Handled(w)
  PROVE  CarriedOn'
<1>1. PICK i, delayed, later : i = inv[w] /\ delayed = Delayed /\ later = Delayed'
  OBVIOUS
<1>2. PICK s : s = i.step
  OBVIOUS
<1>3. i.pc = "mark" /\ UNCHANGED <<messages, environment>>
      /\ Mark(s, IF Policy[s] = "skip" THEN "skipped" ELSE "failed")
  BY <1>1, <1>2 DEF Handled
<1>4. /\ Shaped(i) /\ i.stack \in Seq(Frames) /\ i.segments \in Seq(Frames) /\ i.tail \in Seq(Frames)
      /\ i.msg \in Envelopes /\ s \in Steps /\ s # NoStep /\ i \in Invocations
      /\ Policy[s] # "halt"
  BY <1>1, <1>2, <1>3, Holding DEF Consistent
<1>5. Writes(s) /\ status'[s] = IF Policy[s] = "skip" THEN "skipped" ELSE "failed"
  BY <1>3, <1>4 DEF Mark, Writes, WorkerInv, TypeOK
<1>6. Settled(s)'
  BY <1>4, <1>5, PoliciesAssumption DEF Settled
<1>7. i.pc \in Walking /\ i.pc # "suspend" /\ i.pc # "raise" /\ status'[s] # "filtered"
  BY <1>3, <1>5 DEF Walking
<1>8. CASE Policy[s] # "recover"
  <2>1. PICK next : next = [i EXCEPT !.pc = "walk", !.step = NoStep, !.stack = i.stack]
    OBVIOUS
  <2>2. inv' = [inv EXCEPT ![w] = next]
    BY <1>1, <1>2, <1>8, <2>1 DEF Handled
  <2>3. /\ next.pc = "walk" /\ Goes(i, next) /\ next.stack = i.stack /\ next.tail = i.tail
        /\ next.step = NoStep
    BY <1>4, <2>1 DEF Invocations, Goes
  <2>4. next.pc \in Walking
    BY <2>3 DEF Walking
  <2>5. QED
    BY <1>1, <1>2, <1>3, <1>5, <1>6, <1>7, <2>2, <2>3, <2>4, InPlace
<1>9. CASE Policy[s] = "recover"
  <2>1. PICK frame, stack : frame = Frame(Recovery[s], NoStep, FALSE, <<>>) /\ stack = Push(frame, i.stack)
    OBVIOUS
  <2>2. PICK next : next = [i EXCEPT !.pc = "walk", !.step = NoStep, !.stack = stack]
    OBVIOUS
  <2>3. inv' = [inv EXCEPT ![w] = next]
    BY <1>1, <1>2, <1>9, <2>1, <2>2 DEF Handled, Push
  <2>4. /\ next.pc = "walk" /\ Goes(i, next) /\ next.stack = stack /\ next.tail = i.tail
        /\ next.step = NoStep /\ next.segments = i.segments /\ next.flow = i.flow
    BY <1>4, <2>2 DEF Invocations, Goes
  <2>5. PICK left \in SUBSET Spine : WalkShaped(i, left)
    BY <1>4, <1>7 DEF Shaped
  <2>6. /\ i.tail = <<>> /\ Beyond(s) = left /\ Line(LineOf(i), left) /\ NoOwners(i.segments)
        /\ Nests(i.stack, i.segments) /\ \A t \in left : FlowOf[t] = i.flow
    BY <1>2, <1>4, <1>7, <2>5 DEF WalkShaped
  <2>7. frame \in Frames /\ Hangs(frame, left) /\ Members(frame.steps) \cap Spine = {}
        /\ frame.owner = NoStep
    <3>1. Hangs(frame, Beyond(s)) /\ frame \in Frames /\ Members(frame.steps) \cap Spine = {}
          /\ frame.owner = NoStep
      BY <1>4, <2>1, RecoveryOf
    <3>2. QED
      BY <2>6, <3>1
  <2>8. LineOf(i) = i.stack \o i.segments
        /\ InHand(i) = StepsOf(i.stack \o i.segments) \cup {s} \cup Owners(i.stack)
    BY <1>2, <1>4, <2>6, LineBare
  <2>9. /\ WalkShaped(next, left) /\ next.stack \in Seq(Frames)
        /\ InHand(next) = Members(frame.steps) \cup StepsOf(i.stack \o i.segments)
                          \cup {NoStep} \cup {frame.owner} \cup Owners(i.stack)
    <3>1. PICK rest : rest = i.stack
      OBVIOUS
    <3>2. PICK segments : segments = i.segments
      OBVIOUS
    <3>3. /\ next.stack = Push(frame, rest) /\ next.tail = <<>> /\ next.pc # "suspend"
          /\ frame.owner \notin Spine /\ Line(rest \o segments, left)
          /\ rest \in Seq(Frames) /\ Nests(rest, segments) /\ segments \in Seq(Frames)
          /\ next.segments = segments /\ NoOwners(segments)
          /\ \A t \in left : FlowOf[t] = next.flow
      <4>1. Line(rest \o segments, left)
        BY <2>6, <2>8, <3>1, <3>2
      <4>2. next.segments = segments /\ NoOwners(segments) /\ segments \in Seq(Frames)
            /\ \A t \in left : FlowOf[t] = next.flow
        BY <1>4, <2>4, <2>6, <3>2
      <4>3. rest \in Seq(Frames) /\ Nests(rest, segments) /\ next.stack = Push(frame, rest)
        BY <1>4, <2>1, <2>4, <2>6, <3>1, <3>2
      <4>4. next.tail = <<>> /\ next.pc # "suspend" /\ frame.owner \notin Spine
        BY <2>4, <2>6, <2>7, SpineTyped
      <4>5. QED
        BY <4>1, <4>2, <4>3, <4>4
    <3>4. /\ WalkShaped(next, left) /\ next.stack \in Seq(Frames)
          /\ InHand(next) = Members(frame.steps) \cup StepsOf(rest \o segments)
                            \cup {NoStep} \cup {frame.owner} \cup Owners(rest)
      <4>1. next.step = NoStep
        BY <2>4
      <4>2. frame \in Frames /\ Hangs(frame, left)
        BY <2>7
      <4>3. /\ next.stack = Push(frame, rest) /\ next.tail = <<>> /\ next.pc # "suspend"
            /\ next.segments = segments
        BY <3>3
      <4>4. Line(rest \o segments, left) /\ Nests(rest, segments) /\ NoOwners(segments)
        BY <3>3
      <4>5. frame.owner \in Spine => segments = <<>> /\ AllPlain(rest)
        BY <3>3
      <4>6. rest \in Seq(Frames) /\ segments \in Seq(Frames)
        BY <3>3
      <4>7. \A t \in left : FlowOf[t] = next.flow
        BY <3>3
      <4>8. QED
        <5>1. InFront(next, frame, rest, segments, left)
          BY <4>1, <4>2, <4>3, <4>4, <4>5, <4>6, <4>7 DEF InFront
        <5>2. QED
          BY <5>1, FrameInFront
    <3>5. QED
      BY <3>1, <3>2, <3>4
  <2>10. InHand(next) \cap Spine \subseteq InHand(i) /\ (InHand(i) \cap Spine) \ {s} \subseteq InHand(next)
    BY <2>7, <2>8, <2>9, SpineTyped
  <2>11. next.pc \in Walking /\ next.pc # "suspend"
    BY <2>4 DEF Walking
  <2>12. \A t \in Spine \ {s} : t \in ByInvocation(delayed, i) => t \in ByInvocation(later, next)
    <3>1. delayed \ {s} \subseteq later
      BY <1>1, <1>5 DEF Delayed, Writes
    <3>2. QED
      BY <1>7, <2>4, <2>10, <2>11, <3>1, WalkCarries DEF Goes
  <2>13. /\ next.msg = i.msg /\ next.sweep = i.sweep /\ next.parks = i.parks
         /\ next.segments \in Seq(Frames) /\ next.tail \in Seq(Frames)
    BY <1>4, <2>4 DEF Goes
  <2>14. Beyond(s) \subseteq left
    BY <2>6
  <2>15. QED
    BY <1>1, <1>3, <1>5, <1>6, <1>7, <2>3, <2>4, <2>9, <2>10, <2>11, <2>12, <2>13, <2>14, WalkStep
<1>10. QED
  BY <1>8, <1>9

(* The innermost chain, and those behind it.                               *)
Split(i, top, rest, left) ==
    /\ top \in Frames /\ rest \in Seq(Frames) /\ i.stack = Push(top, rest) /\ left \in SUBSET Spine
    /\ i.segments \in Seq(Frames) /\ rest \o i.segments \in Seq(Frames)
    /\ \/ Hangs(top, left) /\ Line(rest \o i.segments, left)
       \/ rest = <<>> /\ i.segments = <<>> /\ Lasts(top, left)
    /\ Nests(rest, i.segments) /\ NoOwners(i.segments)
    /\ top.owner \in Spine => i.segments = <<>> /\ AllPlain(rest)
    /\ \A t \in left : FlowOf[t] = i.flow

LEMMA SplitTop ==
  ASSUME NEW i, NEW left \in SUBSET Spine, WalkShaped(i, left), i.tail = <<>>,
         i.stack \in Seq(Frames), i.stack # <<>>, i.segments \in Seq(Frames)
  PROVE  Split(i, Head(i.stack), Tail(i.stack), left)
<1>1. PICK top, rest : top = Head(i.stack) /\ rest = Tail(i.stack)
  OBVIOUS
<1>2. top \in Frames /\ rest \in Seq(Frames) /\ i.stack = Push(top, rest)
  BY <1>1, MembersPop DEF Push
<1>3. PICK behind : behind = rest \o i.segments
  OBVIOUS
<1>4. LineOf(i) = Push(top, behind)
  BY <1>2, <1>3, LineOfStack
<1>5. behind \in Seq(Frames)
  BY <1>2, <1>3, LineOfStack
<1>6. behind = <<>> => rest = <<>> /\ i.segments = <<>>
  BY <1>2, <1>3, LineOfStack
<1>7. /\ Line(LineOf(i), left) /\ Nests(i.stack, i.segments) /\ NoOwners(i.segments)
      /\ \A t \in left : FlowOf[t] = i.flow
  BY DEF WalkShaped
<1>8. \/ Hangs(top, left) /\ Line(behind, left)
      \/ behind = <<>> /\ Lasts(top, left)
  BY <1>2, <1>4, <1>5, <1>7, LinePush
<1>9. Nests(rest, i.segments) /\ (top.owner \in Spine => i.segments = <<>> /\ AllPlain(rest))
  BY <1>2, <1>7, NestsPush
<1>10. QED
  BY <1>1, <1>2, <1>3, <1>5, <1>6, <1>7, <1>8, <1>9 DEF Split

LEMMA SplitHand ==
  ASSUME NEW i, NEW top, NEW rest, NEW left, Split(i, top, rest, left), i.tail = <<>>
  PROVE  /\ InHand(i) = Members(top.steps) \cup StepsOf(rest \o i.segments) \cup {i.step}
                        \cup {top.owner} \cup Owners(rest)
         /\ NoOwners(i.stack) <=> top.owner = NoStep /\ NoOwners(rest)
<1>1. top \in Frames /\ rest \in Seq(Frames) /\ i.stack = Push(top, rest) /\ i.segments \in Seq(Frames)
  BY DEF Split
<1>2. InHand(i) = Members(top.steps) \cup StepsOf(rest) \cup StepsOf(i.segments)
                  \cup {i.step} \cup {top.owner} \cup Owners(rest)
  BY <1>1, HandOf
<1>3. StepsOf(rest \o i.segments) = StepsOf(rest) \cup StepsOf(i.segments)
  BY <1>1, FramesJoined
<1>4. NoOwners(i.stack) <=> top.owner = NoStep /\ NoOwners(rest)
  BY <1>1, FramesPush
<1>5. QED
  BY <1>2, <1>3, <1>4

(* The innermost chain is gone.                                            *)
Popped(next, top, left) ==
    \E behind \in SUBSET Spine : WalkShaped(next, behind) /\ (Hangs(top, left) => behind = left)

LEMMA SplitPopped ==
  ASSUME Trees, NEW i, NEW next, NEW top, NEW rest, NEW left, Split(i, top, rest, left),
         next.stack = rest, next.segments = i.segments, next.tail = <<>>, next.flow = i.flow,
         next.pc # "suspend",
         next.step # NoStep => /\ next.step = top.owner
                               /\ top.owner \in Spine \cup InnerSteps /\ Beyond(top.owner) = left
                               /\ Hangs(top, left)
  PROVE  /\ InHand(next) = StepsOf(rest \o i.segments) \cup {next.step} \cup Owners(rest)
         /\ Popped(next, top, left)
<1>1. /\ next.stack \in Seq(Frames) /\ next.segments \in Seq(Frames) /\ rest \in Seq(Frames)
      /\ i.segments \in Seq(Frames) /\ left \in SUBSET Spine /\ NoOwners(i.segments)
      /\ Nests(rest, i.segments) /\ \A t \in left : FlowOf[t] = i.flow
  BY DEF Split
<1>2. LineOf(next) = rest \o i.segments
      /\ InHand(next) = StepsOf(rest \o i.segments) \cup {next.step} \cup Owners(rest)
  BY <1>1, LineBare
<1>3. NoOwners(next.tail)
  BY FramesOf
<1>4. next.step \in Spine => StopShaped(next)
  BY SpineTyped DEF Split, StopShaped
<1>5. CASE Hangs(top, left) /\ Line(rest \o i.segments, left)
  <2>1. WalkShaped(next, left)
    BY <1>1, <1>2, <1>3, <1>4, <1>5 DEF WalkShaped
  <2>2. QED
    BY <1>1, <1>2, <2>1 DEF Popped
<1>6. CASE ~(Hangs(top, left) /\ Line(rest \o i.segments, left))
  <2>1. rest = <<>> /\ i.segments = <<>> /\ Lasts(top, left) /\ ~Hangs(top, left)
    <3>1. /\ \/ Hangs(top, left) /\ Line(rest \o i.segments, left)
             \/ rest = <<>> /\ i.segments = <<>> /\ Lasts(top, left)
      BY DEF Split
    <3>2. rest = <<>> /\ i.segments = <<>> /\ Lasts(top, left)
      BY <1>6, <3>1
    <3>3. left # {} \/ Line(<<>>, left)
      BY FramesOf DEF Line
    <3>4. left = {} => Members(top.steps) = {} /\ Plain(top)
      BY <3>2 DEF Lasts
    <3>5. rest \o i.segments = <<>>
      BY <3>2
    <3>6. Hangs(top, left) => left = {}
      <4>1. ASSUME Hangs(top, left) PROVE left = {}
        <5>1. left = Members(top.steps)
          BY <3>2 DEF Lasts
        <5>2. QED
          BY <1>1, <4>1, <5>1, InnerApart DEF Hangs, Inside
      <4>2. QED
        BY <4>1
    <3>7. QED
      BY <1>6, <3>2, <3>3, <3>5, <3>6
  <2>2. LineOf(next) = <<>>
    BY <1>2, <2>1
  <2>3. Line(<<>>, {})
    BY FramesOf DEF Line
  <2>4. next.step = NoStep
    BY <2>1
  <2>5. WalkShaped(next, {})
    BY <1>1, <1>2, <1>3, <2>2, <2>3, <2>4, SpineTyped DEF WalkShaped
  <2>6. QED
    BY <1>2, <2>1, <2>5 DEF Popped
<1>7. QED
  BY <1>5, <1>6

LEMMA PropagateCarries ==
  ASSUME Trees, WorkerInv, CarriedOn, NEW w \in Workers, Propagate(w)
  PROVE  CarriedOn'
<1>1. PICK i, delayed, later : i = inv[w] /\ delayed = Delayed /\ later = Delayed'
  OBVIOUS
<1>2. i.pc = "raise" /\ i.stack # <<>> /\ UNCHANGED <<messages, environment>>
  BY <1>1 DEF Propagate
<1>3. /\ Shaped(i) /\ i.stack \in Seq(Frames) /\ i.segments \in Seq(Frames) /\ i.tail \in Seq(Frames)
      /\ i.msg \in Envelopes /\ i.step = NoStep /\ i \in Invocations
  BY <1>1, <1>2, Holding
<1>4. i.pc \in Walking /\ i.pc # "suspend" /\ i.pc # "idle"
  BY <1>2 DEF Walking
<1>5. PICK left \in SUBSET Spine : WalkShaped(i, left)
  BY <1>3, <1>4 DEF Shaped
<1>6. PICK top, rest : top = Top(w) /\ rest = Pop(w)
  OBVIOUS
<1>7. i.tail = <<>>
  BY <1>2, <1>5 DEF WalkShaped
<1>8. Split(i, top, rest, left)
  <2>1. Split(i, Head(i.stack), Tail(i.stack), left)
    BY <1>2, <1>3, <1>5, <1>7, SplitTop
  <2>2. QED
    BY <1>1, <1>6, <2>1 DEF Top, Pop
<1>9. /\ InHand(i) = Members(top.steps) \cup StepsOf(rest \o i.segments) \cup {NoStep}
                     \cup {top.owner} \cup Owners(rest)
      /\ NoOwners(i.stack) <=> top.owner = NoStep /\ NoOwners(rest)
  BY <1>3, <1>7, <1>8, SplitHand
<1>10. rest \in Seq(Frames) /\ top \in Frames
  BY <1>8 DEF Split
<1>11. Hangs(top, left) => Members(top.steps) \cap Spine = {}
  BY InnerApart DEF Hangs, Inside
<1>12. ~Hangs(top, left) => top.owner = NoStep /\ rest = <<>>
  BY <1>8 DEF Split, Lasts, Plain
<1>13. CASE top.owner = NoStep
  <2>1. PICK next : next = [i EXCEPT !.stack = rest]
    OBVIOUS
  <2>2. inv' = [inv EXCEPT ![w] = next] /\ UNCHANGED <<records, messages, environment>>
    BY <1>1, <1>2, <1>6, <1>13, <2>1 DEF Propagate
  <2>3. /\ next.pc = "raise" /\ Goes(i, next) /\ next.stack = rest /\ next.tail = <<>>
        /\ next.step = NoStep /\ next.segments = i.segments /\ next.flow = i.flow /\ next.msg = i.msg
    BY <1>2, <1>3, <1>7, <2>1 DEF Invocations, Goes
  <2>4. next.pc # "suspend"
    BY <2>3
  <2>5. /\ InHand(next) = StepsOf(rest \o i.segments) \cup {NoStep} \cup Owners(rest)
        /\ Popped(next, top, left)
    <3>1. InHand(next) = StepsOf(rest \o i.segments) \cup {NoStep} \cup Owners(rest)
      <4>1. InHand(next) = StepsOf(rest \o i.segments) \cup {next.step} \cup Owners(rest)
        BY <1>8, <2>3, <2>4, SplitPopped, ZenonT(60)
      <4>2. QED
        BY <2>3, <4>1, Zenon
    <3>2. Popped(next, top, left)
      BY <1>8, <2>3, <2>4, SplitPopped
    <3>3. QED
      BY <3>1, <3>2
  <2>6. PICK behind \in SUBSET Spine : WalkShaped(next, behind)
    BY <2>5 DEF Popped
  <2>7. InHand(next) \cap Spine \subseteq InHand(i)
    BY <1>9, <2>5
  <2>8. \A t \in Spine : t \in ByInvocation(delayed, i) => t \in ByInvocation(delayed, next)
    <3>1. CASE NoOwners(i.stack)
      <4>1. NoOwners(next.stack)
        BY <1>9, <2>3, <3>1
      <4>2. \A t \in Spine \ {NoStep} : t \in ByInvocation(delayed, i) => t \in ByInvocation(delayed, next)
        BY <1>3, <1>4, <2>3, <4>1, HandBack
      <4>3. QED
        BY <4>2, SpineTyped
    <3>2. CASE ~NoOwners(i.stack)
      <4>1. Hangs(top, left)
        BY <1>9, <1>12, <1>13, <3>2, FramesOf
      <4>2. (InHand(i) \cap Spine) \ {NoStep} \subseteq InHand(next)
        BY <1>9, <1>11, <1>13, <2>5, <4>1
      <4>3. next.pc \in Walking
        BY <2>3 DEF Walking
      <4>4. \A t \in Spine \ {NoStep} : t \in ByInvocation(delayed, i) => t \in ByInvocation(delayed, next)
        BY <1>4, <2>3, <3>2, <4>2, <4>3, WalkCarries DEF Goes
      <4>5. QED
        BY <4>4, SpineTyped
    <3>3. QED
      BY <3>1, <3>2
  <2>9. next.pc \in Walking /\ next.stack \in Seq(Frames) /\ next.segments \in Seq(Frames)
        /\ next.tail \in Seq(Frames)
    BY <1>3, <1>7, <1>10, <2>3 DEF Walking
  <2>10. QED
    BY <1>1, <1>4, <2>2, <2>3, <2>4, <2>6, <2>7, <2>8, <2>9, QuietWalk DEF Goes
<1>14. CASE top.owner # NoStep
  <2>1. PICK s : s = top.owner
    OBVIOUS
  <2>2. /\ Hangs(top, left) /\ s # NoStep /\ s \in Spine \cup InnerSteps /\ Beyond(s) = left
        /\ s \in Steps
    BY <1>12, <1>14, <2>1, SpineTyped DEF Hangs
  <2>3. PICK error, pc, step : /\ pc = (IF Policy[s] = "halt" THEN "raise" ELSE "mark")
                               /\ step = (IF Policy[s] = "halt" THEN NoStep ELSE s)
                               /\ inv' = [inv EXCEPT ![w].pc = pc, ![w].step = step, ![w].error = error, ![w].stack = rest]
    <3>1. Fail(w, s, rest, i.error)
      BY <1>1, <1>6, <1>14, <2>1 DEF Propagate
    <3>2. PICK pc, step, error : /\ pc = (IF Policy[s] = "halt" THEN "raise" ELSE "mark")
                                 /\ step = (IF Policy[s] = "halt" THEN NoStep ELSE s)
                                 /\ error = (IF Policy[s] = "halt" THEN i.error ELSE "none")
      OBVIOUS
    <3>3. inv' = [inv EXCEPT ![w].pc = pc, ![w].step = step, ![w].error = error, ![w].stack = rest]
      BY <3>1, <3>2 DEF Fail
    <3>4. QED
      BY <3>2, <3>3
  <2>4. PICK next : next = [i EXCEPT !.pc = pc, !.step = step, !.error = error, !.stack = rest]
    OBVIOUS
  <2>5. inv' = [inv EXCEPT ![w] = next]
    BY <1>1, <2>3, <2>4
  <2>6. /\ next.pc = pc /\ Goes(i, next) /\ next.stack = rest /\ next.tail = <<>>
        /\ next.step = step /\ next.segments = i.segments /\ next.flow = i.flow /\ next.msg = i.msg
    BY <1>3, <1>7, <2>4 DEF Invocations, Goes
  <2>7. Release(s)
    BY <1>1, <1>6, <1>14, <2>1 DEF Propagate, Fail
  <2>8. Writes(s) /\ status'[s] = "failed"
    BY <2>2, <2>7 DEF Release, Writes, WorkerInv, TypeOK
  <2>9. next.pc # "suspend" /\ next.pc \in Walking /\ (next.step = s \/ next.step = NoStep)
    BY <2>3, <2>6 DEF Walking
  <2>10. /\ InHand(next) = StepsOf(rest \o i.segments) \cup {next.step} \cup Owners(rest)
         /\ Popped(next, top, left)
    <3>1. next.step # NoStep => /\ next.step = top.owner
                                /\ top.owner \in Spine \cup InnerSteps /\ Beyond(top.owner) = left
                                /\ Hangs(top, left)
      BY <2>1, <2>2, <2>9
    <3>2. InHand(next) = StepsOf(rest \o i.segments) \cup {next.step} \cup Owners(rest)
      <4>1. next.tail = <<>> /\ next.stack \in Seq(Frames) /\ next.segments \in Seq(Frames)
        BY <1>3, <1>10, <2>6
      <4>2. InHand(next) = StepsOf(next.stack \o next.segments) \cup {next.step} \cup Owners(next.stack)
        BY <4>1, LineBare
      <4>3. QED
        BY <2>6, <4>2
    <3>3. Popped(next, top, left)
      BY <1>8, <2>6, <2>9, <3>1, SplitPopped
    <3>4. QED
      BY <3>2, <3>3
  <2>11. WalkShaped(next, left)
    BY <2>2, <2>10 DEF Popped
  <2>12. InHand(next) \cap Spine \subseteq InHand(i) /\ (InHand(i) \cap Spine) \ {s} \subseteq InHand(next)
    BY <1>9, <1>11, <2>1, <2>2, <2>9, <2>10, SpineTyped
  <2>13. \A t \in Spine \ {s} : t \in ByInvocation(delayed, i) => t \in ByInvocation(later, next)
    <3>1. delayed \ {s} \subseteq later
      BY <1>1, <2>8 DEF Delayed, Writes
    <3>2. ~NoOwners(i.stack)
      BY <1>9, <1>14
    <3>3. QED
      BY <1>4, <2>6, <2>9, <2>12, <3>1, <3>2, WalkCarries DEF Goes
  <2>14. s \in Spine => s \in ByInvocation(later, next)
    <3>1. CASE s \in Spine /\ Policy[s] = "halt"
      <4>1. AllPlain(rest)
        BY <1>8, <2>1, <3>1 DEF Split
      <4>2. NoOwners(next.stack) /\ next.pc = "raise"
        BY <1>10, <2>3, <2>6, <3>1, <4>1, PlainFrames
      <4>3. s \in ByMessage(later, i.msg)
        <5>1. s \in InHand(i)
          BY <1>9, <2>1
        <5>2. QED
          BY <1>3, <1>4, <3>1, <5>1, InMessage
      <4>4. QED
        BY <2>6, <4>2, <4>3 DEF ByInvocation
    <3>2. CASE Policy[s] # "halt"
      BY <2>3, <2>6, <2>9, <2>10, <3>2 DEF ByInvocation
    <3>3. QED
      BY <3>1, <3>2
  <2>15. /\ next.sweep = i.sweep /\ next.parks = i.parks
         /\ next.stack \in Seq(Frames) /\ next.segments \in Seq(Frames) /\ next.tail \in Seq(Frames)
    BY <1>3, <1>7, <1>10, <2>6 DEF Goes
  <2>16. Beyond(s) \subseteq left /\ status'[s] # "filtered"
    BY <2>2, <2>8
  <2>17. QED
    BY <1>1, <1>2, <1>4, <2>5, <2>6, <2>8, <2>9, <2>11, <2>12, <2>13, <2>14, <2>15, <2>16, WalkStep
<1>15. QED
  BY <1>13, <1>14

(* No record and no message changes.                                       *)
LEMMA QuietMove ==
  ASSUME WorkerInv, CarriedOn, NEW w \in Workers, NEW i, NEW next, NEW delayed,
         i = inv[w], inv' = [inv EXCEPT ![w] = next], delayed = Delayed,
         status' = status, queue' = queue, dead => dead', off \subseteq off', Shaped(next),
         \A s \in Spine : s \in ByInvocation(delayed, i) =>
           s \in ByInvocation(delayed, next) \/ Accounted(s)'
  PROVE  CarriedOn'
<1>1. \E u : u \notin Steps /\ u \notin Spine /\ u \notin Halted
  BY SpineTyped, ChainsAssumption DEF Halted
<1>2. ASSUME NEW u, u \notin Steps, u \notin Spine, u \notin Halted PROVE CarriedOn'
  <2>1. PICK later : later = Delayed'
    OBVIOUS
  <2>2. \A s \in Steps : s # u => status'[s] = status[s]
    OBVIOUS
  <2>3. \A s \in Spine \ {u} : s \in ByInvocation(delayed, i) =>
          s \in ByInvocation(later, next) \/ Accounted(s)'
    BY <2>1 DEF Delayed
  <2>4. QED
    BY <1>2, <2>1, <2>2, <2>3, CarryStep
<1>3. QED
  BY <1>1, <1>2

(* The chain of a wrapper that has ended is completed with it.             *)
LEMMA EndChainCarries ==
  ASSUME Trees, WorkerInv, CarriedOn, NEW w \in Workers, EndChain(w)
  PROVE  CarriedOn'
<1>1. PICK i, delayed, later : i = inv[w] /\ delayed = Delayed /\ later = Delayed'
  OBVIOUS
<1>2. /\ i.stack # <<>> /\ i.pc \in {"stop", "walk"} /\ UNCHANGED <<messages, environment>>
      /\ i.pc = "walk" => Top(w).steps = <<>>
  BY <1>1 DEF EndChain
<1>3. /\ Shaped(i) /\ i.stack \in Seq(Frames) /\ i.segments \in Seq(Frames) /\ i.tail \in Seq(Frames)
      /\ i.msg \in Envelopes /\ i.step = NoStep /\ i \in Invocations
  BY <1>1, <1>2, Holding
<1>4. PICK top, rest : top = Top(w) /\ rest = Pop(w)
  OBVIOUS
<1>5. top \in Frames /\ rest \in Seq(Frames) /\ i.stack = Push(top, rest)
  BY <1>1, <1>2, <1>3, <1>4, MembersPop DEF Top, Pop, Push
<1>6. dead' = dead /\ off' = off /\ queue' = queue
  BY <1>2 DEF messages, environment
<1>7. CASE i.pc = "stop"
  <2>1. StopShaped(i) /\ Plain(top) /\ AllPlain(rest)
    <3>1. StopShaped(i)
      BY <1>3, <1>7 DEF Shaped
    <3>2. QED
      BY <1>5, <3>1, FramesPush DEF StopShaped
  <2>2. PICK next : next = [i EXCEPT !.pc = "stop", !.stack = rest]
    OBVIOUS
  <2>3. inv' = [inv EXCEPT ![w] = next] /\ status' = status
    BY <1>1, <1>4, <1>7, <2>1, <2>2 DEF EndChain, Plain, records
  <2>4. /\ next.pc = "stop" /\ Goes(i, next) /\ next.stack = rest /\ next.tail = i.tail
    BY <1>3, <2>2 DEF Invocations, Goes
  <2>5. StopShaped(next)
    BY <2>1, <2>4 DEF StopShaped, Goes
  <2>6. Shaped(next)
    <3>1. /\ MessageShaped(i.msg) /\ (i.msg.kind = "resume" => WithinMessage(i))
          /\ \A park \in Members(i.parks) : ParkShaped(park)
      BY <1>3, <1>7 DEF Shaped, Sweeping
    <3>2. i.msg.kind = "resume" => WithinMessage(next)
      BY <1>7, <2>4, <3>1 DEF WithinMessage, Walking, Goes
    <3>3. QED
      BY <2>4, <2>5, <3>1, <3>2 DEF Shaped, Starting, Walking, Goes
  <2>7. ByInvocation(delayed, i) \subseteq ByInvocation(delayed, next)
    <3>1. BySweep(delayed, next) = BySweep(delayed, i)
      BY <2>4 DEF BySweep, Goes
    <3>2. ByInvocation(delayed, i) = BySweep(delayed, i)
      BY <1>7 DEF ByInvocation, Sweeping, Walking
    <3>3. BySweep(delayed, next) \subseteq ByInvocation(delayed, next)
      BY <2>4 DEF ByInvocation, Sweeping
    <3>4. QED
      BY <3>1, <3>2, <3>3
  <2>8. \A t \in Spine : t \in ByInvocation(delayed, i) =>
          t \in ByInvocation(delayed, next) \/ Accounted(t)'
    BY <2>7
  <2>9. off \subseteq off'
    BY <1>6
  <2>10. QED
    BY <1>1, <1>6, <2>3, <2>6, <2>8, <2>9, QuietMove
<1>8. CASE i.pc = "walk"
  <2>1. i.pc \in Walking /\ i.pc # "suspend" /\ top.steps = <<>>
    BY <1>2, <1>4, <1>8 DEF Walking
  <2>2. PICK left \in SUBSET Spine : WalkShaped(i, left)
    BY <1>3, <2>1 DEF Shaped
  <2>3. i.tail = <<>>
    BY <2>1, <2>2 DEF WalkShaped
  <2>4. Split(i, top, rest, left)
    <3>1. Split(i, Head(i.stack), Tail(i.stack), left)
      BY <1>2, <1>3, <2>2, <2>3, SplitTop
    <3>2. QED
      BY <1>1, <1>4, <3>1 DEF Top, Pop
  <2>5. /\ InHand(i) = StepsOf(rest \o i.segments) \cup {NoStep} \cup {top.owner} \cup Owners(rest)
        /\ NoOwners(i.stack) <=> top.owner = NoStep /\ NoOwners(rest)
    BY <1>3, <2>1, <2>3, <2>4, SplitHand, MembersOf
  <2>6. ~Hangs(top, left) => Plain(top)
    BY <2>4 DEF Split, Lasts
  <2>7. CASE top.more # <<>>
    <3>1. PICK body, others : body = Head(top.more) /\ others = Tail(top.more)
      OBVIOUS
    <3>2. PICK frame, stack : frame = Frame(body, top.owner, TRUE, others) /\ stack = Push(frame, rest)
      OBVIOUS
    <3>3. PICK next : next = [i EXCEPT !.pc = "walk", !.stack = stack]
      OBVIOUS
    <3>4. inv' = [inv EXCEPT ![w] = next] /\ UNCHANGED <<records, messages, environment>>
      BY <1>1, <1>2, <1>4, <2>7, <3>1, <3>2, <3>3 DEF EndChain, Push
    <3>5. /\ next.pc = "walk" /\ Goes(i, next) /\ next.stack = stack /\ next.tail = <<>>
          /\ next.step = NoStep /\ next.segments = i.segments /\ next.flow = i.flow /\ next.msg = i.msg
      BY <1>3, <2>3, <3>3 DEF Invocations, Goes
    <3>6. /\ top.more \in Seq(Chains) /\ body \in Chains /\ body \in Seq(Steps) /\ others \in Seq(Chains)
          /\ Members(top.more) = {body} \cup Members(others)
          /\ top.owner \in Wrappers \cup {NoStep}
      BY <1>5, <2>7, <3>1, MembersPop, ChainsTyped DEF Frames
    <3>7. /\ frame \in Frames /\ frame.owner = top.owner /\ frame.steps = body
          /\ frame.more = others
      BY <3>2, <3>6, FrameTyped DEF Frame
    <3>8. Hangs(top, left) /\ Hangs(frame, left)
      BY <2>6, <2>7, <3>6, <3>7 DEF Plain, Hangs
    <3>9. Members(frame.steps) \cap Spine = {}
      BY <3>8, InnerApart DEF Hangs, Inside
    <3>10. Line(rest \o i.segments, left)
      <4>1. rest \o i.segments = <<>> \/ ~(rest = <<>> /\ i.segments = <<>>)
        BY <2>4 DEF Split
      <4>2. ~Lasts(top, left)
        BY <2>7 DEF Lasts, Plain
      <4>3. QED
        BY <2>4, <4>2 DEF Split
    <3>11. InFront(next, frame, rest, i.segments, left)
      BY <2>4, <3>2, <3>5, <3>7, <3>8, <3>10 DEF InFront, Split
    <3>12. /\ WalkShaped(next, left) /\ next.stack \in Seq(Frames)
           /\ InHand(next) = Members(frame.steps) \cup StepsOf(rest \o i.segments)
                             \cup {NoStep} \cup {frame.owner} \cup Owners(rest)
      BY <3>11, FrameInFront
    <3>13. InHand(next) \cap Spine \subseteq InHand(i) /\ (InHand(i) \cap Spine) \ {NoStep} \subseteq InHand(next)
      BY <2>5, <3>7, <3>9, <3>12
    <3>14. next.pc \in Walking /\ next.pc # "suspend"
      BY <3>5 DEF Walking
    <3>15. \A t \in Spine : t \in ByInvocation(delayed, i) => t \in ByInvocation(delayed, next)
      <4>1. \A t \in Spine \ {NoStep} : t \in ByInvocation(delayed, i) => t \in ByInvocation(delayed, next)
        BY <1>8, <2>1, <3>5, <3>13, <3>14, WalkCarries DEF Goes
      <4>2. QED
        BY <4>1, SpineTyped
    <3>16. next.segments \in Seq(Frames) /\ next.tail \in Seq(Frames) /\ next.sweep = i.sweep
           /\ next.parks = i.parks
      BY <1>3, <2>3, <3>5 DEF Goes
    <3>17. QED
      BY <1>1, <2>1, <3>4, <3>5, <3>12, <3>13, <3>14, <3>15, <3>16, QuietWalk
  <2>8. CASE top.more = <<>>
    <3>1. PICK next : next = [i EXCEPT !.pc = "walk", !.stack = rest]
      OBVIOUS
    <3>2. inv' = [inv EXCEPT ![w] = next]
      BY <1>1, <1>4, <1>8, <2>8, <3>1 DEF EndChain
    <3>3. /\ next.pc = "walk" /\ Goes(i, next) /\ next.stack = rest /\ next.tail = <<>>
          /\ next.step = NoStep /\ next.segments = i.segments /\ next.flow = i.flow /\ next.msg = i.msg
      BY <1>3, <2>3, <3>1 DEF Invocations, Goes
    <3>4. next.pc # "suspend" /\ next.pc \in Walking
      BY <3>3 DEF Walking
    <3>5. InHand(next) = StepsOf(rest \o i.segments) \cup {NoStep} \cup Owners(rest)
      <4>1. InHand(next) = StepsOf(rest \o i.segments) \cup {next.step} \cup Owners(rest)
        BY <2>4, <3>3, <3>4, SplitPopped, ZenonT(60)
      <4>2. QED
        BY <3>3, <4>1, Zenon
    <3>6. PICK behind \in SUBSET Spine : WalkShaped(next, behind) /\ (Hangs(top, left) => behind = left)
      <4>1. /\ next.stack = rest /\ next.segments = i.segments /\ next.tail = <<>> /\ next.flow = i.flow
            /\ next.step = NoStep /\ next.pc # "suspend"
        BY <3>3, <3>4
      <4>2. Popped(next, top, left)
        BY <2>4, <4>1, SplitPopped
      <4>3. QED
        BY <4>2 DEF Popped
    <3>7. next.segments \in Seq(Frames) /\ next.tail \in Seq(Frames) /\ next.sweep = i.sweep
           /\ next.parks = i.parks /\ next.stack \in Seq(Frames)
      BY <1>3, <1>5, <2>3, <3>3 DEF Goes
    <3>8. InHand(next) \cap Spine \subseteq InHand(i)
      BY <2>5, <3>5
    <3>9. CASE top.owner = NoStep
      <4>1. UNCHANGED <<records, messages, environment>>
        BY <1>2, <1>4, <2>8, <3>9 DEF EndChain
      <4>2. (InHand(i) \cap Spine) \ {NoStep} \subseteq InHand(next)
        BY <2>5, <3>5, <3>9
      <4>3. \A t \in Spine : t \in ByInvocation(delayed, i) => t \in ByInvocation(delayed, next)
        <5>1. \A t \in Spine \ {NoStep} : t \in ByInvocation(delayed, i) => t \in ByInvocation(delayed, next)
          BY <1>8, <2>1, <3>3, <3>4, <4>2, WalkCarries DEF Goes
        <5>2. QED
          BY <5>1, SpineTyped
      <4>4. QED
        BY <1>1, <2>1, <3>2, <3>3, <3>4, <3>6, <3>7, <3>8, <4>1, <4>3, QuietWalk
    <3>10. CASE top.owner # NoStep
      <4>1. PICK s : s = top.owner
        OBVIOUS
      <4>2. /\ Hangs(top, left) /\ s # NoStep /\ s \in Spine \cup InnerSteps /\ Beyond(s) = left
            /\ s \in Steps
        BY <2>6, <3>10, <4>1, SpineTyped DEF Hangs, Plain
      <4>3. Mark(s, "completed")
        BY <1>4, <2>8, <3>10, <4>1 DEF EndChain
      <4>4. Writes(s) /\ status'[s] = "completed"
        BY <4>2, <4>3 DEF Mark, Writes, WorkerInv, TypeOK
      <4>5. Settled(s)' /\ status'[s] # "filtered"
        BY <4>4 DEF Settled
      <4>6. \A t \in Spine \ {s} : t \in ByInvocation(delayed, i) => t \in ByInvocation(later, next)
        <5>1. delayed \ {s} \subseteq later
          BY <1>1, <4>4 DEF Delayed, Writes
        <5>2. (InHand(i) \cap Spine) \ {s} \subseteq InHand(next)
          BY <2>5, <3>5, <4>1
        <5>3. QED
          BY <1>8, <2>1, <3>3, <3>4, <5>1, <5>2, WalkCarries DEF Goes
      <4>7. WalkShaped(next, left) /\ Beyond(s) \subseteq left
        BY <3>6, <4>2
      <4>8. QED
        BY <1>1, <1>2, <2>1, <3>2, <3>3, <3>4, <3>7, <3>8, <4>4, <4>5, <4>6, <4>7, WalkStep
    <3>11. QED
      BY <3>9, <3>10
  <2>9. QED
    BY <2>7, <2>8
<1>9. QED
  BY <1>2, <1>7, <1>8
-----------------------------------------------------------------------------
(* How a run ends, and how a record does.                                  *)

LEMMA Leaving ==
  ASSUME NEW i, NEW next, Shaped(i), i.pc # "idle", next.msg = i.msg, next.sweep = i.sweep,
         next.flow = i.flow, next.pc \in {"requeue", "failed", "matched", "retried"}
  PROVE  Shaped(next)
<1>1. MessageShaped(i.msg) /\ (i.msg.kind = "resume" => WithinMessage(i))
  BY DEF Shaped
<1>2. next.pc \notin Walking \cup Sweeping \cup Starting \cup {"idle", "stop", "park"}
  BY DEF Walking, Sweeping, Starting
<1>3. i.msg.kind = "resume" => WithinMessage(next)
  BY <1>1, <1>2 DEF WithinMessage, Starting
<1>4. QED
  BY <1>1, <1>2, <1>3 DEF Shaped, Starting

LEMMA NothingSwept ==
  ASSUME NEW delayed, NEW i, i.sweep = {}, i.parks = <<>>
  PROVE  BySweep(delayed, i) = {}
BY MembersOf DEF BySweep

LEMMA EndRunCarries ==
  ASSUME Trees, WorkerInv, CarriedOn, NEW w \in Workers, EndRun(w)
  PROVE  CarriedOn'
<1>1. PICK i, delayed : i = inv[w] /\ delayed = Delayed
  OBVIOUS
<1>2. PICK pc : pc = IF i.msg.kind = "event" THEN "sweep" ELSE "matched"
  OBVIOUS
<1>3. PICK next : next = [i EXCEPT !.segments = <<>>, !.pc = pc]
  OBVIOUS
<1>4. /\ i.stack = <<>> /\ i.pc \in {"stop", "walk"} /\ UNCHANGED <<records, messages, environment>>
      /\ i.pc = "walk" => i.segments = <<>>
      /\ inv' = [inv EXCEPT ![w] = next]
  BY <1>1, <1>2, <1>3 DEF EndRun, Message
<1>5. /\ Shaped(i) /\ i.msg \in Envelopes /\ i.step = NoStep /\ i \in Invocations
  BY <1>1, <1>4, Holding
<1>6. /\ next.pc = pc /\ next.msg = i.msg /\ next.sweep = i.sweep /\ next.parks = i.parks
      /\ next.flow = i.flow /\ next.stack = <<>> /\ next.segments = <<>> /\ next.tail = i.tail
  BY <1>3, <1>4, <1>5 DEF Invocations
<1>7. /\ MessageShaped(i.msg) /\ (i.msg.kind = "resume" => WithinMessage(i))
      /\ \A park \in Members(i.parks) : ParkShaped(park)
  BY <1>4, <1>5 DEF Shaped, Sweeping, Walking
<1>8. i.tail = <<>>
  <2>1. CASE i.pc = "stop"
    BY <1>5, <2>1 DEF Shaped, StopShaped
  <2>2. CASE i.pc = "walk"
    BY <1>5, <2>2 DEF Shaped, Walking, WalkShaped
  <2>3. QED
    BY <1>4, <2>1, <2>2
<1>9. i.pc = "walk" => InHand(i) = {NoStep}
  <2>1. i.pc = "walk" => LineOf(i) = <<>>
    BY <1>4, <1>8 DEF LineOf
  <2>2. QED
    BY <1>4, <1>5, <2>1, FramesOf DEF InHand
<1>10. \A s \in Spine : s \in ByInvocation(delayed, i) => s \in BySweep(delayed, i)
  BY <1>4, <1>9, SpineTyped DEF ByInvocation, Walking, Sweeping
<1>11. dead' = dead /\ off' = off /\ queue' = queue /\ status' = status
  BY <1>4 DEF records, messages, environment
<1>12. CASE i.msg.kind = "event"
  <2>1. next.pc = "sweep"
    BY <1>2, <1>6, <1>12
  <2>2. Shaped(next)
    BY <1>6, <1>7, <1>8, <1>12, <2>1 DEF Shaped, Walking
  <2>3. BySweep(delayed, i) \subseteq ByInvocation(delayed, next)
    BY <1>6, <2>1 DEF ByInvocation, Sweeping, BySweep
  <2>4. \A s \in Spine : s \in ByInvocation(delayed, i) =>
          s \in ByInvocation(delayed, next) \/ Accounted(s)'
    BY <1>10, <2>3
  <2>5. off \subseteq off'
    BY <1>11
  <2>6. QED
    BY <1>1, <1>4, <1>11, <2>2, <2>4, <2>5, QuietMove
<1>13. CASE i.msg.kind # "event"
  <2>1. next.pc = "matched" /\ i.msg.kind = "resume" /\ i.pc # "idle"
    BY <1>2, <1>4, <1>5, <1>6, <1>13 DEF Envelopes
  <2>2. Shaped(next)
    BY <1>5, <1>6, <2>1, Leaving
  <2>3. BySweep(delayed, i) = {}
    BY <1>4, <1>7, <2>1, NothingSwept DEF WithinMessage, Walking
  <2>4. \A s \in Spine : s \in ByInvocation(delayed, i) =>
          s \in ByInvocation(delayed, next) \/ Accounted(s)'
    BY <1>10, <2>3
  <2>5. off \subseteq off'
    BY <1>11
  <2>6. QED
    BY <1>1, <1>4, <1>11, <2>2, <2>4, <2>5, QuietMove
<1>14. QED
  BY <1>12, <1>13

-----------------------------------------------------------------------------
(* RunSuspended, and what becomes of what it collects.                     *)

(* A chain that unwinds leaves the line as it was.                         *)
LEMMA UnwindLine ==
  ASSUME NEW tail \in Seq(Frames), NEW top \in Frames, NEW rest \in Seq(Frames),
         NEW segments \in Seq(Frames), NEW left,
         Line(tail \o (Push(top, rest) \o segments), left)
  PROVE  /\ Line((tail \o Remainder(top)) \o (rest \o segments), left)
         /\ top.owner # NoStep => Hangs(top, left)
<1>1. PICK rem, behind : rem = Remainder(top) /\ behind = rest \o segments
  OBVIOUS
<1>2. /\ rem \in Seq(Frames) /\ behind \in Seq(Frames)
      /\ Hangs(top, left) => AllHang(rem, left)
      /\ Lasts(top, left) => Line(rem, left)
  BY <1>1, RemainderLine
<1>3. PICK whole : whole = Push(top, behind)
  OBVIOUS
<1>4. whole \in Seq(Frames) /\ whole # <<>> /\ Push(top, rest) \o segments = whole
  <2>1. PICK one : one = <<top>>
    OBVIOUS
  <2>2. one \in Seq(Frames)
    BY <2>1
  <2>3. (one \o rest) \o segments = one \o behind
    BY <1>1, <2>2, Regrouped
  <2>4. one \o behind \in Seq(Frames) /\ one \o behind # <<>>
    BY <1>2, <2>1, <2>2
  <2>5. QED
    BY <1>3, <2>1, <2>3, <2>4 DEF Push
<1>5. AllHang(tail, left) /\ Line(whole, left)
  <2>1. Line(tail \o whole, left)
    BY <1>4
  <2>2. QED
    BY <1>4, <2>1, LineJoined
<1>6. (Hangs(top, left) /\ Line(behind, left)) \/ (behind = <<>> /\ Lasts(top, left))
  <2>1. Line(Push(top, behind), left)
    BY <1>3, <1>5
  <2>2. behind \in Seq(Frames)
    BY <1>2
  <2>3. QED
    BY <2>1, <2>2, LinePush
<1>7. Line(rem \o behind, left)
  <2>1. CASE Hangs(top, left) /\ Line(behind, left)
    BY <1>2, <2>1, LineJoined
  <2>2. CASE behind = <<>> /\ Lasts(top, left)
    <3>1. rem \o behind = rem
      BY <1>2, <2>2, Unpadded
    <3>2. QED
      BY <1>2, <2>2, <3>1
  <2>3. QED
    BY <1>6, <2>1, <2>2
<1>8. PICK part : part = rem \o behind
  OBVIOUS
<1>9. part \in Seq(Frames)
  BY <1>2, <1>8
<1>10. Line(tail \o part, left)
  BY <1>5, <1>7, <1>8, <1>9, LineJoined
<1>11. (tail \o rem) \o behind = tail \o part
  BY <1>2, <1>8, Regrouped
<1>12. top.owner # NoStep => Hangs(top, left)
  BY <1>6 DEF Lasts, Plain
<1>13. QED
  BY <1>1, <1>10, <1>11, <1>12

LEMMA UnwindCarries ==
  ASSUME Trees, WorkerInv, CarriedOn, NEW w \in Workers, Unwind(w)
  PROVE  CarriedOn'
<1>1. PICK i, delayed, later : i = inv[w] /\ delayed = Delayed /\ later = Delayed'
  OBVIOUS
<1>2. i.pc = "suspend" /\ i.stack # <<>> /\ UNCHANGED <<messages, environment>>
  BY <1>1 DEF Unwind
<1>3. /\ Shaped(i) /\ i.stack \in Seq(Frames) /\ i.segments \in Seq(Frames) /\ i.tail \in Seq(Frames)
      /\ i.msg \in Envelopes /\ i.step = NoStep /\ i \in Invocations /\ i.paused \in Seq(Pausing)
  BY <1>1, <1>2, Holding
<1>4. PICK left \in SUBSET Spine : WalkShaped(i, left)
  BY <1>2, <1>3 DEF Shaped, Walking
<1>5. /\ Line(LineOf(i), left) /\ (\A s \in left : FlowOf[s] = i.flow)
      /\ NoOwners(i.tail) /\ NoOwners(i.segments) /\ Nests(i.stack, i.segments)
      /\ \A s \in Members(i.paused) : Beyond(s) = left
  BY <1>2, <1>4 DEF WalkShaped
<1>6. PICK top, rest, owner : top = Top(w) /\ rest = Pop(w) /\ owner = top.owner
  OBVIOUS
<1>7. top \in Frames /\ rest \in Seq(Frames) /\ i.stack = Push(top, rest)
  BY <1>1, <1>2, <1>3, <1>6, MembersPop DEF Top, Pop, Push
<1>8. PICK tail : tail = i.tail \o Remainder(top)
  OBVIOUS
<1>9. PICK paused : paused = IF owner = NoStep THEN i.paused ELSE Append(i.paused, owner)
  OBVIOUS
<1>10. PICK next : next = [i EXCEPT !.stack = rest, !.tail = tail, !.paused = paused]
  OBVIOUS
<1>11. inv' = [inv EXCEPT ![w] = next]
  BY <1>1, <1>2, <1>6, <1>8, <1>9, <1>10 DEF Unwind
<1>12. /\ next.pc = "suspend" /\ Goes(i, next) /\ next.stack = rest /\ next.tail = tail
       /\ next.paused = paused /\ next.step = NoStep
  BY <1>2, <1>3, <1>10 DEF Invocations, Goes
<1>13. tail \in Seq(Frames) /\ NoOwners(tail)
  <2>1. PICK rem : rem = Remainder(top)
    OBVIOUS
  <2>2. rem \in Seq(Frames) /\ NoOwners(rem)
    BY <1>7, <2>1, RemainderLine
  <2>3. QED
    BY <1>3, <1>5, <1>8, <2>1, <2>2, FramesJoined
<1>14. /\ Line(LineOf(next), left) /\ (owner # NoStep => Hangs(top, left))
  <2>1. Line(i.tail \o (Push(top, rest) \o i.segments), left)
    BY <1>5, <1>7 DEF LineOf
  <2>2. /\ Line((i.tail \o Remainder(top)) \o (rest \o i.segments), left)
        /\ (top.owner # NoStep => Hangs(top, left))
    BY <1>3, <1>7, <2>1, UnwindLine
  <2>3. QED
    BY <1>6, <1>8, <1>12, <2>2 DEF LineOf, Goes
<1>15. owner # NoStep => owner \in Spine \cup InnerSteps /\ Beyond(owner) = left /\ owner \in Pausing
  <2>1. top.owner \in Wrappers \cup {NoStep}
    BY <1>7 DEF Frames
  <2>2. QED
    BY <1>6, <1>14, <2>1 DEF Hangs, Pausing
<1>16. /\ Members(paused) = Members(i.paused) \cup ({owner} \ {NoStep})
       /\ \A s \in Members(paused) : Beyond(s) = left
  BY <1>3, <1>5, <1>9, <1>15, MembersAppend
<1>17. WalkShaped(next, left)
  <2>1. Nests(rest, i.segments)
    BY <1>5, <1>7, NestsPush
  <2>2. QED
    BY <1>5, <1>12, <1>13, <1>14, <1>16, <2>1, SpineTyped DEF WalkShaped, Goes
<1>18. StepsOf(LineOf(i)) \cap Spine = left /\ StepsOf(LineOf(next)) \cap Spine = left
  <2>1. next.stack \in Seq(Frames) /\ next.segments \in Seq(Frames) /\ next.tail \in Seq(Frames)
    BY <1>3, <1>7, <1>12, <1>13 DEF Goes
  <2>2. LineOf(i) \in Seq(Frames) /\ LineOf(next) \in Seq(Frames)
    BY <1>3, <2>1, LineTyped
  <2>3. QED
    BY <1>5, <1>14, <2>2, LineSteps
<1>19. Owners(i.stack) = {owner} \cup Owners(rest)
  BY <1>6, <1>7, FramesPush
<1>20. /\ InHand(next) \cap Spine \subseteq InHand(i)
       /\ (InHand(i) \cap Spine) \ {owner} \subseteq InHand(next)
       /\ owner \in InHand(i)
  BY <1>3, <1>12, <1>18, <1>19, SpineTyped DEF InHand
<1>21. /\ i.pc \in Walking /\ next.pc \in Walking /\ next.msg = i.msg /\ next.sweep = i.sweep
       /\ next.parks = i.parks /\ next.flow = i.flow
       /\ next.stack \in Seq(Frames) /\ next.segments \in Seq(Frames) /\ next.tail \in Seq(Frames)
  BY <1>2, <1>3, <1>7, <1>12, <1>13 DEF Walking, Goes
<1>22. next.pc = "suspend" => Members(next.paused) \cap Spine \subseteq InHand(i)
         \cup (IF i.pc = "suspend" THEN Members(i.paused) ELSE {})
  BY <1>2, <1>12, <1>16, <1>20
<1>23. ASSUME delayed \ {owner} \subseteq later
       PROVE  \A s \in Spine \ {owner} : s \in ByInvocation(delayed, i) => s \in ByInvocation(later, next)
  BY <1>2, <1>12, <1>16, <1>20, <1>21, <1>23, WalkCarries
<1>24. CASE owner = NoStep
  <2>1. UNCHANGED <<records, messages, environment>>
    BY <1>1, <1>2, <1>6, <1>24 DEF Unwind
  <2>2. delayed = later
    BY <1>1, <2>1 DEF records, Delayed
  <2>3. \A s \in Spine : s \in ByInvocation(delayed, i) => s \in ByInvocation(delayed, next)
    BY <1>23, <1>24, <2>2, SpineTyped
  <2>4. QED
    BY <1>1, <1>11, <1>17, <1>20, <1>21, <1>22, <2>1, <2>3, QuietWalk
<1>25. CASE owner # NoStep
  <2>1. Mark(owner, "delayed")
    BY <1>1, <1>2, <1>6, <1>25 DEF Unwind
  <2>2. owner \in Steps
    BY <1>15, <1>25, SpineTyped
  <2>3. Writes(owner) /\ status'[owner] = "delayed"
    BY <2>1, <2>2 DEF Mark, Writes, WorkerInv, TypeOK
  <2>4. delayed \ {owner} \subseteq later
    BY <1>1, <2>3 DEF Delayed, Writes
  <2>5. owner \in Spine => owner \in ByInvocation(later, next)
    <3>1. owner \in Members(next.paused) \cap later
      BY <1>1, <1>12, <1>16, <1>25, <2>2, <2>3 DEF Delayed
    <3>2. QED
      BY <1>12, <3>1 DEF ByInvocation
  <2>6. \A s \in Spine \ {owner} : s \in ByInvocation(delayed, i) => s \in ByInvocation(later, next)
    BY <1>23, <2>4
  <2>7. Beyond(owner) \subseteq left /\ status'[owner] # "filtered"
    BY <1>15, <1>25, <2>3
  <2>8. QED
    BY <1>1, <1>2, <1>11, <1>17, <1>20, <1>21, <1>22, <2>3, <2>5, <2>6, <2>7, WalkStep
<1>26. QED
  BY <1>24, <1>25

LEMMA SuspendCarries ==
  ASSUME Trees, WorkerInv, CarriedOn, NEW w \in Workers, Suspend(w)
  PROVE  CarriedOn'
<1>1. PICK i, delayed : i = inv[w] /\ delayed = Delayed
  OBVIOUS
<1>2. i.pc = "suspend" /\ i.stack = <<>> /\ UNCHANGED <<records, messages, environment>>
  BY <1>1 DEF Suspend
<1>3. /\ Shaped(i) /\ i.segments \in Seq(Frames) /\ i.tail \in Seq(Frames) /\ i.stack \in Seq(Frames)
      /\ i.msg \in Envelopes /\ i.step = NoStep /\ i \in Invocations /\ i.paused \in Seq(Pausing)
      /\ i.parks \in Seq(Suspensions) /\ i.flow \in DOMAIN Chain \cup {NoFlow}
  <2>1. i \in Invocations
    BY <1>1, Holding
  <2>2. i.flow \in DOMAIN Chain \cup {NoFlow}
    BY <2>1 DEF Invocations
  <2>3. QED
    BY <1>1, <1>2, <2>1, <2>2, Holding
<1>4. PICK left \in SUBSET Spine : WalkShaped(i, left)
  BY <1>2, <1>3 DEF Shaped, Walking
<1>5. /\ Line(LineOf(i), left) /\ (\A s \in left : FlowOf[s] = i.flow)
      /\ NoOwners(i.tail) /\ NoOwners(i.segments)
      /\ \A s \in Members(i.paused) : Beyond(s) = left
  BY <1>2, <1>4 DEF WalkShaped
<1>6. PICK rem : rem = i.tail \o i.segments
  OBVIOUS
<1>7. rem \in Seq(Frames) /\ NoOwners(rem)
  BY <1>3, <1>5, <1>6, FramesJoined
<1>8. LineOf(i) = rem
  <2>1. <<>> \o i.segments = i.segments
    BY <1>3, Unpadded
  <2>2. QED
    BY <1>2, <1>6, <2>1 DEF LineOf
<1>9. PICK park : park = [flow |-> i.flow, paused |-> i.paused, segments |-> rem]
  OBVIOUS
<1>10. /\ park \in Suspensions /\ park.flow = i.flow /\ park.paused = i.paused /\ park.segments = rem
  BY <1>3, <1>7, <1>9 DEF Suspensions
<1>11. ParkShaped(park)
  BY <1>5, <1>7, <1>8, <1>10 DEF ParkShaped, PauseShaped
<1>12. PICK parks, pc : /\ parks = Append(i.parks, park)
                        /\ pc = IF i.msg.kind = "event" THEN "sweep" ELSE "park"
  OBVIOUS
<1>13. PICK next : next = [i EXCEPT !.pc = pc, !.tail = <<>>, !.segments = <<>>, !.paused = <<>>,
                                    !.parks = parks]
  OBVIOUS
<1>14. inv' = [inv EXCEPT ![w] = next]
  BY <1>1, <1>2, <1>6, <1>9, <1>12, <1>13 DEF Suspend, Message
<1>15. /\ next.pc = pc /\ next.msg = i.msg /\ next.sweep = i.sweep /\ next.parks = parks
       /\ next.flow = i.flow /\ next.stack = <<>> /\ next.segments = <<>> /\ next.tail = <<>>
  BY <1>2, <1>3, <1>13 DEF Invocations
<1>16. Members(parks) = Members(i.parks) \cup {park}
  BY <1>3, <1>10, <1>12, MembersAppend
<1>17. /\ MessageShaped(i.msg) /\ (i.msg.kind = "resume" => WithinMessage(i))
       /\ \A p \in Members(i.parks) : ParkShaped(p)
  BY <1>2, <1>3 DEF Shaped, Sweeping, Walking
<1>18. InHand(i) = StepsOf(rem) \cup {NoStep}
  BY <1>2, <1>3, <1>8, FramesOf DEF InHand
<1>19. pc \in Sweeping /\ pc \in {"sweep", "park"}
  BY <1>12 DEF Sweeping
<1>20. ASSUME NEW s \in Spine, s \in ByInvocation(delayed, i) PROVE s \in ByInvocation(delayed, next)
  <2>1. \/ s \in BySweep(delayed, i) \/ s \in StepsOf(rem) \/ s \in Members(i.paused) \cap delayed
    BY <1>2, <1>18, <1>20, SpineTyped DEF ByInvocation
  <2>2. s \in Pause(delayed, park.paused, park.segments) => s \in BySweep(delayed, next)
    BY <1>15, <1>16, SweepMembers
  <2>3. s \in BySweep(delayed, i) => s \in BySweep(delayed, next)
    BY <1>15, <1>16, SweepMembers
  <2>4. s \in BySweep(delayed, next)
    BY <1>10, <2>1, <2>2, <2>3 DEF Pause
  <2>5. QED
    BY <1>15, <1>19, <2>4 DEF ByInvocation
<1>21. Shaped(next)
  <2>1. CASE i.msg.kind = "event"
    BY <1>11, <1>12, <1>15, <1>16, <1>17, <2>1 DEF Shaped, Walking
  <2>2. CASE i.msg.kind # "event"
    <3>1. i.msg.kind = "resume" /\ pc = "park"
      BY <1>3, <1>12, <2>2 DEF Envelopes
    <3>2. PICK named : named = StepsOf(i.msg.segments)
      OBVIOUS
    <3>3. /\ i.sweep = {} /\ i.flow = i.msg.flow /\ i.parks = <<>>
          /\ InHand(i) \cap Spine \subseteq named /\ Members(i.paused) \cap Spine \subseteq named
      BY <1>2, <1>17, <3>1, <3>2 DEF WithinMessage, Walking
    <3>4. Members(parks) = {park}
      BY <1>16, <3>3, MembersOf
    <3>5. (Members(park.paused) \cup StepsOf(park.segments)) \cap Spine \subseteq named
      BY <1>10, <1>18, <3>3
    <3>6. WithinMessage(next)
      BY <1>15, <3>1, <3>2, <3>3, <3>4, <3>5 DEF WithinMessage, Walking
    <3>7. QED
      BY <1>11, <1>15, <1>17, <3>1, <3>3, <3>4, <3>6 DEF Shaped, Walking, Starting
  <2>3. QED
    BY <2>1, <2>2
<1>22. dead' = dead /\ off' = off /\ queue' = queue /\ status' = status
  BY <1>2 DEF records, messages, environment
<1>23. off \subseteq off'
  BY <1>22
<1>24. QED
  BY <1>1, <1>14, <1>20, <1>21, <1>22, <1>23, QuietMove

LEMMA ParkFailsCarries ==
  ASSUME Trees, WorkerInv, CarriedOn, NEW w \in Workers, ParkFails(w)
  PROVE  CarriedOn'
<1>1. PICK i, delayed : i = inv[w] /\ delayed = Delayed
  OBVIOUS
<1>2. PICK next : next = [i EXCEPT !.pc = "requeue"]
  OBVIOUS
<1>3. /\ i.pc = "park" /\ inv' = [inv EXCEPT ![w] = next]
      /\ UNCHANGED <<records, messages>> /\ off' = off
  BY <1>1, <1>2 DEF ParkFails
<1>4. Shaped(i) /\ i.msg \in Envelopes /\ i \in Invocations /\ i.pc # "idle"
  BY <1>1, <1>3, Holding
<1>5. next.pc = "requeue" /\ next.msg = i.msg /\ next.sweep = i.sweep /\ next.flow = i.flow
  BY <1>2, <1>4 DEF Invocations
<1>6. Shaped(next)
  BY <1>4, <1>5, Leaving
<1>7. \A s \in Spine \ {NoStep} : s \in ByInvocation(delayed, i) => s \in ByInvocation(delayed, next)
  BY <1>4, <1>5, HandBack
<1>8. \A s \in Spine : s \in ByInvocation(delayed, i) =>
        s \in ByInvocation(delayed, next) \/ Accounted(s)'
  BY <1>7, SpineTyped
<1>9. status' = status /\ queue' = queue /\ dead' = dead /\ off \subseteq off'
  BY <1>3 DEF records, messages
<1>10. QED
  BY <1>1, <1>3, <1>6, <1>8, <1>9, QuietMove

-----------------------------------------------------------------------------
(* What is sent, and what is sent back.                                    *)

(* No record changes, and a message goes on the queue.                     *)
LEMMA SendMove ==
  ASSUME WorkerInv, CarriedOn, NEW w \in Workers, NEW i, NEW next, NEW delayed, NEW m,
         i = inv[w], inv' = [inv EXCEPT ![w] = next], delayed = Delayed,
         status' = status, Send(m), MessageShaped(m), dead' = dead, off \subseteq off', Shaped(next),
         \A s \in Spine : s \in ByInvocation(delayed, i) =>
           s \in ByInvocation(delayed, next) \/ s \in ByMessage(delayed, m) \/ Accounted(s)'
  PROVE  CarriedOn'
<1>1. PICK mail, later : mail = BagToSet(queue)' /\ later = Delayed'
  OBVIOUS
<1>2. mail = BagToSet(queue) \cup {m}
  <2>1. IsABag(queue)
    BY DEF WorkerInv, TypeOK
  <2>2. BagToSet(queue (+) SetToBag({m})) = BagToSet(queue) \cup {m}
    BY <2>1, BagMore
  <2>3. BagToSet(queue)' = BagToSet(queue (+) SetToBag({m}))
    BY DEF Send
  <2>4. QED
    BY <1>1, <2>2, <2>3
<1>3. delayed = later
  BY <1>1 DEF Delayed
<1>4. ASSUME NEW s, s \in ByMessage(delayed, m) PROVE Accounted(s)'
  BY <1>1, <1>2, <1>3, <1>4 DEF Accounted, Carried
<1>5. \E u : u \notin Steps /\ u \notin Spine /\ u \notin Halted
  BY SpineTyped, ChainsAssumption DEF Halted
<1>6. ASSUME NEW u, u \notin Steps, u \notin Spine, u \notin Halted PROVE CarriedOn'
  <2>1. \A n \in BagToSet(queue)' : n \in BagToSet(queue) \/ MessageShaped(n)
    BY <1>1, <1>2
  <2>2. \A n \in BagToSet(queue) :
          \/ n \in BagToSet(queue)'
          \/ \A s \in Spine \ {u} : s \in ByMessage(delayed, n) => Accounted(s)'
    BY <1>1, <1>2
  <2>3. \A s \in Spine \ {u} : s \in ByInvocation(delayed, i) =>
          s \in ByInvocation(later, next) \/ Accounted(s)'
    BY <1>3, <1>4
  <2>4. QED
    BY <1>1, <1>6, <2>1, <2>2, <2>3, CarryStep
<1>7. QED
  BY <1>5, <1>6

LEMMA ParkApart ==
  ASSUME NEW parks \in Seq(Suspensions), parks # <<>>, NEW i, NEW rest,
         i = IF Len(parks) > 1 THEN 2 ELSE 1,
         rest = IF Len(parks) > 1 THEN <<parks[1]>> \o SubSeq(parks, 3, Len(parks)) ELSE <<>>
  PROVE  /\ i \in DOMAIN parks /\ parks[i] \in Suspensions /\ rest \in Seq(Suspensions)
         /\ Members(parks) = {parks[i]} \cup Members(rest)
<1>1. Len(parks) \in Nat \ {0} /\ (\A j \in DOMAIN parks : parks[j] \in Suspensions)
      /\ DOMAIN parks = 1 .. Len(parks)
  OBVIOUS
<1>2. i \in DOMAIN parks /\ parks[i] \in Suspensions
  BY <1>1
<1>3. CASE Len(parks) > 1
  <2>1. PICK first, others : first = <<parks[1]>> /\ others = SubSeq(parks, 3, Len(parks))
    OBVIOUS
  <2>2. first \in Seq(Suspensions) /\ Members(first) = {parks[1]}
    BY <1>1, <2>1, MembersOf
  <2>3. /\ others \in Seq(Suspensions) /\ Len(others) = Len(parks) - 2
        /\ \A k \in 1 .. Len(parks) - 2 : others[k] = parks[k + 2]
    BY <1>1, <1>3, <2>1
  <2>4. rest = first \o others
    BY <1>3, <2>1
  <2>5. rest \in Seq(Suspensions) /\ Members(rest) = Members(first) \cup Members(others)
    <3>1. first \in Seq(Suspensions) /\ others \in Seq(Suspensions)
      BY <2>2, <2>3
    <3>2. /\ first \o others \in Seq(Suspensions)
          /\ Members(first \o others) = Members(first) \cup Members(others)
      BY <3>1, MembersJoined
    <3>3. QED
      BY <2>4, <3>2
  <2>6. DOMAIN others = 1 .. Len(parks) - 2
    BY <2>3
  <2>7. \A k \in DOMAIN others : k + 2 \in DOMAIN parks /\ others[k] = parks[k + 2]
    BY <1>1, <2>3, <2>6
  <2>8. \A k \in DOMAIN parks : k = 1 \/ k = 2 \/ (k - 2 \in DOMAIN others /\ parks[k] = others[k - 2])
    <3>1. ASSUME NEW k \in DOMAIN parks, k # 1, k # 2
          PROVE  k - 2 \in DOMAIN others /\ parks[k] = others[k - 2]
      <4>1. k - 2 \in 1 .. Len(parks) - 2 /\ (k - 2) + 2 = k
        BY <1>1, <3>1
      <4>2. QED
        BY <2>3, <2>6, <4>1
    <3>2. QED
      BY <3>1
  <2>9. Members(others) \subseteq Members(parks)
    BY <2>7 DEF Members
  <2>10. \A e \in Members(parks) : e = parks[1] \/ e = parks[2] \/ e \in Members(others)
    BY <2>8 DEF Members
  <2>11. i = 2 /\ parks[1] \in Members(parks) /\ parks[2] \in Members(parks)
    BY <1>1, <1>3 DEF Members
  <2>12. QED
    BY <1>2, <2>2, <2>5, <2>9, <2>10, <2>11
<1>4. CASE ~(Len(parks) > 1)
  <2>1. Len(parks) = 1 /\ i = 1 /\ rest = <<>>
    BY <1>1, <1>4
  <2>2. Members(parks) = {parks[1]}
    BY <1>1, <2>1 DEF Members
  <2>3. QED
    BY <1>2, <2>1, <2>2, MembersOf
<1>5. QED
  BY <1>3, <1>4

LEMMA ParkCarries ==
  ASSUME Trees, WorkerInv, CarriedOn, NEW w \in Workers, Park(w)
  PROVE  CarriedOn'
<1>1. PICK i, delayed, parks : i = inv[w] /\ delayed = Delayed /\ parks = inv[w].parks
  OBVIOUS
<1>2. PICK k, rest :
        /\ k = IF Len(parks) > 1 THEN 2 ELSE 1
        /\ rest = IF Len(parks) > 1 THEN <<parks[1]>> \o SubSeq(parks, 3, Len(parks)) ELSE <<>>
  OBVIOUS
<1>3. PICK park, pc : park = parks[k] /\ pc = IF rest = <<>> THEN "matched" ELSE "park"
  OBVIOUS
<1>4. PICK m : m = Continuation(park.flow, park.segments, park.paused)
  OBVIOUS
<1>5. PICK next : next = [i EXCEPT !.parks = rest, !.pc = pc]
  OBVIOUS
<1>6. /\ i.pc = "park" /\ Send(m) /\ inv' = [inv EXCEPT ![w] = next]
      /\ UNCHANGED <<records, dead, environment>>
  BY <1>1, <1>2, <1>3, <1>4, <1>5 DEF Park
<1>7. /\ Shaped(i) /\ i.msg \in Envelopes /\ i \in Invocations /\ Consistent(i)
      /\ parks \in Seq(Suspensions) /\ parks # <<>>
  <2>1. /\ Shaped(i) /\ i.msg \in Envelopes /\ i \in Invocations /\ Consistent(i)
        /\ parks \in Seq(Suspensions)
    BY <1>1, <1>6, Holding
  <2>2. QED
    BY <1>1, <1>6, <2>1 DEF Consistent
<1>8. /\ park \in Suspensions /\ rest \in Seq(Suspensions)
      /\ Members(parks) = {park} \cup Members(rest)
  BY <1>2, <1>3, <1>7, ParkApart
<1>9. /\ next.pc = pc /\ next.msg = i.msg /\ next.sweep = i.sweep /\ next.parks = rest
      /\ next.flow = i.flow
  BY <1>5, <1>7 DEF Invocations
<1>10. /\ MessageShaped(i.msg) /\ (i.msg.kind = "resume" => WithinMessage(i)) /\ i.sweep = {}
       /\ \A p \in Members(parks) : ParkShaped(p)
  BY <1>1, <1>6, <1>7 DEF Shaped, Sweeping
<1>11. m.kind = "resume" /\ m.flow = park.flow /\ m.paused = park.paused /\ m.segments = park.segments
  BY <1>4 DEF Continuation
<1>12. MessageShaped(m)
  <2>1. ParkShaped(park)
    BY <1>8, <1>10
  <2>2. QED
    BY <1>11, <2>1 DEF MessageShaped, ParkShaped
<1>13. Shaped(next)
  <2>1. CASE rest = <<>>
    BY <1>3, <1>6, <1>7, <1>9, <2>1, Leaving
  <2>2. CASE rest # <<>>
    <3>1. next.pc = "park"
      BY <1>3, <1>9, <2>2
    <3>2. i.msg.kind = "resume" => WithinMessage(next)
      <4>1. PICK named : named = StepsOf(i.msg.segments)
        OBVIOUS
      <4>2. i.msg.kind = "resume" =>
              /\ i.sweep = {} /\ i.flow = i.msg.flow
              /\ \A p \in Members(parks) :
                   (Members(p.paused) \cup StepsOf(p.segments)) \cap Spine \subseteq named
        BY <1>1, <1>6, <1>10, <4>1 DEF WithinMessage
      <4>3. QED
        BY <1>8, <1>9, <3>1, <4>1, <4>2 DEF WithinMessage, Walking
    <3>3. QED
      BY <1>8, <1>9, <1>10, <3>1, <3>2 DEF Shaped, Walking, Starting
  <2>3. QED
    BY <2>1, <2>2
<1>14. ASSUME NEW s \in Spine, s \in ByInvocation(delayed, i)
       PROVE  s \in ByInvocation(delayed, next) \/ s \in ByMessage(delayed, m)
  <2>1. s \in BySweep(delayed, i)
    BY <1>6, <1>14 DEF ByInvocation, Walking
  <2>2. PICK p \in Members(parks) : s \in Pause(delayed, p.paused, p.segments)
    BY <1>1, <1>10, <2>1, SweepMembers
  <2>3. CASE p = park
    BY <1>11, <2>2, <2>3 DEF ByMessage
  <2>4. CASE p \in Members(rest)
    <3>1. rest # <<>>
      BY <2>4, MembersOf
    <3>2. s \in BySweep(delayed, next)
      BY <1>9, <2>2, <2>4, SweepMembers
    <3>3. QED
      BY <1>3, <1>9, <3>1, <3>2 DEF ByInvocation, Sweeping
  <2>5. QED
    BY <1>8, <2>3, <2>4
<1>15. \A s \in Spine : s \in ByInvocation(delayed, i) =>
         s \in ByInvocation(delayed, next) \/ s \in ByMessage(delayed, m) \/ Accounted(s)'
  BY <1>14
<1>16. status' = status /\ dead' = dead /\ off \subseteq off'
  BY <1>6 DEF records, environment
<1>17. QED
  BY <1>1, <1>6, <1>12, <1>13, <1>15, <1>16, SendMove

LEMMA RaisedCarries ==
  ASSUME Trees, WorkerInv, CarriedOn, NEW w \in Workers, Raised(w)
  PROVE  CarriedOn'
<1>1. PICK i, delayed, pc : i = inv[w] /\ delayed = Delayed /\ pc = Verdict(w)
  OBVIOUS
<1>2. PICK next : next = [i EXCEPT !.pc = pc]
  OBVIOUS
<1>3. /\ i.pc = "raise" /\ inv' = [inv EXCEPT ![w] = next]
      /\ UNCHANGED <<records, dead, environment>>
  BY <1>1, <1>2 DEF Raised
<1>4. Shaped(i) /\ i.msg \in Envelopes /\ i \in Invocations /\ i.pc # "idle"
  BY <1>1, <1>3, Holding
<1>5. next.pc = pc /\ next.msg = i.msg /\ next.sweep = i.sweep /\ next.flow = i.flow
  BY <1>2, <1>4 DEF Invocations
<1>6. pc \in {"requeue", "failed", "retried"} /\ (pc = "retried" <=> Retries(w))
  BY <1>1 DEF Verdict, Retries
<1>7. Shaped(next)
  BY <1>4, <1>5, <1>6, Leaving
<1>8. status' = status /\ dead' = dead /\ (dead => dead') /\ off \subseteq off'
  BY <1>3 DEF records, environment
<1>9. CASE Retries(w)
  <2>1. PICK m : m = EventMessage(NextAttempt(Message(w)))
    OBVIOUS
  <2>2. Send(m)
    BY <1>1, <1>9, <2>1 DEF Raised
  <2>3. m.kind = "event"
    BY <2>1 DEF EventMessage
  <2>4. MessageShaped(m) /\ ByMessage(delayed, m) = Spine
    BY <2>3 DEF MessageShaped, ByMessage
  <2>5. \A s \in Spine : s \in ByInvocation(delayed, i) =>
          s \in ByInvocation(delayed, next) \/ s \in ByMessage(delayed, m) \/ Accounted(s)'
    BY <2>4
  <2>6. QED
    BY <1>1, <1>3, <1>7, <1>8, <2>2, <2>4, <2>5, SendMove
<1>10. CASE ~Retries(w)
  <2>1. queue' = queue
    BY <1>1, <1>10 DEF Raised
  <2>2. \A s \in Spine \ {NoStep} : s \in ByInvocation(delayed, i) => s \in ByInvocation(delayed, next)
    BY <1>4, <1>5, <1>6, <1>10, HandBack
  <2>3. \A s \in Spine : s \in ByInvocation(delayed, i) =>
          s \in ByInvocation(delayed, next) \/ Accounted(s)'
    BY <2>2, SpineTyped
  <2>4. QED
    BY <1>1, <1>3, <1>7, <1>8, <2>1, <2>3, QuietMove
<1>11. QED
  BY <1>9, <1>10

LEMMA IdleShaped == Shaped(Idle) /\ \A delayed : ByInvocation(delayed, Idle) = {}
BY DEF Shaped, Idle, Walking, Sweeping, Starting, ByInvocation

LEMMA AcknowledgeCarries ==
  ASSUME Trees, WorkerInv, CarriedOn, NEW w \in Workers, Acknowledge(w)
  PROVE  CarriedOn'
<1>1. PICK i, delayed : i = inv[w] /\ delayed = Delayed
  OBVIOUS
<1>2. /\ i.pc \in {"matched", "retried"} /\ inv' = [inv EXCEPT ![w] = Idle]
      /\ status' = status /\ queue' = queue /\ dead' = dead /\ off' = off
  BY <1>1 DEF Acknowledge, Leave, messages
<1>3. ByInvocation(delayed, i) = {}
  BY <1>2 DEF ByInvocation, Walking, Sweeping
<1>4. \A s \in Spine : s \in ByInvocation(delayed, i) =>
        s \in ByInvocation(delayed, Idle) \/ Accounted(s)'
  BY <1>3
<1>5. (dead => dead') /\ off \subseteq off' /\ Shaped(Idle)
  BY <1>2, IdleShaped
<1>6. QED
  BY <1>1, <1>2, <1>4, <1>5, QuietMove

(* The message goes back, whatever its invocation was at.                  *)
LEMMA ReturnCarries ==
  ASSUME WorkerInv, CarriedOn, NEW w \in Workers, inv[w].pc # "idle", Return(w),
         inv' = [inv EXCEPT ![w] = Idle], status' = status, off \subseteq off'
  PROVE  CarriedOn'
<1>1. PICK i, delayed, m : i = inv[w] /\ delayed = Delayed /\ m = inv[w].msg
  OBVIOUS
<1>2. Shaped(i) /\ m \in Envelopes /\ i.pc # "idle"
  BY <1>1, Holding
<1>3. MessageShaped(m)
  BY <1>1, <1>2 DEF Shaped
<1>4. CASE dead' = TRUE /\ queue' = queue
  <2>1. \A s \in Spine : s \in ByInvocation(delayed, i) =>
          s \in ByInvocation(delayed, Idle) \/ Accounted(s)'
    BY <1>4 DEF Accounted
  <2>2. (dead => dead') /\ Shaped(Idle)
    BY <1>4, IdleShaped
  <2>3. QED
    BY <1>1, <1>4, <2>1, <2>2, QuietMove
<1>5. CASE Send(m) /\ dead' = dead
  <2>1. ByInvocation(delayed, i) \cap Spine \subseteq ByMessage(delayed, m)
    BY <1>1, <1>2, WithinHand
  <2>2. \A s \in Spine : s \in ByInvocation(delayed, i) =>
          s \in ByInvocation(delayed, Idle) \/ s \in ByMessage(delayed, m) \/ Accounted(s)'
    BY <2>1
  <2>3. Shaped(Idle)
    BY IdleShaped
  <2>4. QED
    BY <1>1, <1>3, <1>5, <2>2, <2>3, SendMove
<1>6. QED
  BY <1>1, <1>4, <1>5 DEF Return, Message

LEMMA RejectCarries ==
  ASSUME Trees, WorkerInv, CarriedOn, NEW w \in Workers, Reject(w) \/ Crash(w)
  PROVE  CarriedOn'
<1>1. CASE Reject(w)
  <2>1. /\ inv[w].pc # "idle" /\ Return(w) /\ inv' = [inv EXCEPT ![w] = Idle]
        /\ status' = status /\ off \subseteq off'
    BY <1>1 DEF Reject, Leave
  <2>2. QED
    BY <2>1, ReturnCarries
<1>2. CASE Crash(w)
  <2>1. /\ inv[w].pc # "idle" /\ Return(w) /\ inv' = [inv EXCEPT ![w] = Idle]
        /\ status' = status /\ off \subseteq off'
    BY <1>2 DEF Crash, Leave
  <2>2. QED
    BY <2>1, ReturnCarries
<1>3. QED
  BY <1>1, <1>2

LEMMA ResumeEarlyCarries ==
  ASSUME Trees, WorkerInv, CarriedOn, NEW w \in Workers, ResumeEarly(w)
  PROVE  CarriedOn'
<1>1. PICK i, delayed, m : i = inv[w] /\ delayed = Delayed /\ m = Rehop(inv[w].msg)
  OBVIOUS
<1>2. PICK next : next = [i EXCEPT !.pc = "matched"]
  OBVIOUS
<1>3. /\ i.pc = "resume" /\ Send(m) /\ inv' = [inv EXCEPT ![w] = next]
      /\ UNCHANGED <<records, dead, environment>>
  BY <1>1, <1>2 DEF ResumeEarly, Message
<1>4. Shaped(i) /\ i.msg \in Envelopes /\ i \in Invocations /\ i.pc # "idle"
  BY <1>1, <1>3, Holding
<1>5. next.pc = "matched" /\ next.msg = i.msg /\ next.sweep = i.sweep /\ next.flow = i.flow
  BY <1>2, <1>4 DEF Invocations
<1>6. Shaped(next)
  BY <1>4, <1>5, Leaving
<1>7. /\ m.kind = i.msg.kind /\ m.flow = i.msg.flow /\ m.paused = i.msg.paused
      /\ m.segments = i.msg.segments
  BY <1>1, <1>4 DEF Rehop, Envelopes
<1>8. MessageShaped(m)
  <2>1. MessageShaped(i.msg)
    BY <1>4 DEF Shaped
  <2>2. QED
    BY <1>7, <2>1 DEF MessageShaped
<1>9. ByInvocation(delayed, i) = ByMessage(delayed, m)
  <2>1. ByMessage(delayed, m) = ByMessage(delayed, i.msg)
    BY <1>7 DEF ByMessage
  <2>2. QED
    BY <1>3, <2>1 DEF ByInvocation, Walking, Sweeping
<1>10. \A s \in Spine : s \in ByInvocation(delayed, i) =>
        s \in ByInvocation(delayed, next) \/ s \in ByMessage(delayed, m) \/ Accounted(s)'
  BY <1>9
<1>11. status' = status /\ dead' = dead /\ off \subseteq off'
  BY <1>3 DEF records, environment
<1>12. QED
  BY <1>1, <1>3, <1>6, <1>8, <1>10, <1>11, SendMove

-----------------------------------------------------------------------------
(* What is delivered.                                                      *)

LEMMA BagRest ==
  ASSUME NEW bag, NEW m, IsABag(bag)
  PROVE  BagToSet(bag) \ {m} \subseteq BagToSet(bag (-) SetToBag({m}))
BY DEF IsABag, SetToBag, BagToSet, (-)

LEMMA ReceiveCarries ==
  ASSUME Trees, WorkerInv, CarriedOn, NEW w \in Workers, NEW m \in BagToSet(queue), Receive(w, m)
  PROVE  CarriedOn'
<1>1. PICK i, delayed, later : i = inv[w] /\ delayed = Delayed /\ later = Delayed'
  OBVIOUS
<1>2. PICK event, pc, msg, sweep :
        /\ event = (m.kind = "event") /\ pc = IF event THEN "sweep" ELSE "resume"
        /\ msg = [m EXCEPT !.receives = @ + 1]
        /\ sweep = {k \in DOMAIN Flows : event /\ Flows[k] \notin off}
  OBVIOUS
<1>3. PICK next : next = [i EXCEPT !.pc = pc, !.msg = msg, !.flow = m.flow, !.sweep = sweep]
  OBVIOUS
<1>4. /\ i.pc = "idle" /\ inv' = [inv EXCEPT ![w] = next] /\ queue' = queue (-) SetToBag({m})
      /\ UNCHANGED <<records, dead, off, cancelling, sends, faults>>
  BY <1>1, <1>2, <1>3 DEF Receive
<1>5. i \in Invocations /\ i = Idle
  BY <1>1, <1>4, Holding DEF Shaped
<1>6. /\ next.pc = pc /\ next.msg = msg /\ next.flow = m.flow /\ next.sweep = sweep
      /\ next.stack = <<>> /\ next.segments = <<>> /\ next.tail = <<>> /\ next.parks = <<>>
  BY <1>3, <1>5 DEF Idle
<1>7. IsABag(queue) /\ m \in Envelopes
  BY DEF WorkerInv, TypeOK
<1>8. /\ msg.kind = m.kind /\ msg.flow = m.flow /\ msg.paused = m.paused /\ msg.segments = m.segments
      /\ m.kind \in {"event", "resume"}
  BY <1>2, <1>7 DEF Envelopes
<1>9. MessageShaped(msg)
  <2>1. MessageShaped(m)
    BY DEF CarriedOn, Shapes
  <2>2. QED
    BY <1>8, <2>1 DEF MessageShaped
<1>10. Shaped(next)
  <2>1. CASE m.kind = "event"
    BY <1>2, <1>6, <1>8, <1>9, <2>1, MembersOf DEF Shaped, Walking
  <2>2. CASE m.kind # "event"
    <3>1. pc = "resume" /\ msg.kind = "resume" /\ sweep = {}
      BY <1>2, <1>8, <2>2
    <3>2. WithinMessage(next)
      BY <1>6, <1>8, <3>1 DEF WithinMessage, Walking
    <3>3. QED
      BY <1>6, <1>9, <3>1, <3>2 DEF Shaped, Walking, Sweeping
  <2>3. QED
    BY <2>1, <2>2
<1>11. status' = status /\ dead' = dead /\ off' = off /\ delayed = later
  BY <1>1, <1>4 DEF records, Delayed
<1>12. ASSUME NEW s \in ByInvocation(later, next) PROVE Accounted(s)'
  <2>1. inv'[w] = next
    BY <1>4 DEF WorkerInv, TypeOK
  <2>2. QED
    BY <1>1, <1>12, <2>1 DEF Accounted, Carried
<1>13. ASSUME NEW s \in Spine, s \in ByMessage(delayed, m) PROVE Accounted(s)'
  <2>1. CASE m.kind = "event"
    <3>1. PICK k \in DOMAIN Flows : s \in Members(Chain[Flows[k]])
      BY DEF Spine, Members
    <3>2. FlowOf[s] = Flows[k]
      BY <3>1, SpineTyped DEF Trees, Nested
    <3>3. CASE Flows[k] \in off
      BY <1>11, <3>2, <3>3 DEF Accounted
    <3>4. CASE Flows[k] \notin off
      <4>1. k \in next.sweep /\ next.pc = "sweep"
        BY <1>2, <1>6, <2>1, <3>4
      <4>2. s \in BySweep(later, next)
        BY <3>1, <4>1, SweepMembers
      <4>3. QED
        BY <1>12, <4>1, <4>2 DEF ByInvocation, Sweeping
    <3>5. QED
      BY <3>3, <3>4
  <2>2. CASE m.kind # "event"
    <3>1. ByMessage(delayed, m) = ByMessage(later, msg)
      BY <1>8, <1>11, <2>2 DEF ByMessage
    <3>2. next.pc = "resume"
      BY <1>2, <1>6, <2>2
    <3>3. QED
      BY <1>6, <1>12, <1>13, <3>1, <3>2 DEF ByInvocation
  <2>3. QED
    BY <2>1, <2>2
<1>14. PICK mail : mail = BagToSet(queue)'
  OBVIOUS
<1>15. BagToSet(queue) \ {m} \subseteq mail /\ mail \subseteq BagToSet(queue)
  BY <1>4, <1>7, <1>14, BagRest, BagLess
<1>16. \E u : u \notin Steps /\ u \notin Spine /\ u \notin Halted
  BY SpineTyped, ChainsAssumption DEF Halted
<1>17. ASSUME NEW u, u \notin Steps, u \notin Spine, u \notin Halted PROVE CarriedOn'
  <2>1. \A n \in BagToSet(queue)' : n \in BagToSet(queue) \/ MessageShaped(n)
    BY <1>14, <1>15
  <2>2. \A n \in BagToSet(queue) :
          \/ n \in BagToSet(queue)'
          \/ \A s \in Spine \ {u} : s \in ByMessage(delayed, n) => Accounted(s)'
    BY <1>13, <1>14, <1>15
  <2>3. \A s \in Spine \ {u} : s \in ByInvocation(delayed, i) =>
          s \in ByInvocation(later, next) \/ Accounted(s)'
    BY <1>5, IdleShaped
  <2>4. /\ \A s \in Steps : s # u => status'[s] = status[s]
        /\ (dead => dead') /\ off \subseteq off'
    BY <1>11
  <2>5. QED
    BY <1>1, <1>4, <1>10, <1>17, <2>1, <2>2, <2>3, <2>4, CarryStep
<1>18. QED
  BY <1>16, <1>17

(* A continuation, before its chain goes on.                               *)
LEMMA Resuming ==
  ASSUME WorkerInv, CarriedOn, NEW w \in Workers, NEW i, i = inv[w],
         i.pc \in {"resume", "pauses", "close", "drop"}
  PROVE  /\ i \in Invocations /\ i.msg \in Envelopes /\ i.msg.kind = "resume"
         /\ i.stack = <<>> /\ i.segments = <<>> /\ i.tail = <<>> /\ i.sweep = {} /\ i.step = NoStep
         /\ i.flow = i.msg.flow /\ MessageShaped(i.msg) /\ WithinMessage(i) /\ Shaped(i)
         /\ i.paused \in Seq(Pausing) /\ i.msg.segments \in Seq(Frames)
         /\ i.pc # "drop" => i.parks = <<>>
         /\ i.pc # "resume" => Members(i.paused) \subseteq Members(i.msg.paused)
<1>1. /\ Shaped(i) /\ i \in Invocations /\ i.msg \in Envelopes /\ i.step = NoStep
      /\ i.paused \in Seq(Pausing)
  BY Holding
<1>2. i.pc \in Starting /\ i.pc # "idle" /\ i.pc # "sweep"
  BY DEF Starting
<1>3. /\ i.msg.kind = "resume" /\ MessageShaped(i.msg) /\ WithinMessage(i)
      /\ i.stack = <<>> /\ i.segments = <<>> /\ i.tail = <<>>
  BY <1>1, <1>2 DEF Shaped
<1>4. /\ i.sweep = {} /\ i.flow = i.msg.flow
      /\ i.pc # "drop" => i.parks = <<>>
      /\ i.pc # "resume" => Members(i.paused) \subseteq Members(i.msg.paused)
  BY <1>3 DEF WithinMessage
<1>5. i.msg.segments \in Seq(Frames)
  BY <1>1 DEF Envelopes
<1>6. QED
  BY <1>1, <1>3, <1>4, <1>5

(* What is left of the run, as its message says.                           *)
LEMMA LeftInMessage ==
  ASSUME Trees, NEW m \in Envelopes, m.kind = "resume", MessageShaped(m)
  PROVE  \E left \in SUBSET Spine :
           /\ StepsOf(m.segments) \cap Spine = left
           /\ Line(m.segments, left) /\ NoOwners(m.segments)
           /\ \A s \in left : FlowOf[s] = m.flow
           /\ \A s \in Members(m.paused) : Beyond(s) = left
<1>1. PICK left \in SUBSET Spine : PauseShaped(m.flow, m.paused, m.segments, left)
  BY DEF MessageShaped
<1>2. /\ Line(m.segments, left) /\ NoOwners(m.segments)
      /\ \A s \in left : FlowOf[s] = m.flow
      /\ \A s \in Members(m.paused) : Beyond(s) = left
  BY <1>1 DEF PauseShaped
<1>3. m.segments \in Seq(Frames)
  BY DEF Envelopes
<1>4. StepsOf(m.segments) \cap Spine = left
  BY <1>2, <1>3, LineSteps
<1>5. QED
  BY <1>2, <1>4

(* An invocation that has read its continuation stays one.                 *)
LEMMA StillResuming ==
  ASSUME NEW i, NEW next, MessageShaped(i.msg), i.msg.kind = "resume", i.sweep = {},
         i.flow = i.msg.flow, i.stack = <<>>, i.segments = <<>>, i.tail = <<>>,
         next.pc \in {"pauses", "close", "drop"}, next.msg = i.msg, next.sweep = i.sweep,
         next.flow = i.flow, next.stack = i.stack, next.segments = i.segments, next.tail = i.tail,
         next.parks = i.parks, next.pc # "drop" => i.parks = <<>>,
         Members(next.paused) \subseteq Members(i.msg.paused)
  PROVE  Shaped(next)
<1>1. next.pc \notin Walking \cup Sweeping \cup {"idle", "sweep", "stop", "park"}
  BY DEF Walking, Sweeping
<1>2. WithinMessage(next)
  BY <1>1 DEF WithinMessage
<1>3. QED
  BY <1>1, <1>2 DEF Shaped, Starting

LEMMA ResumeWorkflowCarries ==
  ASSUME Trees, WorkerInv, CarriedOn, NEW w \in Workers, ResumeWorkflow(w)
  PROVE  CarriedOn'
<1>1. PICK i, delayed, pc :
        /\ i = inv[w] /\ delayed = Delayed
        /\ pc = IF inv[w].flow \in off THEN "drop" ELSE "pauses"
  OBVIOUS
<1>2. PICK next : next = [i EXCEPT !.pc = pc, !.paused = i.msg.paused]
  OBVIOUS
<1>3. /\ i.pc = "resume" /\ inv' = [inv EXCEPT ![w] = next]
      /\ UNCHANGED <<records, messages, environment>>
  BY <1>1, <1>2 DEF ResumeWorkflow, Message
<1>4. /\ i \in Invocations /\ i.msg \in Envelopes /\ i.msg.kind = "resume"
      /\ i.stack = <<>> /\ i.segments = <<>> /\ i.tail = <<>> /\ i.sweep = {}
      /\ i.flow = i.msg.flow /\ MessageShaped(i.msg) /\ i.parks = <<>>
  BY <1>1, <1>3, Resuming
<1>5. /\ next.pc = pc /\ next.msg = i.msg /\ next.sweep = i.sweep /\ next.flow = i.flow
      /\ next.stack = i.stack /\ next.segments = i.segments /\ next.tail = i.tail
      /\ next.parks = i.parks /\ next.paused = i.msg.paused
  BY <1>2, <1>4 DEF Invocations
<1>6. pc \in {"drop", "pauses"}
  BY <1>1
<1>7. Shaped(next)
  BY <1>4, <1>5, <1>6, StillResuming
<1>8. PICK left \in SUBSET Spine :
        /\ StepsOf(i.msg.segments) \cap Spine = left
        /\ \A s \in left : FlowOf[s] = i.msg.flow
  BY <1>4, LeftInMessage
<1>9. /\ status' = status /\ queue' = queue /\ dead' = dead /\ (dead => dead')
      /\ off' = off /\ off \subseteq off'
  BY <1>3 DEF records, messages, environment
<1>10. ASSUME NEW s \in Spine, s \in ByInvocation(delayed, i)
       PROVE  s \in ByInvocation(delayed, next) \/ Accounted(s)'
  <2>1. s \in ByMessage(delayed, i.msg)
    BY <1>3, <1>10 DEF ByInvocation, Walking, Sweeping
  <2>2. s \in Members(i.msg.paused) \cap delayed \/ s \in StepsOf(i.msg.segments)
    BY <1>4, <2>1 DEF ByMessage, Pause
  <2>3. CASE pc = "pauses"
    BY <1>5, <2>2, <2>3 DEF ByInvocation, Pause
  <2>4. CASE pc = "drop" /\ s \in Members(i.msg.paused) \cap delayed
    BY <1>5, <2>4 DEF ByInvocation
  <2>5. CASE pc = "drop" /\ s \in StepsOf(i.msg.segments)
    BY <1>1, <1>4, <1>8, <1>9, <2>5 DEF Accounted
  <2>6. QED
    BY <1>6, <2>2, <2>3, <2>4, <2>5
<1>11. QED
  BY <1>1, <1>3, <1>7, <1>9, <1>10, QuietMove

LEMMA ReadPausesCarries ==
  ASSUME Trees, WorkerInv, CarriedOn, NEW w \in Workers, ReadPauses(w)
  PROVE  CarriedOn'
<1>1. PICK i, delayed, pc :
        /\ i = inv[w] /\ delayed = Delayed
        /\ pc = IF \E k \in DOMAIN i.paused : status[i.paused[k]] = "cancelled" THEN "drop" ELSE "close"
  OBVIOUS
<1>2. PICK next : next = [i EXCEPT !.pc = pc]
  OBVIOUS
<1>3. /\ i.pc = "pauses" /\ inv' = [inv EXCEPT ![w] = next]
      /\ UNCHANGED <<records, messages, environment>>
  BY <1>1, <1>2 DEF ReadPauses
<1>4. /\ i \in Invocations /\ i.msg \in Envelopes /\ i.msg.kind = "resume"
      /\ i.stack = <<>> /\ i.segments = <<>> /\ i.tail = <<>> /\ i.sweep = {}
      /\ i.flow = i.msg.flow /\ MessageShaped(i.msg) /\ i.parks = <<>>
      /\ i.paused \in Seq(Pausing) /\ Members(i.paused) \subseteq Members(i.msg.paused)
  BY <1>1, <1>3, Resuming
<1>5. /\ next.pc = pc /\ next.msg = i.msg /\ next.sweep = i.sweep /\ next.flow = i.flow
      /\ next.stack = i.stack /\ next.segments = i.segments /\ next.tail = i.tail
      /\ next.parks = i.parks /\ next.paused = i.paused
  BY <1>2, <1>4 DEF Invocations
<1>6. pc \in {"drop", "close"}
  BY <1>1
<1>7. Shaped(next)
  BY <1>4, <1>5, <1>6, StillResuming
<1>8. PICK left \in SUBSET Spine :
        /\ StepsOf(i.msg.segments) \cap Spine = left
        /\ \A s \in Members(i.msg.paused) : Beyond(s) = left
  BY <1>4, LeftInMessage
<1>9. /\ status' = status /\ queue' = queue /\ dead' = dead /\ (dead => dead')
      /\ off' = off /\ off \subseteq off'
  BY <1>3 DEF records, messages, environment
<1>10. pc = "drop" => \A s \in left : Accounted(s)'
  <2>1. SUFFICES ASSUME pc = "drop", NEW s \in left PROVE Accounted(s)'
    OBVIOUS
  <2>2. PICK k \in DOMAIN i.paused : status[i.paused[k]] = "cancelled"
    BY <1>1, <2>1
  <2>3. PICK u : u = i.paused[k]
    OBVIOUS
  <2>4. u \in Members(i.paused) /\ u \in Steps
    BY <1>4, <2>3 DEF Members, Pausing, Wrappers
  <2>5. u \in Halted' /\ s \in Beyond(u)
    BY <1>4, <1>8, <1>9, <2>1, <2>2, <2>3, <2>4 DEF Halted
  <2>6. QED
    BY <2>5 DEF Accounted, Blocked
<1>11. ASSUME NEW s \in Spine, s \in ByInvocation(delayed, i)
       PROVE  s \in ByInvocation(delayed, next) \/ Accounted(s)'
  <2>1. s \in Members(i.paused) \cap delayed \/ s \in StepsOf(i.msg.segments)
    BY <1>3, <1>11 DEF ByInvocation, Walking, Sweeping, Pause
  <2>2. CASE pc = "close"
    BY <1>5, <2>1, <2>2 DEF ByInvocation, Pause
  <2>3. CASE pc = "drop" /\ s \in Members(i.paused) \cap delayed
    BY <1>5, <2>3 DEF ByInvocation
  <2>4. CASE pc = "drop" /\ s \in StepsOf(i.msg.segments)
    BY <1>8, <1>10, <2>4
  <2>5. QED
    BY <1>6, <2>1, <2>2, <2>3, <2>4
<1>12. QED
  BY <1>1, <1>3, <1>7, <1>9, <1>11, QuietMove

LEMMA DropCarries ==
  ASSUME Trees, WorkerInv, CarriedOn, NEW w \in Workers, Drop(w)
  PROVE  CarriedOn'
<1>1. PICK i, delayed, later : i = inv[w] /\ delayed = Delayed /\ later = Delayed'
  OBVIOUS
<1>2. i.pc = "drop" /\ UNCHANGED <<messages, environment>>
  BY <1>1 DEF Drop
<1>3. /\ i \in Invocations /\ i.msg \in Envelopes /\ i.msg.kind = "resume"
      /\ i.stack = <<>> /\ i.segments = <<>> /\ i.tail = <<>> /\ i.sweep = {}
      /\ i.flow = i.msg.flow /\ MessageShaped(i.msg) /\ Shaped(i)
      /\ i.paused \in Seq(Pausing) /\ Members(i.paused) \subseteq Members(i.msg.paused)
  BY <1>1, <1>2, Resuming
<1>4. \A s : s \in ByInvocation(delayed, i) <=> s \in Members(i.paused) \cap delayed
  BY <1>2 DEF ByInvocation, Walking, Sweeping
<1>5. dead' = dead /\ (dead => dead') /\ off' = off /\ off \subseteq off' /\ queue' = queue
  BY <1>2 DEF messages, environment
<1>6. CASE i.paused = <<>>
  <2>1. PICK next : next = [i EXCEPT !.pc = "matched"]
    OBVIOUS
  <2>2. inv' = [inv EXCEPT ![w] = next] /\ status' = status
    BY <1>1, <1>6, <2>1 DEF Drop, records
  <2>3. next.pc = "matched" /\ next.msg = i.msg /\ next.sweep = i.sweep /\ next.flow = i.flow
    BY <1>3, <2>1 DEF Invocations
  <2>4. Shaped(next)
    BY <1>2, <1>3, <2>3, Leaving
  <2>5. \A s \in Spine : s \in ByInvocation(delayed, i) =>
          s \in ByInvocation(delayed, next) \/ Accounted(s)'
    BY <1>4, <1>6, MembersOf
  <2>6. QED
    BY <1>1, <1>5, <2>2, <2>4, <2>5, QuietMove
<1>7. CASE i.paused # <<>>
  <2>1. PICK s, rest : s = Head(i.paused) /\ rest = Tail(i.paused)
    OBVIOUS
  <2>2. s \in Steps /\ rest \in Seq(Pausing) /\ Members(i.paused) = {s} \cup Members(rest)
    <3>1. s \in Pausing /\ rest \in Seq(Pausing) /\ Members(i.paused) = {s} \cup Members(rest)
      BY <1>3, <1>7, <2>1, MembersPop
    <3>2. QED
      BY <3>1 DEF Pausing, Wrappers
  <2>3. PICK next : next = [i EXCEPT !.paused = rest]
    OBVIOUS
  <2>4. inv' = [inv EXCEPT ![w] = next]
    BY <1>1, <1>7, <2>1, <2>3 DEF Drop
  <2>5. /\ next.pc = "drop" /\ next.msg = i.msg /\ next.sweep = i.sweep /\ next.flow = i.flow
        /\ next.stack = i.stack /\ next.segments = i.segments /\ next.tail = i.tail
        /\ next.parks = i.parks /\ next.paused = rest
    BY <1>2, <1>3, <2>3 DEF Invocations
  <2>6. Shaped(next)
    BY <1>3, <2>2, <2>5, StillResuming
  <2>7. CASE status[s] = "delayed"
    <3>1. Mark(s, "cancelled")
      BY <1>1, <1>7, <2>1, <2>7 DEF Drop
    <3>2. status'[s] = "cancelled" /\ \A t \in Steps : t # s => status'[t] = status[t]
      BY <2>2, <3>1 DEF Mark, WorkerInv, TypeOK
    <3>3. s \in Halted' /\ Accounted(s)'
      BY <2>2, <3>2 DEF Halted, Accounted, Blocked
    <3>4. \A t \in Spine \ {s} : t \in ByInvocation(delayed, i) =>
            t \in ByInvocation(later, next) \/ Accounted(t)'
      <4>1. delayed \ {s} \subseteq later
        BY <1>1, <3>2 DEF Delayed
      <4>2. QED
        BY <1>4, <2>2, <2>5, <4>1 DEF ByInvocation
    <3>5. /\ \A m \in BagToSet(queue)' : m \in BagToSet(queue) \/ MessageShaped(m)
          /\ \A m \in BagToSet(queue) :
               \/ m \in BagToSet(queue)'
               \/ \A t \in Spine \ {s} : t \in ByMessage(delayed, m) => Accounted(t)'
      BY <1>5
    <3>6. /\ s \in Steps /\ status'[s] = "filtered" => s \in Spine
          /\ s \in Halted /\ s \notin Halted' => Spine \cap Beyond(s) \subseteq ByInvocation(later, next)
          /\ s \in Spine => s \in ByInvocation(later, next) \/ Accounted(s)'
      BY <3>2, <3>3
    <3>7. i = inv[w] /\ inv' = [inv EXCEPT ![w] = next] /\ delayed = Delayed /\ later = Delayed'
      BY <1>1, <2>4
    <3>8. dead' = dead /\ off' = off /\ queue' = queue
      BY <1>5
    <3>9. QED
      BY <2>2, <2>6, <3>2, <3>4, <3>6, <3>7, <3>8, CarryStep
  <2>8. CASE status[s] # "delayed"
    <3>1. status' = status
      BY <1>1, <1>7, <2>1, <2>8 DEF Drop, records
    <3>2. \A t \in Spine : t \in ByInvocation(delayed, i) =>
            t \in ByInvocation(delayed, next) \/ Accounted(t)'
      BY <1>1, <1>4, <2>2, <2>5, <2>8 DEF ByInvocation, Delayed
    <3>3. QED
      BY <1>1, <1>5, <2>4, <2>6, <3>1, <3>2, QuietMove
  <2>9. QED
    BY <2>7, <2>8
<1>8. QED
  BY <1>6, <1>7

LEMMA ClosePausedCarries ==
  ASSUME Trees, WorkerInv, CarriedOn, NEW w \in Workers, ClosePaused(w)
  PROVE  CarriedOn'
<1>1. PICK i, delayed, later : i = inv[w] /\ delayed = Delayed /\ later = Delayed'
  OBVIOUS
<1>2. i.pc = "close" /\ UNCHANGED <<messages, environment>>
  BY <1>1 DEF ClosePaused
<1>3. /\ i \in Invocations /\ i.msg \in Envelopes /\ i.msg.kind = "resume"
      /\ i.stack = <<>> /\ i.segments = <<>> /\ i.tail = <<>> /\ i.sweep = {} /\ i.step = NoStep
      /\ i.flow = i.msg.flow /\ MessageShaped(i.msg) /\ Shaped(i) /\ i.parks = <<>>
      /\ i.paused \in Seq(Pausing) /\ Members(i.paused) \subseteq Members(i.msg.paused)
      /\ i.msg.segments \in Seq(Frames)
  BY <1>1, <1>2, Resuming
<1>4. \A s : s \in ByInvocation(delayed, i) <=>
               s \in Members(i.paused) \cap delayed \/ s \in StepsOf(i.msg.segments)
  BY <1>2 DEF ByInvocation, Walking, Sweeping, Pause
<1>5. dead' = dead /\ (dead => dead') /\ off' = off /\ off \subseteq off' /\ queue' = queue
  BY <1>2 DEF messages, environment
<1>6. PICK left \in SUBSET Spine :
        /\ StepsOf(i.msg.segments) \cap Spine = left
        /\ Line(i.msg.segments, left) /\ NoOwners(i.msg.segments)
        /\ \A s \in left : FlowOf[s] = i.msg.flow
        /\ \A s \in Members(i.msg.paused) : Beyond(s) = left
  BY <1>3, LeftInMessage
<1>7. CASE i.paused = <<>>
  <2>1. PICK segments : segments = i.msg.segments
    OBVIOUS
  <2>2. PICK next : next = [i EXCEPT !.pc = "walk", !.segments = segments]
    OBVIOUS
  <2>3. inv' = [inv EXCEPT ![w] = next] /\ status' = status
    BY <1>1, <1>7, <2>1, <2>2 DEF ClosePaused, records, Message
  <2>4. /\ next.pc = "walk" /\ next.msg = i.msg /\ next.sweep = {} /\ next.flow = i.flow
        /\ next.stack = <<>> /\ next.tail = <<>> /\ next.segments = segments
        /\ next.parks = <<>> /\ next.step = NoStep
    BY <1>3, <2>2 DEF Invocations
  <2>5. segments \in Seq(Frames) /\ Line(segments, left) /\ NoOwners(segments)
    BY <1>3, <1>6, <2>1
  <2>6. LineOf(next) = segments
    BY <2>4, <2>5, Unpadded DEF LineOf
  <2>7. InHand(next) = StepsOf(segments) \cup {NoStep}
    BY <2>4, <2>6, FramesOf DEF InHand
  <2>8. WalkShaped(next, left)
    <3>1. Nests(<<>>, segments)
      BY DEF Nests
    <3>2. QED
      BY <1>3, <1>6, <2>4, <2>5, <2>6, <3>1, FramesOf, SpineTyped DEF WalkShaped
  <2>9. WithinMessage(next)
    BY <1>3, <2>1, <2>4, <2>7, SpineTyped DEF WithinMessage
  <2>10. next.pc \in Walking /\ next.pc \in Sweeping /\ next.pc \notin Starting \cup {"idle", "stop", "park"}
    BY <2>4 DEF Walking, Sweeping, Starting
  <2>11. Shaped(next)
    BY <1>3, <2>4, <2>8, <2>9, <2>10, MembersOf DEF Shaped, Starting
  <2>12. \A s \in Spine : s \in ByInvocation(delayed, i) =>
           s \in ByInvocation(delayed, next) \/ Accounted(s)'
    BY <1>4, <1>7, <2>1, <2>7, <2>10, MembersOf DEF ByInvocation
  <2>13. QED
    BY <1>1, <1>5, <2>3, <2>11, <2>12, QuietMove
<1>8. CASE i.paused # <<>>
  <2>1. PICK s, rest : s = Head(i.paused) /\ rest = Tail(i.paused)
    OBVIOUS
  <2>2. s \in Steps /\ rest \in Seq(Pausing) /\ Members(i.paused) = {s} \cup Members(rest)
    <3>1. s \in Pausing /\ rest \in Seq(Pausing) /\ Members(i.paused) = {s} \cup Members(rest)
      BY <1>3, <1>8, <2>1, MembersPop
    <3>2. QED
      BY <3>1 DEF Pausing, Wrappers
  <2>3. PICK next : next = [i EXCEPT !.paused = rest]
    OBVIOUS
  <2>4. inv' = [inv EXCEPT ![w] = next] /\ Mark(s, "completed")
    BY <1>1, <1>8, <2>1, <2>3 DEF ClosePaused
  <2>5. /\ next.pc = "close" /\ next.msg = i.msg /\ next.sweep = i.sweep /\ next.flow = i.flow
        /\ next.stack = i.stack /\ next.segments = i.segments /\ next.tail = i.tail
        /\ next.parks = i.parks /\ next.paused = rest
    BY <1>2, <1>3, <2>3 DEF Invocations
  <2>6. Shaped(next)
    BY <1>3, <2>2, <2>5, StillResuming
  <2>7. status'[s] = "completed" /\ \A t \in Steps : t # s => status'[t] = status[t]
    BY <2>2, <2>4 DEF Mark, WorkerInv, TypeOK
  <2>8. Accounted(s)'
    BY <2>7 DEF Accounted, Settled
  <2>9. delayed \ {s} \subseteq later
    BY <1>1, <2>7 DEF Delayed
  <2>10. \A t : t \in ByInvocation(later, next) <=>
                  t \in Members(rest) \cap later \/ t \in StepsOf(i.msg.segments)
    BY <2>5 DEF ByInvocation, Walking, Sweeping, Pause
  <2>11. \A t \in Spine \ {s} : t \in ByInvocation(delayed, i) =>
           t \in ByInvocation(later, next) \/ Accounted(t)'
    BY <1>4, <2>2, <2>9, <2>10
  <2>12. Spine \cap Beyond(s) \subseteq ByInvocation(later, next)
    BY <1>3, <1>6, <2>2, <2>10
  <2>13. /\ dead => dead'
         /\ off \subseteq off'
         /\ \A m \in BagToSet(queue)' : m \in BagToSet(queue) \/ MessageShaped(m)
         /\ \A m \in BagToSet(queue) :
              \/ m \in BagToSet(queue)'
              \/ \A t \in Spine \ {s} : t \in ByMessage(delayed, m) => Accounted(t)'
    BY <1>5
  <2>14. /\ s \in Steps /\ status'[s] = "filtered" => s \in Spine
         /\ s \in Halted /\ s \notin Halted' => Spine \cap Beyond(s) \subseteq ByInvocation(later, next)
         /\ s \in Spine => s \in ByInvocation(later, next) \/ Accounted(s)'
    BY <2>7, <2>8, <2>12
  <2>15. QED
    BY <1>1, <2>4, <2>6, <2>7, <2>11, <2>13, <2>14, CarryStep
<1>9. QED
  BY <1>7, <1>8

-----------------------------------------------------------------------------
(* The sweep, and what happens around the worker.                          *)

(* A workflow's whole chain is the last of its line.                       *)
LEMMA WholeChain ==
  ASSUME Trees, NEW k \in DOMAIN Flows, NEW frame,
         frame = Frame(Chain[Flows[k]], NoStep, FALSE, <<>>)
  PROVE  /\ frame \in Frames /\ Plain(frame) /\ frame.steps = Chain[Flows[k]]
         /\ Members(frame.steps) \subseteq Spine
         /\ \A s \in Members(frame.steps) : FlowOf[s] = Flows[k]
         /\ Lasts(frame, Members(frame.steps))
<1>1. PICK f : f = Flows[k]
  OBVIOUS
<1>2. /\ f \in Members(Flows) /\ Chain[f] \in Seq(Steps) /\ Members(Chain[f]) \subseteq Spine
  BY <1>1, SpineTyped
<1>3. frame \in Frames
  <2>1. NoStep \in Wrappers \cup {NoStep} /\ FALSE \in BOOLEAN /\ <<>> \in Seq(Chains)
    OBVIOUS
  <2>2. PICK chain, nothing : chain = Chain[f] /\ nothing = <<>>
    OBVIOUS
  <2>3. chain \in Seq(Steps) /\ nothing \in Seq(Chains)
    BY <1>2, <2>1, <2>2
  <2>4. frame = Frame(chain, NoStep, FALSE, nothing)
    BY <1>1, <2>2
  <2>5. QED
    BY <2>1, <2>3, <2>4, FrameTyped
<1>4. frame.steps = Chain[f] /\ Plain(frame)
  BY <1>1 DEF Frame, Plain
<1>5. \A s \in Members(Chain[f]) : FlowOf[s] = f
  BY <1>2 DEF Trees, Nested
<1>6. 0 \in 0 .. Len(Chain[f]) /\ Chain[f] = SubSeq(Chain[f], 0 + 1, Len(Chain[f]))
  BY <1>2
<1>7. Lasts(frame, Members(frame.steps))
  BY <1>2, <1>4, <1>6 DEF Lasts
<1>8. QED
  BY <1>1, <1>2, <1>3, <1>4, <1>5, <1>7

LEMMA SweepCarries ==
  ASSUME Trees, WorkerInv, CarriedOn, NEW w \in Workers, Sweep(w)
  PROVE  CarriedOn'
<1>1. PICK i, delayed : i = inv[w] /\ delayed = Delayed
  OBVIOUS
<1>2. i.pc = "sweep" /\ UNCHANGED <<records, messages, environment>>
  BY <1>1 DEF Sweep
<1>3. /\ Shaped(i) /\ i.msg \in Envelopes /\ i \in Invocations /\ i.step = NoStep
      /\ i.sweep \subseteq DOMAIN Flows
  BY <1>1, <1>2, Holding
<1>4. /\ i.stack = <<>> /\ i.segments = <<>> /\ i.tail = <<>> /\ i.msg.kind = "event"
      /\ MessageShaped(i.msg) /\ \A park \in Members(i.parks) : ParkShaped(park)
  BY <1>2, <1>3 DEF Shaped, Starting, Sweeping
<1>5. \A s : s \in ByInvocation(delayed, i) <=> s \in BySweep(delayed, i)
  BY <1>2 DEF ByInvocation, Walking, Sweeping
<1>6. /\ status' = status /\ queue' = queue /\ dead' = dead /\ (dead => dead')
      /\ off' = off /\ off \subseteq off'
  BY <1>2 DEF records, messages, environment
<1>7. CASE i.sweep = {} /\ inv' = [inv EXCEPT ![w].pc = AfterSweep(w)]
  <2>1. PICK pc : pc = AfterSweep(w)
    OBVIOUS
  <2>2. PICK next : next = [i EXCEPT !.pc = pc]
    OBVIOUS
  <2>3. inv' = [inv EXCEPT ![w] = next]
    BY <1>1, <1>7, <2>1, <2>2
  <2>4. /\ next.pc = pc /\ next.msg = i.msg /\ next.sweep = i.sweep /\ next.flow = i.flow
        /\ next.parks = i.parks
    BY <1>3, <2>2 DEF Invocations
  <2>5. CASE i.parks = <<>>
    <3>1. next.pc = "matched"
      BY <1>1, <2>1, <2>4, <2>5 DEF AfterSweep
    <3>2. Shaped(next)
      BY <1>2, <1>3, <2>4, <3>1, Leaving
    <3>3. \A s \in Spine : s \in ByInvocation(delayed, i) =>
            s \in ByInvocation(delayed, next) \/ Accounted(s)'
      BY <1>5, <1>7, <2>5, NothingSwept
    <3>4. QED
      BY <1>1, <1>6, <2>3, <3>2, <3>3, QuietMove
  <2>6. CASE i.parks # <<>>
    <3>1. next.pc = "park"
      BY <1>1, <2>1, <2>4, <2>6 DEF AfterSweep
    <3>2. Shaped(next)
      BY <1>4, <1>7, <2>4, <3>1 DEF Shaped, Walking, Starting
    <3>3. BySweep(delayed, i) \subseteq ByInvocation(delayed, next)
      BY <2>4, <3>1 DEF ByInvocation, Sweeping, BySweep
    <3>4. \A s \in Spine : s \in ByInvocation(delayed, i) =>
            s \in ByInvocation(delayed, next) \/ Accounted(s)'
      BY <1>5, <3>3
    <3>5. QED
      BY <1>1, <1>6, <2>3, <3>2, <3>4, QuietMove
  <2>7. QED
    BY <2>5, <2>6
<1>8. ASSUME NEW k \in DOMAIN Flows, SweepOn(w, k) PROVE CarriedOn'
  <2>1. PICK flow, sweep, frame :
          /\ flow = Flows[k] /\ sweep = i.sweep \ {k}
          /\ frame = Frame(Chain[Flows[k]], NoStep, FALSE, <<>>)
    OBVIOUS
  <2>2. PICK left, stack : left = Members(frame.steps) /\ stack = <<frame>>
    OBVIOUS
  <2>3. PICK next : next = [i EXCEPT !.pc = "walk", !.sweep = sweep, !.flow = flow, !.stack = stack]
    OBVIOUS
  <2>4. inv' = [inv EXCEPT ![w] = next]
    BY <1>1, <1>8, <2>1, <2>2, <2>3 DEF SweepOn
  <2>5. /\ next.pc = "walk" /\ next.msg = i.msg /\ next.sweep = sweep /\ next.flow = flow
        /\ next.parks = i.parks /\ next.stack = stack /\ next.segments = <<>> /\ next.tail = <<>>
        /\ next.step = NoStep
    BY <1>3, <1>4, <2>3 DEF Invocations
  <2>6. /\ frame \in Frames /\ Plain(frame) /\ frame.steps = Chain[flow]
        /\ left \subseteq Spine /\ (\A s \in left : FlowOf[s] = flow) /\ Lasts(frame, left)
    BY <2>1, <2>2, WholeChain
  <2>7. stack \in Seq(Frames) /\ LineOf(next) = stack
    <3>1. stack \in Seq(Frames)
      BY <2>2, <2>6
    <3>2. stack \o <<>> = stack /\ <<>> \o stack = stack
      BY <3>1, Unpadded
    <3>3. QED
      BY <2>5, <3>1, <3>2 DEF LineOf
  <2>8. StepsOf(stack) = left /\ AllPlain(stack)
    BY <2>2, <2>6, FramesOf
  <2>9. Line(stack, left)
    <3>1. Len(stack) = 1 /\ stack[1] = frame /\ stack # <<>>
      BY <2>2
    <3>2. \A j \in DOMAIN stack : ~(j < Len(stack))
      BY <2>2
    <3>3. QED
      BY <2>6, <3>1, <3>2 DEF Line
  <2>10. WalkShaped(next, left)
    <3>1. Nests(stack, <<>>)
      BY <2>7, <2>8, PlainFrames
    <3>2. QED
      BY <2>5, <2>6, <2>7, <2>9, <3>1, FramesOf, SpineTyped DEF WalkShaped
  <2>11. next.pc \in Walking /\ next.pc \in Sweeping /\ next.pc \notin Starting \cup {"idle", "stop", "park"}
    BY <2>5 DEF Walking, Sweeping, Starting
  <2>12. Shaped(next)
    BY <1>4, <2>5, <2>6, <2>10, <2>11 DEF Shaped, Starting
  <2>13. ASSUME NEW s \in Spine, s \in ByInvocation(delayed, i) PROVE s \in ByInvocation(delayed, next)
    <3>1. \/ \E j \in i.sweep : s \in Members(Chain[Flows[j]])
          \/ \E park \in Members(i.parks) : s \in Pause(delayed, park.paused, park.segments)
      BY <1>5, <2>13, SweepMembers
    <3>2. CASE \E park \in Members(i.parks) : s \in Pause(delayed, park.paused, park.segments)
      <4>1. s \in BySweep(delayed, next)
        BY <2>5, <3>2, SweepMembers
      <4>2. QED
        BY <2>11, <4>1 DEF ByInvocation
    <3>3. CASE \E j \in i.sweep : s \in Members(Chain[Flows[j]])
      <4>1. PICK j \in i.sweep : s \in Members(Chain[Flows[j]])
        BY <3>3
      <4>2. CASE j = k
        <5>1. s \in StepsOf(LineOf(next))
          BY <2>1, <2>2, <2>6, <2>7, <2>8, <4>1, <4>2
        <5>2. QED
          BY <2>11, <5>1 DEF ByInvocation, InHand
      <4>3. CASE j # k
        <5>1. j \in next.sweep
          BY <2>1, <2>5, <4>1, <4>3
        <5>2. s \in BySweep(delayed, next)
          BY <4>1, <5>1, SweepMembers
        <5>3. QED
          BY <2>11, <5>2 DEF ByInvocation
      <4>4. QED
        BY <4>2, <4>3
    <3>4. QED
      BY <3>1, <3>2, <3>3
  <2>14. \A s \in Spine : s \in ByInvocation(delayed, i) =>
           s \in ByInvocation(delayed, next) \/ Accounted(s)'
    BY <2>13
  <2>15. QED
    BY <1>1, <1>6, <2>4, <2>12, <2>14, QuietMove
<1>9. QED
  BY <1>1, <1>7, <1>8 DEF Sweep

(* The lease, the producer, and the operator.                              *)
LEMMA AroundCarries ==
  ASSUME Trees, WorkerInv, CarriedOn,
         \/ \E s \in Steps : Expire(s) \/ Cancel(s)
         \/ Resend
         \/ \E f \in DOMAIN Chain : TurnOff(f) \/ ReadCancel(f)
         \/ UNCHANGED vars
  PROVE  CarriedOn'
<1>1. ASSUME NEW mail, mail = BagToSet(queue)', inv' = inv, dead' = dead, off \subseteq off',
             NEW u, \A s \in Steps : s # u => status'[s] = status[s],
             BagToSet(queue) \subseteq mail, \A m \in mail : m \in BagToSet(queue) \/ MessageShaped(m),
             u \in Steps => status'[u] # "filtered" /\ u \in Halted'
      PROVE  CarriedOn'
  <2>1. Shapes'
    <3>1. \A m \in BagToSet(queue)' : MessageShaped(m)
      BY <1>1 DEF CarriedOn, Shapes
    <3>2. \A v \in Workers : Shaped(inv'[v])
      BY <1>1 DEF CarriedOn, Shapes
    <3>3. \A s \in Steps : status'[s] = "filtered" => s \in Spine
      BY <1>1 DEF CarriedOn, Shapes
    <3>4. QED
      BY <3>1, <3>2, <3>3 DEF Shapes
  <2>2. \A m \in BagToSet(queue) :
          \/ m \in BagToSet(queue)'
          \/ \A s \in Spine \ {u} : s \in ByMessage(Delayed, m) => Accounted(s)'
    BY <1>1
  <2>3. \A v \in Workers :
          \/ inv'[v] = inv[v]
          \/ \A s \in Spine \ {u} : s \in ByInvocation(Delayed, inv[v]) => Accounted(s)'
    BY <1>1
  <2>4. u \in Spine => Accounted(u)'
    BY <1>1, SpineTyped DEF Accounted, Blocked
  <2>5. u \in Halted /\ u \notin Halted' => \A s \in Spine \cap Beyond(u) : Accounted(s)'
    BY <1>1 DEF Halted
  <2>6. (dead => dead') /\ off \subseteq off'
    BY <1>1
  <2>7. QED
    BY <1>1, <2>1, <2>2, <2>3, <2>4, <2>5, <2>6, AccountStep
<1>2. PICK mail : mail = BagToSet(queue)'
  OBVIOUS
<1>3. NoStep \notin Steps
  BY ChainsAssumption
<1>4. ASSUME NEW s \in Steps, Expire(s) PROVE CarriedOn'
  BY <1>1, <1>2, <1>3, <1>4 DEF Expire, messages, environment
<1>5. ASSUME NEW s \in Steps, Cancel(s) PROVE CarriedOn'
  <2>1. inv' = inv /\ dead' = dead /\ off \subseteq off' /\ queue' = queue
    BY <1>5 DEF Cancel, messages
  <2>2. CASE status[s] = "delayed"
    <3>1. status'[s] = "cancelled" /\ \A t \in Steps : t # s => status'[t] = status[t]
      BY <1>5, <2>2 DEF Cancel, Mark, WorkerInv, TypeOK
    <3>2. s \in Halted'
      BY <3>1 DEF Halted
    <3>3. QED
      BY <1>1, <1>2, <2>1, <3>1, <3>2
  <2>3. CASE status[s] # "delayed"
    <3>1. status' = status
      BY <1>5, <2>3 DEF Cancel, records
    <3>2. QED
      BY <1>1, <1>2, <1>3, <2>1, <3>1
  <2>4. QED
    BY <2>2, <2>3
<1>6. ASSUME Resend PROVE CarriedOn'
  <2>1. PICK m : m = EventMessage(0)
    OBVIOUS
  <2>2. inv' = inv /\ dead' = dead /\ off \subseteq off' /\ status' = status /\ Send(m)
    BY <1>6, <2>1 DEF Resend, records
  <2>3. mail = BagToSet(queue) \cup {m}
    <3>1. IsABag(queue)
      BY DEF WorkerInv, TypeOK
    <3>2. BagToSet(queue (+) SetToBag({m})) = BagToSet(queue) \cup {m}
      BY <3>1, BagMore
    <3>3. BagToSet(queue)' = BagToSet(queue (+) SetToBag({m}))
      BY <2>2 DEF Send
    <3>4. QED
      BY <1>2, <3>2, <3>3
  <2>4. MessageShaped(m)
    BY <2>1 DEF MessageShaped, EventMessage
  <2>5. QED
    BY <1>1, <1>2, <1>3, <2>2, <2>3, <2>4
<1>7. ASSUME NEW f, TurnOff(f) PROVE CarriedOn'
  BY <1>1, <1>2, <1>3, <1>7 DEF TurnOff, messages, records
<1>8. ASSUME NEW f, ReadCancel(f) PROVE CarriedOn'
  BY <1>1, <1>2, <1>3, <1>8 DEF ReadCancel, messages, records
<1>9. ASSUME UNCHANGED vars PROVE CarriedOn'
  BY <1>1, <1>2, <1>3, <1>9 DEF vars
<1>10. QED
  BY <1>4, <1>5, <1>6, <1>7, <1>8, <1>9

LEMMA InitCarries ==
  ASSUME Trees, Init
  PROVE  CarriedOn
<1>1. PICK m : m = EventMessage(0)
  OBVIOUS
<1>2. BagToSet(queue) = {m}
  BY <1>1, BagOfOne DEF Init
<1>3. m.kind = "event"
  BY <1>1 DEF EventMessage
<1>4. MessageShaped(m) /\ ByMessage(Delayed, m) = Spine
  BY <1>3 DEF MessageShaped, ByMessage
<1>5. \A w \in Workers : Shaped(inv[w])
  BY IdleShaped DEF Init
<1>6. \A s \in Steps : status[s] # "filtered"
  BY DEF Init
<1>7. Shapes
  BY <1>2, <1>4, <1>5, <1>6 DEF Shapes
<1>8. \A s \in Spine : Accounted(s)
  BY <1>2, <1>4 DEF Accounted, Carried
<1>9. QED
  BY <1>7, <1>8 DEF CarriedOn

-----------------------------------------------------------------------------
(* Every step of the specification.                                        *)

LEMMA NextCarries ==
  ASSUME Trees, WorkerInv, CarriedOn, [Next]_vars
  PROVE  CarriedOn'
<1>1. ASSUME NEW w \in Workers, Deliver(w) PROVE CarriedOn'
  <2>1. PICK m \in BagToSet(queue) : Receive(w, m)
    BY <1>1 DEF Deliver
  <2>2. QED
    BY <2>1, ReceiveCarries
<1>2. ASSUME NEW w \in Workers, Handle(w) PROVE CarriedOn'
  <2>1. CASE Sweep(w) \/ ResumeEarly(w) \/ ResumeWorkflow(w) \/ ReadPauses(w) \/ Drop(w) \/ ClosePaused(w)
    BY <2>1, SweepCarries, ResumeEarlyCarries, ResumeWorkflowCarries, ReadPausesCarries,
       DropCarries, ClosePausedCarries
  <2>2. CASE \E s \in Steps : Take(w, s) \/ PassBy(w, s) \/ Busy(w, s)
    <3>1. PICK s \in Steps : Take(w, s) \/ PassBy(w, s) \/ Busy(w, s)
      BY <2>2
    <3>2. CASE Take(w, s)
      <4>1. CASE Kind[s] \in {"branch", "loop"}
        BY <3>2, <4>1, TakeWrapper
      <4>2. CASE Kind[s] \notin {"branch", "loop"}
        BY <3>2, <4>2, TakeStep
      <4>3. QED
        BY <4>1, <4>2
    <3>3. QED
      BY <3>1, <3>2, PassByCarries, BusyCarries
  <2>3. CASE RunStep(w) \/ FailStep(w) \/ Handled(w) \/ Propagate(w)
    BY <2>3, RunStepCarries, FailStepCarries, HandledCarries, PropagateCarries
  <2>4. CASE EndChain(w) \/ NextSegment(w) \/ EndRun(w) \/ Unwind(w) \/ Suspend(w)
    BY <2>4, EndChainCarries, NextSegmentCarries, EndRunCarries, UnwindCarries, SuspendCarries
  <2>5. CASE Park(w) \/ ParkFails(w) \/ Raised(w) \/ Acknowledge(w) \/ Reject(w)
    BY <2>5, ParkCarries, ParkFailsCarries, RaisedCarries, AcknowledgeCarries, RejectCarries
  <2>6. QED
    BY <1>2, <2>1, <2>2, <2>3, <2>4, <2>5 DEF Handle
<1>3. ASSUME NEW w \in Workers, Crash(w) PROVE CarriedOn'
  BY <1>3, RejectCarries
<1>4. CASE \/ \E s \in Steps : Expire(s) \/ Cancel(s)
           \/ Resend
           \/ \E f \in DOMAIN Chain : TurnOff(f) \/ ReadCancel(f)
           \/ UNCHANGED vars
  BY <1>4, AroundCarries
<1>5. QED
  BY <1>1, <1>2, <1>3, <1>4 DEF Next

-----------------------------------------------------------------------------
(* What is left when nothing is on its way.                                *)

LEMMA LeastOf ==
  ASSUME NEW S \in SUBSET Nat, S # {}
  PROVE  \E m \in S : \A k \in S : m <= k
<1> DEFINE Below == OpToRel(<, Nat)
<1>1. PICK m \in S : \A k \in S : ~(<<k, m>> \in Below)
  <2>1. IsWellFoundedOn(Below, Nat)
    BY NatLessThanWellFounded
  <2> HIDE DEF Below
  <2>2. QED
    BY <2>1, WFMin, Zenon
<1>2. ASSUME NEW k \in S, ~(m <= k) PROVE FALSE
  <2>1. k \in Nat /\ m \in Nat
    OBVIOUS
  <2>2. <<k, m>> \in Below
    BY <1>2, <2>1 DEF OpToRel
  <2>3. QED
    BY <1>1, <2>2
<1>3. QED
  BY <1>2

(* A workflow that nobody turned off or cancelled is stopped by a filter   *)
(* of its own chain alone.                                                 *)
LEMMA StoppedByFilter ==
  ASSUME Trees, CarriedOn, NEW f \in Members(Flows), ~Stopped(f),
         NEW k \in DOMAIN Chain[f], Blocked(Chain[f][k])
  PROVE  \E j \in DOMAIN Chain[f] : j <= k /\ status[Chain[f][j]] = "filtered"
<1>1. PICK s : s = Chain[f][k]
  OBVIOUS
<1>2. /\ Chain[f] \in Chains /\ Chain[f] \in Seq(Steps) /\ s \in Members(Chain[f])
      /\ \A t \in Members(Chain[f]) : FlowOf[t] = f /\ t \in Spine
  BY <1>1, SpineTyped DEF Trees, Nested, Members
<1>3. DOMAIN Chain[f] \subseteq Nat
  BY <1>2
<1>4. PICK u \in Halted : s = u \/ s \in Beyond(u)
  BY <1>1 DEF Blocked
<1>5. \E j \in DOMAIN Chain[f] : j <= k /\ Root[u] = Chain[f][j]
  <2>1. CASE s = u
    <3>1. Root[u] = s /\ k <= k
      BY <1>2, <1>3, <2>1 DEF Trees, Nested
    <3>2. QED
      BY <1>1, <3>1
  <2>2. CASE s \in Beyond(u)
    <3>1. PICK t : t = Root[u]
      OBVIOUS
    <3>2. t \in Ahead(s)
      BY <2>2, <3>1 DEF Beyond, Behind
    <3>3. PICK chain \in Chains :
            t \in {chain[i] : i \in {j \in DOMAIN chain : \E n \in DOMAIN chain : j < n /\ chain[n] = s}}
      BY <3>2 DEF Ahead
    <3>4. PICK j \in DOMAIN chain, n \in DOMAIN chain : j < n /\ chain[n] = s /\ t = chain[j]
      BY <3>3
    <3>5. chain = Chain[f] /\ n = k
      BY <1>1, <1>2, <3>4 DEF Trees, DistinctIds
    <3>6. j <= k
      BY <1>3, <3>4, <3>5
    <3>7. QED
      BY <3>1, <3>4, <3>5, <3>6
  <2>3. QED
    BY <1>4, <2>1, <2>2
<1>6. PICK j \in DOMAIN Chain[f] : j <= k /\ Root[u] = Chain[f][j]
  BY <1>5
<1>7. FlowOf[u] = f
  BY <1>2, <1>4, <1>6 DEF Halted, Trees, Nested, Members
<1>8. status[u] = "filtered" /\ u \in Steps
  BY <1>4, <1>7 DEF Halted, Stopped
<1>9. u \in Spine /\ Root[u] = u
  BY <1>8 DEF CarriedOn, Shapes, Trees, Nested
<1>10. QED
  BY <1>6, <1>8, <1>9

LEMMA NobodyCarries ==
  ASSUME Quiet
  PROVE  \A s : ~Carried(s)
<1>1. BagToSet(queue) = {}
  BY DEF Quiet, EmptyBag, SetToBag, BagToSet
<1>2. ASSUME NEW w \in Workers, NEW delayed PROVE ByInvocation(delayed, inv[w]) = {}
  BY DEF Quiet, ByInvocation, Walking, Sweeping
<1>3. QED
  BY <1>1, <1>2 DEF Carried

LEMMA CarriedWalks ==
  ASSUME Trees, CarriedOn
  PROVE  NothingLost
<1> SUFFICES ASSUME Quiet, ~dead, NEW k \in DOMAIN Flows, ~Stopped(Flows[k])
             PROVE  Walked(Chain[Flows[k]])
  BY DEF NothingLost
<1>1. PICK f, chain : f = Flows[k] /\ chain = Chain[f]
  OBVIOUS
<1>2. /\ f \in Members(Flows) /\ chain \in Seq(Steps) /\ ~Stopped(f)
      /\ \A t \in Members(chain) : FlowOf[t] = f /\ t \in Spine
  BY <1>1, SpineTyped DEF Trees, Nested
<1>3. DOMAIN chain = 1 .. Len(chain) /\ Len(chain) \in Nat
  BY <1>2
<1>4. \A i \in DOMAIN chain : chain[i] \in Members(chain)
  BY DEF Members
<1>5. PICK filters : filters = {j \in DOMAIN chain : status[chain[j]] = "filtered"}
  OBVIOUS
<1>6. \A i \in DOMAIN chain : Settled(chain[i]) \/ \E j \in filters : j <= i
  <2>1. SUFFICES ASSUME NEW i \in DOMAIN chain, ~Settled(chain[i])
                 PROVE  \E j \in filters : j <= i
    OBVIOUS
  <2>2. Accounted(chain[i]) /\ FlowOf[chain[i]] \notin off
    BY <1>2, <1>4 DEF CarriedOn, Stopped
  <2>3. Blocked(chain[i])
    BY <2>1, <2>2, NobodyCarries DEF Accounted
  <2>4. QED
    BY <1>1, <1>2, <1>5, <2>3, StoppedByFilter
<1>7. CASE filters = {}
  <2>1. \A i \in 1 .. Len(chain) : Settled(chain[i])
    BY <1>3, <1>6, <1>7
  <2>2. Len(chain) \in 0 .. Len(chain) /\ ~(Len(chain) < Len(chain))
    BY <1>3
  <2>3. QED
    BY <1>1, <2>1, <2>2 DEF Walked
<1>8. CASE filters # {}
  <2>1. filters \in SUBSET Nat
    BY <1>3, <1>5
  <2>2. PICK m \in filters : \A j \in filters : m <= j
    BY <1>8, <2>1, LeastOf
  <2>3. m \in 1 .. Len(chain) /\ status[chain[m]] = "filtered"
    BY <1>3, <1>5
  <2>4. PICK n : n = m - 1
    OBVIOUS
  <2>5. n \in 0 .. Len(chain) /\ n + 1 = m
    BY <1>3, <2>3, <2>4
  <2>6. \A i \in 1 .. n : Settled(chain[i])
    <3>1. SUFFICES ASSUME NEW i \in 1 .. n PROVE Settled(chain[i])
      OBVIOUS
    <3>2. i \in DOMAIN chain /\ ~(m <= i)
      BY <1>3, <2>3, <2>5
    <3>3. ASSUME NEW j \in filters PROVE ~(j <= i)
      <4>1. m <= j /\ j \in Nat
        BY <2>1, <2>2
      <4>2. QED
        BY <1>3, <2>3, <3>2, <4>1
    <3>4. QED
      BY <1>6, <3>2, <3>3
  <2>7. QED
    BY <1>1, <2>3, <2>5, <2>6 DEF Walked
<1>9. QED
  BY <1>7, <1>8

(* In every reachable state somebody carries each step of a workflow's own *)
(* chain until it is settled, or the run is stopped ahead of it: a message *)
(* on the queue, a delivery that has still to reach it, or one whose       *)
(* exception gives its message back (handler, execute, run_chain,          *)
(* _enqueue_resume, _resume_run).                                          *)
THEOREM CarriersStand ==
  ASSUME Trees
  PROVE  Spec => []CarriedOn
<1>1. Init => CarriedOn
  BY InitCarries
<1>2. CarriedOn /\ WorkerInv /\ [Next]_vars => CarriedOn'
  BY NextCarries
<1>3. QED
  BY <1>1, <1>2, WorkerInvariant, PTL DEF Spec

(* A run is never lost.  However deliveries, duplicates, retries, crashes, *)
(* failed parks, pauses and operator calls interleave, a workflow that is  *)
(* neither turned off nor cancelled has walked its whole chain, or up to   *)
(* the filter that stopped it, once the queue is drained and nothing was   *)
(* dead-lettered (handler, execute, run_chain, resume_chain).              *)
THEOREM NothingIsLost ==
  ASSUME Trees
  PROVE  Spec => []NothingLost
<1>1. CarriedOn => NothingLost
  BY CarriedWalks
<1>2. QED
  BY <1>1, CarriersStand, PTL

-----------------------------------------------------------------------------
(* How an event ends.                                                      *)

Reopening == {"resume", "pauses", "close", "drop"}

\* One invocation goes on with its message and its workflow.
Onward(w) ==
    /\ \A v \in Workers : v # w => inv'[v] = inv[v]
    /\ inv[w].pc \notin {"idle", "sweep"}
    /\ inv'[w].pc # "idle" /\ inv'[w].msg = inv[w].msg /\ inv'[w].flow = inv[w].flow
    /\ inv'[w].pc \in Reopening => inv[w].pc \in Reopening
    /\ inv'[w].pc = "retried" => Retries(w)
    /\ \A s \in Steps : lease'[s] \in {lease[s], w, "over"}
    /\ BagToSet(queue) \subseteq BagToSet(queue')
    /\ UNCHANGED <<dead, inbox, off>>

LEMMA SentMore ==
  ASSUME WorkerInv, NEW m, Send(m)
  PROVE  BagToSet(queue) \subseteq BagToSet(queue')
BY BagMore DEF WorkerInv, TypeOK, Send

LEMMA ReopensOnward ==
  ASSUME WorkerInv, NEW w \in Workers,
         ResumeEarly(w) \/ ResumeWorkflow(w) \/ ReadPauses(w) \/ Drop(w) \/ ClosePaused(w)
  PROVE  Onward(w)
<1> inv[w] \in Invocations /\ inv \in [Workers -> Invocations]
  BY Shape DEF WorkerInv, TypeOK
<1> USE DEF Onward, records, messages, environment, Reopening, Invocations
<1>1. CASE ResumeEarly(w)
  BY <1>1, SentMore DEF ResumeEarly
<1>2. CASE ResumeWorkflow(w)
  BY <1>2 DEF ResumeWorkflow
<1>3. CASE ReadPauses(w)
  BY <1>3 DEF ReadPauses
<1>4. CASE Drop(w)
  <2>1. PICK i : i = inv'[w] /\ inv' = [inv EXCEPT ![w] = i]
                 /\ i.pc \in {"drop", "matched"} /\ i.msg = inv[w].msg /\ i.flow = inv[w].flow
    BY <1>4 DEF Drop
  <2>2. lease' = lease /\ inv[w].pc = "drop" /\ UNCHANGED <<queue, dead, inbox, off>>
    BY <1>4 DEF Drop, Mark
  <2>3. QED
    BY <2>1, <2>2
<1>5. CASE ClosePaused(w)
  <2>1. PICK i : i = inv'[w] /\ inv' = [inv EXCEPT ![w] = i]
                 /\ i.pc \in {"walk", "close"} /\ i.msg = inv[w].msg /\ i.flow = inv[w].flow
    BY <1>5 DEF ClosePaused
  <2>2. lease' = lease /\ inv[w].pc = "close" /\ UNCHANGED <<queue, dead, inbox, off>>
    BY <1>5 DEF ClosePaused, Mark
  <2>3. QED
    BY <2>1, <2>2
<1>6. QED
  BY <1>1, <1>2, <1>3, <1>4, <1>5

LEMMA WalksOnward ==
  ASSUME WorkerInv, NEW w \in Workers,
         \/ RunStep(w) \/ FailStep(w) \/ Handled(w) \/ Propagate(w) \/ EndChain(w)
         \/ NextSegment(w) \/ EndRun(w)
         \/ \E s \in Steps : Take(w, s) \/ PassBy(w, s) \/ Busy(w, s)
  PROVE  Onward(w)
<1> inv[w] \in Invocations /\ inv \in [Workers -> Invocations]
    /\ lease \in [Steps -> Workers \cup {"orphan", "over"}]
  BY Shape DEF WorkerInv, TypeOK
<1> USE DEF Onward, records, messages, environment, Reopening, Invocations
<1>1. CASE RunStep(w)
  BY <1>1 DEF RunStep, Mark
<1>2. CASE FailStep(w)
  BY <1>2 DEF FailStep, Fail, Release
<1>3. CASE Handled(w)
  BY <1>3 DEF Handled, Mark
<1>4. CASE Propagate(w)
  <2>1. PICK i : i = inv'[w] /\ inv' = [inv EXCEPT ![w] = i]
                 /\ i.pc \in {"raise", "mark"} /\ i.msg = inv[w].msg /\ i.flow = inv[w].flow
    BY <1>4 DEF Propagate, Fail
  <2>2. PICK s : lease' \in {lease, [lease EXCEPT ![s] = "over"]}
    BY <1>4 DEF Propagate, Fail, Release
  <2>3. inv[w].pc = "raise" /\ UNCHANGED <<queue, dead, inbox, off>>
    BY <1>4 DEF Propagate
  <2>4. QED
    BY <2>1, <2>2, <2>3
<1>5. CASE EndChain(w)
  BY <1>5 DEF EndChain, Mark
<1>6. CASE NextSegment(w)
  BY <1>6 DEF NextSegment
<1>7. CASE EndRun(w)
  BY <1>7 DEF EndRun
<1>8. ASSUME NEW s \in Steps, Take(w, s) PROVE Onward(w)
  <2>1. /\ inv[w].pc = "walk" /\ UNCHANGED <<messages, environment>>
        /\ \A t \in Steps : lease'[t] \in {lease[t], w}
    BY <1>8 DEF Take, AtStep
  <2>2. PICK advance, body : advance = Advance(w)
             /\ body = <<Frame(Head(Bodies[s]), s, Kind[s] = "loop", Tail(Bodies[s]))>> \o Advance(w)
    OBVIOUS
  <2>3. \/ inv' = [inv EXCEPT ![w].stack = body]
        \/ inv' = [inv EXCEPT ![w].pc = "run", ![w].step = s, ![w].stack = advance]
    BY <1>8, <2>2 DEF Take
  <2>4. CASE inv' = [inv EXCEPT ![w].stack = body]
    BY <2>1, <2>4
  <2>5. CASE inv' = [inv EXCEPT ![w].pc = "run", ![w].step = s, ![w].stack = advance]
    BY <2>1, <2>5
  <2>6. QED
    BY <2>3, <2>4, <2>5
<1>9. ASSUME NEW s \in Steps, PassBy(w, s) PROVE Onward(w)
  <2>1. PICK stack, pc : stack = Advance(w) /\ pc = WalkOrStop(s)
    OBVIOUS
  <2>2. /\ inv' = [inv EXCEPT ![w].stack = stack, ![w].pc = pc]
        /\ inv[w].pc = "walk" /\ UNCHANGED <<records, messages, environment>>
    BY <1>9, <2>1 DEF PassBy, AtStep
  <2>3. pc \in {"walk", "stop"}
    BY <2>1 DEF WalkOrStop
  <2>4. QED
    BY <2>2, <2>3
<1>10. ASSUME NEW s \in Steps, Busy(w, s) PROVE Onward(w)
  <2>1. /\ inv' = [inv EXCEPT ![w].pc = "raise", ![w].error = "busy"]
        /\ inv[w].pc = "walk" /\ UNCHANGED <<records, messages, environment>>
    BY <1>10 DEF Busy, AtStep
  <2>2. QED
    BY <2>1
<1>11. QED
  BY <1>1, <1>2, <1>3, <1>4, <1>5, <1>6, <1>7, <1>8, <1>9, <1>10

LEMMA ParksOnward ==
  ASSUME WorkerInv, NEW w \in Workers,
         Unwind(w) \/ Suspend(w) \/ Park(w) \/ ParkFails(w) \/ Raised(w)
  PROVE  Onward(w)
<1> inv[w] \in Invocations /\ inv \in [Workers -> Invocations]
  BY Shape DEF WorkerInv, TypeOK
<1> USE DEF Onward, records, messages, environment, Reopening, Invocations
<1>1. CASE Unwind(w)
  BY <1>1 DEF Unwind, Mark
<1>2. CASE Suspend(w)
  BY <1>2 DEF Suspend
<1>3. CASE Park(w)
  <2>1. BagToSet(queue) \subseteq BagToSet(queue')
    BY <1>3, SentMore DEF Park
  <2>2. QED
    BY <1>3, <2>1 DEF Park
<1>4. CASE ParkFails(w)
  BY <1>4 DEF ParkFails
<1>5. CASE Raised(w)
  <2>1. BagToSet(queue) \subseteq BagToSet(queue')
    BY <1>5, SentMore DEF Raised
  <2>2. QED
    BY <1>5, <2>1 DEF Raised, Verdict
<1>6. QED
  BY <1>1, <1>2, <1>3, <1>4, <1>5

(* Every step of the system: one invocation goes on, one begins or sweeps, *)
(* one leaves, or none moves.                                              *)
LEMMA Moves ==
  ASSUME WorkerInv, [Next]_vars
  PROVE  \/ \E w \in Workers : \/ Onward(w) \/ Sweep(w) \/ Acknowledge(w) \/ Reject(w) \/ Crash(w)
                               \/ \E m \in BagToSet(queue) : Receive(w, m)
         \/ \E s \in Steps : Expire(s) \/ Cancel(s)
         \/ Resend
         \/ \E f \in DOMAIN Chain : TurnOff(f) \/ ReadCancel(f)
         \/ UNCHANGED vars
<1>1. ASSUME NEW w \in Workers, Handle(w)
      PROVE  Onward(w) \/ Sweep(w) \/ Acknowledge(w) \/ Reject(w)
  BY <1>1, ReopensOnward, WalksOnward, ParksOnward DEF Handle
<1>2. QED
  BY <1>1 DEF Next, Deliver

(* Nobody who is gone holds a lease.                                       *)
LeasesRun == \A w \in Workers : \A s \in Steps : lease[s] = w => inv[w].pc # "idle"

(* An invocation that is over leaves no lease of its own behind, and the   *)
(* others stand.                                                           *)
LEMMA Left ==
  ASSUME WorkerInv, NEW w \in Workers, Acknowledge(w) \/ Reject(w) \/ Crash(w)
  PROVE  /\ inv[w].pc # "idle" /\ inv'[w] = Idle /\ \A v \in Workers : v # w => inv'[v] = inv[v]
         /\ \A s \in Steps : lease'[s] \in {lease[s], "orphan"} /\ lease'[s] # w
<1>1. Leave(w) /\ inv[w].pc # "idle"
  BY DEF Acknowledge, Reject, Crash
<1>2. QED
  BY <1>1, BoundsAssumption DEF Leave, WorkerInv, TypeOK

LEMMA Received ==
  ASSUME WorkerInv, NEW w \in Workers, NEW m \in BagToSet(queue), Receive(w, m)
  PROVE  /\ inv[w].pc = "idle" /\ \A v \in Workers : v # w => inv'[v] = inv[v]
         /\ inv'[w].pc = IF m.kind = "event" THEN "sweep" ELSE "resume"
         /\ inv'[w].msg.kind = m.kind
         /\ inv'[w].sweep = {k \in DOMAIN Flows : m.kind = "event" /\ Flows[k] \notin off}
         /\ UNCHANGED <<records, dead, off, cancelling>>
         /\ BagToSet(queue) \ {m} \subseteq BagToSet(queue')
<1>1. inv[w] \in Invocations /\ inv \in [Workers -> Invocations] /\ m \in Envelopes /\ IsABag(queue)
  BY Shape DEF WorkerInv, TypeOK
<1>2. PICK pc, msg, sweep :
        /\ pc = IF m.kind = "event" THEN "sweep" ELSE "resume"
        /\ msg = [m EXCEPT !.receives = @ + 1]
        /\ sweep = {k \in DOMAIN Flows : m.kind = "event" /\ Flows[k] \notin off}
  OBVIOUS
<1>3. /\ inv[w].pc = "idle" /\ queue' = queue (-) SetToBag({m})
      /\ inv' = [inv EXCEPT ![w].pc = pc, ![w].msg = msg, ![w].flow = m.flow, ![w].sweep = sweep]
      /\ UNCHANGED <<records, dead, off, cancelling>>
  BY <1>2 DEF Receive
<1>4. msg.kind = m.kind
  BY <1>1, <1>2 DEF Envelopes
<1>5. BagToSet(queue) \ {m} \subseteq BagToSet(queue')
  BY <1>1, <1>3, BagRest
<1>6. inv'[w].pc = pc /\ inv'[w].msg = msg /\ inv'[w].sweep = sweep
      /\ \A v \in Workers : v # w => inv'[v] = inv[v]
  BY <1>1, <1>3 DEF Invocations
<1>7. QED
  BY <1>2, <1>3, <1>4, <1>5, <1>6

LEMMA Swept ==
  ASSUME WorkerInv, NEW w \in Workers, Sweep(w)
  PROVE  /\ inv[w].pc = "sweep" /\ \A v \in Workers : v # w => inv'[v] = inv[v]
         /\ inv'[w].msg = inv[w].msg
         /\ \/ inv[w].sweep = {} /\ inv'[w].flow = inv[w].flow /\ inv'[w].pc \in {"matched", "park"}
            \/ inv'[w].flow \in DOMAIN Chain /\ inv'[w].pc = "walk"
         /\ UNCHANGED <<records, messages, environment>>
<1>1. inv[w] \in Invocations /\ inv \in [Workers -> Invocations]
  BY Shape DEF WorkerInv, TypeOK
<1>2. inv[w].pc = "sweep" /\ UNCHANGED <<records, messages, environment>>
  BY DEF Sweep
<1>3. CASE inv[w].sweep = {} /\ inv' = [inv EXCEPT ![w].pc = AfterSweep(w)]
  <2>1. PICK pc \in {"matched", "park"} : inv' = [inv EXCEPT ![w].pc = pc]
    BY <1>3 DEF AfterSweep
  <2>2. QED
    BY <1>1, <1>2, <1>3, <2>1 DEF Invocations
<1>4. ASSUME NEW k \in DOMAIN Flows, SweepOn(w, k)
      PROVE  /\ inv'[w].flow \in DOMAIN Chain /\ inv'[w].pc = "walk" /\ inv'[w].msg = inv[w].msg
             /\ \A v \in Workers : v # w => inv'[v] = inv[v]
  <2>1. PICK left, f, stack :
          /\ f = Flows[k]
          /\ inv' = [inv EXCEPT ![w].pc = "walk", ![w].sweep = left, ![w].flow = f, ![w].stack = stack]
    BY <1>4 DEF SweepOn
  <2>2. f \in DOMAIN Chain
    BY <2>1, ChainsAssumption
  <2>3. QED
    BY <1>1, <2>1, <2>2 DEF Invocations
<1>5. QED
  BY <1>2, <1>3, <1>4 DEF Sweep

LEMMA LeasesStep ==
  ASSUME WorkerInv, LeasesRun, [Next]_vars
  PROVE  LeasesRun'
<1> lease \in [Steps -> Workers \cup {"orphan", "over"}]
  BY DEF WorkerInv, TypeOK
<1>1. ASSUME NEW w \in Workers, Onward(w) PROVE LeasesRun'
  BY <1>1, BoundsAssumption DEF LeasesRun, Onward
<1>2. ASSUME NEW w \in Workers, Acknowledge(w) \/ Reject(w) \/ Crash(w) PROVE LeasesRun'
  BY <1>2, Left, BoundsAssumption DEF LeasesRun
<1>3. ASSUME NEW w \in Workers, Sweep(w) PROVE LeasesRun'
  BY <1>3, Swept DEF LeasesRun, records
<1>4. ASSUME NEW w \in Workers, NEW m \in BagToSet(queue), Receive(w, m) PROVE LeasesRun'
  BY <1>4, Received DEF LeasesRun, records
<1>5. ASSUME NEW s \in Steps, Expire(s) PROVE LeasesRun'
  BY <1>5, BoundsAssumption DEF LeasesRun, Expire
<1>6. CASE (\E s \in Steps : Cancel(s)) \/ Resend \/ UNCHANGED vars
           \/ \E f \in DOMAIN Chain : TurnOff(f) \/ ReadCancel(f)
  <2>1. lease' = lease /\ inv' = inv
    BY <1>6 DEF Cancel, Mark, Resend, TurnOff, ReadCancel, records, vars
  <2>2. QED
    BY <2>1 DEF LeasesRun
<1>7. QED
  BY <1>1, <1>2, <1>3, <1>4, <1>5, <1>6, Moves

(* Whatever happened to the deliveries, an open step is nobody's.          *)
LEMMA OpenStalls ==
  ASSUME WorkerInv, LeasesRun, Quiet, NEW f
  PROVE  OpenIsStalled(f)
<1> SUFFICES ASSUME RunStatus(f) = "processing", ~\E s \in Steps : FlowOf[s] = f /\ lease[s] = "orphan"
             PROVE  Stalled(f)
  BY DEF OpenIsStalled
<1>1. \A s \in Steps : lease[s] \in {"orphan", "over"}
  BY DEF LeasesRun, Quiet, WorkerInv, TypeOK
<1>2. QED
  BY <1>1 DEF Stalled

LEMMA DoneStatuses ==
  ASSUME NEW f, RunStatus(f) \in {"completed", "filtered"}
  PROVE  \A s \in Steps : FlowOf[s] = f => status[s] # "cancelled"
<1> SUFFICES ASSUME NEW s \in Steps, FlowOf[s] = f, status[s] = "cancelled" PROVE FALSE
  OBVIOUS
<1>1. "cancelled" \in StatusesOf(f)
  BY DEF StatusesOf
<1>2. PICK statuses : statuses = StatusesOf(f)
  OBVIOUS
<1>3. PICK found : found = {k \in DOMAIN Ranks : Ranks[k] \in statuses}
  OBVIOUS
<1>4. DOMAIN Ranks = 1 .. 5 /\ Ranks[1] = "failed" /\ Ranks[2] = "processing"
      /\ Ranks[3] = "delayed" /\ Ranks[4] = "cancelled" /\ Ranks[5] = "filtered"
  BY DEF Ranks
<1>5. 4 \in found /\ found \subseteq 1 .. 5
  BY <1>1, <1>2, <1>3, <1>4
<1>6. PICK k : k = CHOOSE n \in found : \A j \in found : n <= j
  OBVIOUS
<1>7. RunStatus(f) = Ranks[k]
  BY <1>1, <1>2, <1>3, <1>5, <1>6 DEF RunStatus
<1>8. \E n \in found : \A j \in found : n <= j
  BY <1>5, LeastOf
<1>9. k \in found /\ k <= 4
  BY <1>5, <1>6, <1>8
<1>10. QED
  BY <1>4, <1>5, <1>7, <1>9

LEMMA DoneWalked ==
  ASSUME NothingLost, Quiet, ~dead, NEW n \in DOMAIN Flows
  PROVE  DoneIsWalked(Flows[n])
BY DoneStatuses DEF DoneIsWalked, NothingLost, Stopped

(* What the run history says is so.  Once nothing is on its way, a run     *)
(* that reads processing is stalled or will be when its lease runs out,    *)
(* also behind a dead letter; and one that reads completed or filtered was *)
(* walked to its end or to its filter, unless the event went to the        *)
(* dead-letter queue or the workflow was turned off (run_summary).         *)
THEOREM HistoryIsTrue ==
  ASSUME Trees
  PROVE  Spec => [](/\ ~dead => HistoryTells
                    /\ Quiet => \A n \in DOMAIN Flows : OpenIsStalled(Flows[n]))
<1> DEFINE Tells == /\ ~dead => HistoryTells
                    /\ Quiet => \A n \in DOMAIN Flows : OpenIsStalled(Flows[n])
<1>1. Init => LeasesRun
  BY BoundsAssumption DEF Init, LeasesRun
<1>2. WorkerInv /\ LeasesRun /\ [Next]_vars => LeasesRun'
  BY LeasesStep
<1>3. WorkerInv /\ LeasesRun /\ NothingLost => Tells
  BY OpenStalls, DoneWalked DEF HistoryTells
<1>4. QED
  BY <1>1, <1>2, <1>3, WorkerInvariant, NothingIsLost, PTL DEF Spec

-----------------------------------------------------------------------------
(* The inbox row.                                                          *)

\* An event's invocation has found a workflow, or will, and closes the row with it.
Finds(i) ==
    i.pc # "idle" /\ i.msg.kind = "event" =>
        /\ i.pc \notin Reopening
        /\ i.flow = NoFlow => i.pc = "sweep" /\ i.sweep # {}
Finders == off = {} => \A w \in Workers : Finds(inv[w])

LEMMA RowBegins == ASSUME Init PROVE Finders /\ RowTold
<1>1. BagToSet(queue) = {EventMessage(0)} /\ EventMessage(0).kind = "event"
  BY BagOfOne DEF Init, EventMessage
<1>2. \A w \in Workers : inv[w].pc = "idle"
  BY DEF Init, Idle
<1>3. QED
  BY <1>1, <1>2 DEF Finders, RowTold, Finds, EventOnItsWay

LEMMA OnwardFinds ==
  ASSUME NEW w \in Workers, Onward(w), Finds(inv[w])
  PROVE  Finds(inv'[w])
<1> SUFFICES ASSUME inv'[w].msg.kind = "event"
             PROVE  /\ inv'[w].pc \notin Reopening
                    /\ inv'[w].flow # NoFlow
  BY DEF Finds
<1>1. /\ inv[w].pc \notin Reopening
      /\ inv[w].flow # NoFlow /\ inv'[w].flow = inv[w].flow
  BY DEF Onward, Finds
<1>2. QED
  BY <1>1 DEF Onward

(* The message of an event goes back on the queue, or is dead-lettered.    *)
LEMMA EventReturns ==
  ASSUME WorkerInv, NEW w \in Workers, Reject(w) \/ Crash(w)
  PROVE  /\ BagToSet(queue) \subseteq BagToSet(queue')
         /\ dead' \/ inv[w].msg \in BagToSet(queue')
<1>1. Return(w)
  BY DEF Reject, Crash
<1>2. CASE Message(w).receives >= MaxReceive
  BY <1>1, <1>2 DEF Return
<1>3. CASE ~(Message(w).receives >= MaxReceive)
  <2>1. PICK m : m = inv[w].msg
    OBVIOUS
  <2>2. queue' = queue (+) SetToBag({m}) /\ IsABag(queue)
    BY <1>1, <1>3, <2>1 DEF Return, Send, Message, WorkerInv, TypeOK
  <2>3. BagToSet(queue') = BagToSet(queue) \cup {m}
    BY <2>2, BagMore
  <2>4. QED
    BY <2>1, <2>3
<1>4. QED
  BY <1>2, <1>3

LEMMA FindersStep ==
  ASSUME WorkerInv, Flows # <<>>, Finders, [Next]_vars
  PROVE  Finders'
<1> SUFFICES ASSUME off' = {} PROVE \A v \in Workers : Finds(inv'[v])
  BY DEF Finders
<1> DEFINE Goal == \A v \in Workers : Finds(inv'[v])
<1>1. ASSUME NEW w \in Workers, Onward(w) PROVE Goal
  <2>1. off = {} /\ \A v \in Workers : Finds(inv[v])
    BY <1>1 DEF Onward, Finders
  <2>2. QED
    BY <1>1, <2>1, OnwardFinds DEF Onward
<1>2. ASSUME NEW w \in Workers, Sweep(w) PROVE Goal
  <2>1. off = {} /\ \A v \in Workers : Finds(inv[v])
    BY <1>2, Swept DEF Finders, environment
  <2>2. Finds(inv'[w])
    <3>1. inv[w].msg.kind = "event" => Finds(inv[w]) /\ inv[w].pc = "sweep"
      BY <1>2, <2>1, Swept
    <3>2. QED
      BY <1>2, <3>1, Swept, ChainsAssumption DEF Finds, Reopening
  <2>3. QED
    BY <1>2, <2>1, <2>2, Swept
<1>3. ASSUME NEW w \in Workers, NEW m \in BagToSet(queue), Receive(w, m) PROVE Goal
  <2>1. off = {} /\ \A v \in Workers : Finds(inv[v])
    BY <1>3, Received DEF Finders
  <2>2. Finds(inv'[w])
    <3>1. m.kind = "event" => inv'[w].sweep = DOMAIN Flows
      BY <1>3, <2>1, Received
    <3>2. 1 \in DOMAIN Flows
      <4>1. Flows \in Seq(DOMAIN Chain)
        BY ChainsAssumption
      <4>2. QED
        BY <4>1
    <3>3. QED
      BY <1>3, <3>1, <3>2, Received DEF Finds, Reopening
  <2>3. QED
    BY <1>3, <2>1, <2>2, Received
<1>4. ASSUME NEW w \in Workers, Acknowledge(w) \/ Reject(w) \/ Crash(w) PROVE Goal
  <2>1. off = {}
    BY <1>4 DEF Acknowledge, Reject, Crash
  <2>2. QED
    BY <1>4, <2>1, Left DEF Finders, Finds, Idle
<1>5. CASE (\E s \in Steps : Expire(s) \/ Cancel(s)) \/ Resend \/ UNCHANGED vars
           \/ \E f \in DOMAIN Chain : TurnOff(f) \/ ReadCancel(f)
  <2>1. inv' = inv /\ off = {}
    BY <1>5 DEF Expire, Cancel, Resend, TurnOff, ReadCancel, messages, environment, vars
  <2>2. QED
    BY <2>1 DEF Finders
<1>6. QED
  BY <1>1, <1>2, <1>3, <1>4, <1>5, Moves

LEMMA RowStep ==
  ASSUME WorkerInv, Finders, RowTold, [Next]_vars, \A w \in Workers : ~LateNote(w)
  PROVE  RowTold'
<1> SUFFICES ASSUME off' = {}
             PROVE  dead' \/ inbox' = "matched" \/ EventOnItsWay'
  BY DEF RowTold
<1> DEFINE Goal == dead' \/ inbox' = "matched" \/ EventOnItsWay'
<1>1. ASSUME NEW w \in Workers, Onward(w) PROVE Goal
  BY <1>1 DEF Onward, RowTold, EventOnItsWay, Message
<1>2. ASSUME NEW w \in Workers, Sweep(w) PROVE Goal
  BY <1>2, Swept DEF RowTold, EventOnItsWay, Message, messages, environment
<1>3. ASSUME NEW w \in Workers, NEW m \in BagToSet(queue), Receive(w, m) PROVE Goal
  <2>1. off = {}
    BY <1>3, Received
  <2>2. ASSUME ~dead, ~EventOnItsWay' PROVE inbox' = "matched"
    <3>1. m.kind # "event"
      BY <1>3, <2>2, Received DEF EventOnItsWay, Message
    <3>2. ~EventOnItsWay
      <4>1. ASSUME NEW n \in BagToSet(queue), n.kind = "event" PROVE FALSE
        BY <1>3, <2>2, <3>1, <4>1, Received DEF EventOnItsWay
      <4>2. ASSUME NEW v \in Workers, inv[v].pc # "idle", inv[v].msg.kind = "event" PROVE FALSE
        BY <1>3, <2>2, <4>2, Received DEF EventOnItsWay, Message
      <4>3. QED
        BY <4>1, <4>2 DEF EventOnItsWay, Message
    <3>3. inbox = "matched"
      BY <2>1, <2>2, <3>2 DEF RowTold
    <3>4. QED
      BY <1>3, <3>1, <3>3 DEF Receive
  <2>3. QED
    BY <1>3, <2>2, Received
<1>4. ASSUME NEW w \in Workers, Acknowledge(w) PROVE Goal
  <2>1. off = {} /\ dead' = dead /\ queue' = queue
    BY <1>4 DEF Acknowledge, messages
  <2>2. Finds(inv[w])
    BY <2>1 DEF Finders
  <2>3. CASE inv[w].msg.kind = "event" /\ inv[w].pc = "retried"
    BY <1>4, <2>3 DEF LateNote
  <2>4. CASE inv[w].msg.kind = "event" /\ inv[w].pc # "retried"
    <3>1. inv[w].pc = "matched" /\ inv[w].flow # NoFlow
      BY <1>4, <2>2, <2>4 DEF Finds, Acknowledge
    <3>2. QED
      BY <1>4, <2>4, <3>1 DEF Acknowledge, Note, Message
  <2>5. CASE inv[w].msg.kind # "event"
    <3>1. inbox' = inbox
      BY <1>4, <2>5 DEF Acknowledge, Note, Message
    <3>2. EventOnItsWay => EventOnItsWay'
      BY <1>4, <2>1, <2>5, Left DEF EventOnItsWay, Message
    <3>3. QED
      BY <2>1, <3>1, <3>2 DEF RowTold
  <2>6. QED
    BY <2>3, <2>4, <2>5
<1>5. ASSUME NEW w \in Workers, Reject(w) \/ Crash(w) PROVE Goal
  <2>1. off = {} /\ (dead => dead')
    BY <1>5 DEF Reject, Crash, Return
  <2>2. CASE inv[w].msg.kind = "event"
    BY <1>5, <2>2, EventReturns DEF EventOnItsWay
  <2>3. CASE inv[w].msg.kind # "event"
    <3>1. inbox' = inbox
      BY <1>5, <2>3 DEF Reject, Crash, Note, Message
    <3>2. EventOnItsWay => EventOnItsWay'
      BY <1>5, <2>3, Left, EventReturns DEF EventOnItsWay, Message
    <3>3. QED
      BY <2>1, <3>1, <3>2 DEF RowTold
  <2>4. QED
    BY <2>2, <2>3
<1>6. CASE Resend
  <2>1. BagToSet(queue) \subseteq BagToSet(queue') /\ UNCHANGED <<inv, dead, inbox, off>>
    BY <1>6, SentMore DEF Resend
  <2>2. QED
    BY <2>1 DEF RowTold, EventOnItsWay, Message
<1>7. CASE (\E s \in Steps : Expire(s) \/ Cancel(s)) \/ UNCHANGED vars
           \/ \E f \in DOMAIN Chain : TurnOff(f) \/ ReadCancel(f)
  <2>1. UNCHANGED <<inv, queue, dead, inbox>> /\ off = {}
    BY <1>7 DEF Expire, Cancel, TurnOff, ReadCancel, messages, environment, vars
  <2>2. QED
    BY <2>1 DEF RowTold, EventOnItsWay, Message
<1>8. QED
  BY <1>1, <1>2, <1>3, <1>4, <1>5, <1>6, <1>7, Moves

LEMMA FindersAlways ==
  ASSUME Flows # <<>>
  PROVE  Spec => []Finders
<1>1. Init => Finders
  BY RowBegins
<1>2. WorkerInv /\ Finders /\ [Next]_vars => Finders'
  BY FindersStep
<1>3. QED
  BY <1>1, <1>2, WorkerInvariant, PTL DEF Spec

(* The inbox row of an event that matches some workflow keeps up with it.  *)
(* Crashes, duplicates, redeliveries, retries and pauses may close the row *)
(* in any order: whoever writes a note other than matched has put an event *)
(* message on the queue, and the one step that leaves the row behind is    *)
(* the note of an attempt that its own retry has overtaken (inbox.complete *)
(* behind _schedule_retry in handler).                                     *)
THEOREM RowIsKeptUp ==
  ASSUME Flows # <<>>
  PROVE  Spec => RowKeepsUp
<1>1. WorkerInv /\ Finders /\ [Next]_vars => RowKeeps
  BY RowStep DEF RowKeeps
<1>2. Spec => [][RowKeeps]_vars
  BY <1>1, WorkerInvariant, FindersAlways, PTL DEF Spec
<1>3. QED
  BY <1>2, PTL DEF RowKeepsUp

(* So the row tells the outcome of every event, retry policy or not, of    *)
(* which no attempt came late with the note that its retry is pending.     *)
THEOREM InboxIsTrue ==
  ASSUME Flows # <<>>
  PROVE  Spec /\ [][\A w \in Workers : ~LateNote(w)]_vars => []InboxTells
<1>1. Init => RowTold
  BY RowBegins
<1>2. WorkerInv /\ Finders /\ RowTold /\ [Next]_vars /\ [\A w \in Workers : ~LateNote(w)]_vars
      => RowTold'
  <2>1. CASE UNCHANGED vars
    <3>1. UNCHANGED <<inv, queue, dead, inbox, off>>
      BY <2>1 DEF vars
    <3>2. QED
      BY <3>1 DEF RowTold, EventOnItsWay, Message
  <2>2. CASE \A w \in Workers : ~LateNote(w)
    BY <2>2, RowStep
  <2>3. QED
    BY <2>1, <2>2
<1>3. RowTold => InboxTells
  <2>1. Quiet => BagToSet(queue) = {}
    BY DEF Quiet, EmptyBag, SetToBag, BagToSet
  <2>2. QED
    BY <2>1 DEF RowTold, InboxTells, EventOnItsWay, Quiet
<1>4. QED
  BY <1>1, <1>2, <1>3, WorkerInvariant, FindersAlways, PTL DEF Spec

-----------------------------------------------------------------------------
(* What still reads delayed when nothing is on its way.                    *)

\* A pause of the workflow's own chain that nobody came back to: the run was
\* stopped, by the operator or by a filter ahead of it.
PausesAwaited ==
    Quiet /\ ~dead => \A s \in Spine : status[s] = "delayed" =>
        Stopped(FlowOf[s]) \/ \E u \in Spine : status[u] = "filtered" /\ u \in Ahead(s)

LEMMA AwaitedPauses ==
  ASSUME Trees, CarriedOn
  PROVE  PausesAwaited
<1> SUFFICES ASSUME Quiet, ~dead, NEW s \in Spine, status[s] = "delayed", ~Stopped(FlowOf[s])
             PROVE  \E u \in Spine : status[u] = "filtered" /\ u \in Ahead(s)
  BY DEF PausesAwaited
<1>1. ~Settled(s) /\ ~Carried(s) /\ FlowOf[s] \notin off /\ Accounted(s)
  BY NobodyCarries DEF Settled, Stopped, CarriedOn
<1>2. PICK u \in Halted : s = u \/ s \in Beyond(u)
  BY <1>1 DEF Accounted, Blocked
<1>3. s \in Beyond(u)
  BY <1>2 DEF Halted
<1>4. PICK r : r = Root[u] /\ r \in Ahead(s)
  BY <1>3 DEF Beyond, Behind
<1>5. FlowOf[u] = FlowOf[s]
  <2>1. PICK f \in Members(Flows) : s \in Members(Chain[f])
    BY DEF Spine
  <2>2. Chain[f] \in Chains
    BY <2>1, SpineTyped
  <2>3. PICK j \in DOMAIN Chain[f] : s = Chain[f][j]
    BY <2>1 DEF Members
  <2>4. r \in Members(Chain[f])
    BY <1>4, <2>2, <2>3 DEF Ahead, Members, Trees, DistinctIds
  <2>5. FlowOf[r] = f /\ FlowOf[s] = f
    BY <2>1, <2>4 DEF Trees, Nested
  <2>6. FlowOf[u] = FlowOf[r]
    BY <1>2, <1>4 DEF Halted, Trees, Nested
  <2>7. QED
    BY <2>5, <2>6
<1>6. status[u] = "filtered"
  BY <1>2, <1>5 DEF Halted, Stopped
<1>7. u \in Spine /\ r = u
  BY <1>2, <1>4, <1>6 DEF Halted, CarriedOn, Shapes, Trees, Nested
<1>8. QED
  BY <1>4, <1>6, <1>7

(* A pause in a workflow's own chain is not forgotten: once nothing is on  *)
(* its way it reads delayed only where the run was stopped, turned off or  *)
(* cancelled, or where a filter ahead of it has said no since              *)
(* (_enqueue_resume, _resume_run, _close_paused_step).                     *)
THEOREM PausesAreAwaited ==
  ASSUME Trees
  PROVE  Spec => []PausesAwaited
BY AwaitedPauses, CarriersStand, PTL

\* No operator cancels, no filter says no, and delays stand in the workflows'
\* own chains.
Uninterrupted ==
    /\ Stopping = {} /\ Cancellable = {}
    /\ \A s \in Steps : Kind[s] = "delay" => s \in Spine

\* Pauses are in the workflows' own chains, and nothing has stopped a run.
PausesOwn ==
    /\ \A s \in Steps : status[s] # "filtered" /\ (status[s] = "delayed" => s \in Spine)
    /\ \A w \in Workers : inv[w].pc = "suspend" => AllPlain(inv[w].stack)
    /\ cancelling = {}
    /\ off = {} => /\ \A s \in Steps : status[s] # "cancelled"
                   /\ \A w \in Workers : inv[w].pc # "drop"

\* A step that neither pauses nor stops anything.
Passing(w) ==
    /\ \A v \in Workers : v # w => inv'[v] = inv[v]
    /\ inv'[w].pc \notin {"suspend", "drop"}
    /\ \A s \in Steps : status'[s] \in {"delayed", "filtered", "cancelled"} => status'[s] = status[s]
    /\ cancelling' = cancelling /\ off \subseteq off'

LEMMA PassingKeeps ==
  ASSUME PausesOwn, NEW w \in Workers, Passing(w)
  PROVE  PausesOwn'
BY DEF PausesOwn, Passing

LEMMA ResumesPass ==
  ASSUME WorkerInv, NEW w \in Workers, ResumeEarly(w) \/ ClosePaused(w)
  PROVE  Passing(w)
<1> inv[w] \in Invocations /\ inv \in [Workers -> Invocations] /\ status \in [Steps -> Status]
  BY Shape DEF WorkerInv, TypeOK
<1> USE DEF Passing, records, messages, environment, Invocations
<1>1. CASE ResumeEarly(w)
  BY <1>1 DEF ResumeEarly
<1>2. CASE ClosePaused(w)
  <2>1. UNCHANGED environment /\ inv[w].pc = "close"
    BY <1>2 DEF ClosePaused
  <2>2. PICK paused, segments, s :
          paused = Tail(inv[w].paused) /\ segments = Message(w).segments /\ s = Head(inv[w].paused)
    OBVIOUS
  <2>3. CASE inv[w].paused = <<>>
    <3>1. status' = status /\ inv' = [inv EXCEPT ![w].pc = "walk", ![w].segments = segments]
      BY <1>2, <2>2, <2>3 DEF ClosePaused
    <3>2. QED
      BY <2>1, <3>1
  <2>4. CASE inv[w].paused # <<>>
    <3>1. /\ status' = [status EXCEPT ![s] = "completed"]
          /\ inv' = [inv EXCEPT ![w].paused = paused]
      BY <1>2, <2>2, <2>4 DEF ClosePaused, Mark
    <3>2. QED
      BY <2>1, <3>1
  <2>5. QED
    BY <2>3, <2>4
<1>3. QED
  BY <1>1, <1>2

LEMMA WalksPass ==
  ASSUME WorkerInv, NEW w \in Workers,
         \/ FailStep(w) \/ Handled(w) \/ Propagate(w) \/ EndChain(w) \/ NextSegment(w) \/ EndRun(w)
         \/ \E s \in Steps : Take(w, s) \/ PassBy(w, s) \/ Busy(w, s)
  PROVE  Passing(w)
<1> inv[w] \in Invocations /\ inv \in [Workers -> Invocations] /\ status \in [Steps -> Status]
  BY Shape DEF WorkerInv, TypeOK
<1> USE DEF Passing, records, messages, environment, Invocations
<1>2. CASE FailStep(w)
  BY <1>2 DEF FailStep, Fail, Release
<1>3. CASE Handled(w)
  BY <1>3 DEF Handled, Mark
<1>4. CASE Propagate(w)
  <2>1. UNCHANGED environment /\ inv[w].pc = "raise"
    BY <1>4 DEF Propagate
  <2>2. PICK stack, s, error : stack = Pop(w) /\ s = Top(w).owner /\ error = inv[w].error
    OBVIOUS
  <2>3. CASE s = NoStep
    <3>1. status' = status /\ inv' = [inv EXCEPT ![w].stack = stack]
      BY <1>4, <2>2, <2>3 DEF Propagate
    <3>2. QED
      BY <2>1, <3>1
  <2>4. CASE s # NoStep
    <3>1. Fail(w, s, stack, error)
      BY <1>4, <2>2, <2>4 DEF Propagate
    <3>2. QED
      BY <2>1, <3>1 DEF Fail, Release
  <2>5. QED
    BY <2>3, <2>4
<1>5. CASE EndChain(w)
  BY <1>5 DEF EndChain, Mark
<1>6. CASE NextSegment(w)
  BY <1>6 DEF NextSegment
<1>7. CASE EndRun(w)
  BY <1>7 DEF EndRun
<1>8. ASSUME NEW s \in Steps, Take(w, s) PROVE Passing(w)
  <2>1. /\ inv[w].pc = "walk" /\ UNCHANGED environment
        /\ status' = [status EXCEPT ![s] = "processing"]
    BY <1>8 DEF Take, AtStep
  <2>2. PICK advance, body : advance = Advance(w)
             /\ body = <<Frame(Head(Bodies[s]), s, Kind[s] = "loop", Tail(Bodies[s]))>> \o Advance(w)
    OBVIOUS
  <2>3. \/ inv' = [inv EXCEPT ![w].stack = body]
        \/ inv' = [inv EXCEPT ![w].pc = "run", ![w].step = s, ![w].stack = advance]
    BY <1>8, <2>2 DEF Take
  <2>4. CASE inv' = [inv EXCEPT ![w].stack = body]
    BY <2>1, <2>4
  <2>5. CASE inv' = [inv EXCEPT ![w].pc = "run", ![w].step = s, ![w].stack = advance]
    BY <2>1, <2>5
  <2>6. QED
    BY <2>3, <2>4, <2>5
<1>9. ASSUME NEW s \in Steps, PassBy(w, s) PROVE Passing(w)
  <2>1. PICK stack, pc : stack = Advance(w) /\ pc = WalkOrStop(s)
    OBVIOUS
  <2>2. /\ inv' = [inv EXCEPT ![w].stack = stack, ![w].pc = pc]
        /\ UNCHANGED <<records, messages, environment>>
    BY <1>9, <2>1 DEF PassBy
  <2>3. pc \in {"walk", "stop"}
    BY <2>1 DEF WalkOrStop
  <2>4. QED
    BY <2>2, <2>3
<1>10. ASSUME NEW s \in Steps, Busy(w, s) PROVE Passing(w)
  <2>1. /\ inv' = [inv EXCEPT ![w].pc = "raise", ![w].error = "busy"]
        /\ UNCHANGED <<records, messages, environment>>
    BY <1>10 DEF Busy
  <2>2. QED
    BY <2>1
<1>11. QED
  BY <1>2, <1>3, <1>4, <1>5, <1>6, <1>7, <1>8, <1>9, <1>10

LEMMA ParksPass ==
  ASSUME WorkerInv, NEW w \in Workers,
         \/ Suspend(w) \/ Park(w) \/ ParkFails(w) \/ Raised(w)
         \/ Sweep(w) \/ Acknowledge(w) \/ Reject(w) \/ Crash(w)
         \/ \E m \in BagToSet(queue) : Receive(w, m)
  PROVE  Passing(w)
<1> inv[w] \in Invocations /\ inv \in [Workers -> Invocations] /\ status \in [Steps -> Status]
  BY Shape DEF WorkerInv, TypeOK
<1> USE DEF Passing, records, messages, environment, Invocations
<1>2. CASE Suspend(w)
  BY <1>2 DEF Suspend
<1>3. CASE Park(w)
  BY <1>3 DEF Park
<1>4. CASE ParkFails(w)
  BY <1>4 DEF ParkFails
<1>5. CASE Raised(w)
  BY <1>5 DEF Raised, Verdict
<1>6. CASE Sweep(w)
  BY <1>6, Swept
<1>7. CASE Acknowledge(w) \/ Reject(w) \/ Crash(w)
  <2>1. status' = status /\ cancelling' = cancelling /\ off \subseteq off'
    BY <1>7 DEF Acknowledge, Reject, Crash
  <2>2. QED
    BY <1>7, <2>1, Left DEF Idle
<1>8. ASSUME NEW m \in BagToSet(queue), Receive(w, m) PROVE Passing(w)
  BY <1>8, Received
<1>9. QED
  BY <1>2, <1>3, <1>4, <1>5, <1>6, <1>7, <1>8

(* A pause begins in the workflow's own chain, with nothing but that chain *)
(* under it, and so no wrapper is paused with it.                          *)
LEMMA PausesKeep ==
  ASSUME WorkerInv, CarriedOn, Uninterrupted, PausesOwn, NEW w \in Workers,
         RunStep(w) \/ Unwind(w)
  PROVE  PausesOwn'
<1>1. /\ inv[w] \in Invocations /\ inv \in [Workers -> Invocations]
      /\ status \in [Steps -> Status] /\ Shaped(inv[w])
  BY Shape DEF WorkerInv, TypeOK, CarriedOn, Shapes
<1>2. CASE RunStep(w)
  <2>1. PICK s : s = inv[w].step
    OBVIOUS
  <2>2. s \in Steps /\ inv[w].pc = "run" /\ UNCHANGED environment
    BY <1>2, <2>1, Shape, Fields DEF RunStep, Consistent
  <2>3. CASE Kind[s] = "delay"
    <3>1. PICK paused :
            /\ inv' = [inv EXCEPT ![w].pc = "suspend", ![w].step = NoStep, ![w].paused = paused]
            /\ Mark(s, "delayed")
      BY <1>2, <2>1, <2>3 DEF RunStep
    <3>2. s \in Spine
      BY <2>2, <2>3 DEF Uninterrupted
    <3>3. AllPlain(inv[w].stack)
      BY <1>1, <2>1, <2>2, <3>2 DEF Shaped, WalkShaped, StopShaped, Walking
    <3>4. /\ inv'[w].pc = "suspend" /\ inv'[w].stack = inv[w].stack
          /\ \A v \in Workers : v # w => inv'[v] = inv[v]
      BY <1>1, <3>1 DEF Invocations
    <3>5. \A t \in Steps : status'[t] = IF t = s THEN "delayed" ELSE status[t]
      BY <1>1, <3>1 DEF Mark
    <3>6. QED
      BY <2>2, <3>2, <3>3, <3>4, <3>5 DEF PausesOwn, environment
  <2>4. CASE Kind[s] # "delay"
    <3>1. /\ inv' = [inv EXCEPT ![w].pc = "walk", ![w].step = NoStep]
          /\ Mark(s, "completed")
      BY <1>2, <2>1, <2>4 DEF RunStep, Uninterrupted
    <3>2. Passing(w)
      BY <1>1, <2>2, <3>1 DEF Passing, Mark, environment, Invocations
    <3>3. QED
      BY <3>2, PassingKeeps
  <2>5. QED
    BY <2>3, <2>4
<1>3. CASE Unwind(w)
  <2>1. inv[w].pc = "suspend" /\ inv[w].stack # <<>> /\ UNCHANGED <<messages, environment>>
    BY <1>3 DEF Unwind
  <2>2. AllPlain(inv[w].stack) /\ inv[w].stack \in Seq(Frames)
    BY <2>1, Fields DEF PausesOwn
  <2>3. Top(w).owner = NoStep /\ AllPlain(Pop(w))
    BY <2>1, <2>2 DEF AllPlain, Members, Plain, Top, Pop
  <2>4. PICK tail, paused, stack : /\ stack = Pop(w)
             /\ inv' = [inv EXCEPT ![w].stack = stack, ![w].tail = tail, ![w].paused = paused]
    BY <1>3 DEF Unwind
  <2>5. UNCHANGED records
    BY <1>3, <2>3 DEF Unwind
  <2>6. inv'[w].pc = "suspend" /\ inv'[w].stack = stack
        /\ \A v \in Workers : v # w => inv'[v] = inv[v]
    BY <1>1, <2>1, <2>4 DEF Invocations
  <2>7. QED
    BY <2>1, <2>3, <2>4, <2>5, <2>6 DEF PausesOwn, records, environment
<1>4. QED
  BY <1>2, <1>3

LEMMA PausesStep ==
  ASSUME WorkerInv, CarriedOn, Uninterrupted, PausesOwn, [Next]_vars
  PROVE  PausesOwn'
<1> status \in [Steps -> Status] /\ inv \in [Workers -> Invocations]
  BY DEF WorkerInv, TypeOK
<1>1. ASSUME NEW w \in Workers, ResumeWorkflow(w) \/ ReadPauses(w) \/ Drop(w)
      PROVE  PausesOwn'
  <2>1. inv[w] \in Invocations
    BY Shape
  <2>2. CASE ResumeWorkflow(w) \/ ReadPauses(w)
    <3>1. /\ UNCHANGED <<records, environment>>
          /\ \A v \in Workers : v # w => inv'[v] = inv[v]
          /\ inv'[w].pc \in {"pauses", "close", "drop"}
      BY <2>1, <2>2 DEF ResumeWorkflow, ReadPauses, Invocations
    <3>2. ASSUME off = {} PROVE inv'[w].pc # "drop"
      <4>1. \A s \in Steps : status[s] # "cancelled"
        BY <3>2 DEF PausesOwn
      <4>2. CASE ResumeWorkflow(w)
        BY <2>1, <3>2, <4>2 DEF ResumeWorkflow, Invocations
      <4>3. CASE ReadPauses(w)
        <5>1. \A i \in DOMAIN inv[w].paused : inv[w].paused[i] \in Steps
          <6>1. inv[w].paused \in Seq(Pausing) /\ Pausing \subseteq Steps
            BY Fields DEF Pausing, Wrappers
          <6>2. QED
            BY <6>1
        <5>2. ~\E i \in DOMAIN inv[w].paused : status[inv[w].paused[i]] = "cancelled"
          BY <4>1, <5>1
        <5>3. inv' = [inv EXCEPT ![w].pc = "close"]
          BY <4>3, <5>2 DEF ReadPauses
        <5>4. QED
          BY <2>1, <5>3 DEF Invocations
      <4>4. QED
        BY <2>2, <4>2, <4>3
    <3>3. QED
      BY <3>1, <3>2 DEF PausesOwn, records, environment
  <2>3. CASE Drop(w)
    <3>1. off # {} /\ UNCHANGED environment
      BY <2>3 DEF Drop, PausesOwn
    <3>2. \A s \in Steps : status'[s] \in {status[s], "cancelled"}
      BY <2>3 DEF Drop, Mark, records
    <3>3. inv'[w].pc # "suspend" /\ \A v \in Workers : v # w => inv'[v] = inv[v]
      <4>1. PICK i : i = inv'[w] /\ inv' = [inv EXCEPT ![w] = i] /\ i.pc \in {"drop", "matched"}
        BY <2>1, <2>3 DEF Drop, Invocations
      <4>2. QED
        BY <2>1, <4>1
    <3>4. QED
      BY <3>1, <3>2, <3>3 DEF PausesOwn, environment
  <2>4. QED
    BY <1>1, <2>2, <2>3
<1>2. ASSUME NEW w \in Workers, Handle(w) \/ Deliver(w) \/ Crash(w) PROVE PausesOwn'
  BY <1>1, <1>2, PassingKeeps, ResumesPass, WalksPass, ParksPass, PausesKeep DEF Handle, Deliver
<1>3. ASSUME NEW f \in DOMAIN Chain, ReadCancel(f) PROVE FALSE
  BY <1>3 DEF ReadCancel, Uninterrupted
<1>4. ASSUME NEW s \in Steps, Cancel(s) PROVE FALSE
  BY <1>4 DEF Cancel, PausesOwn
<1>5. CASE (\E s \in Steps : Expire(s)) \/ Resend \/ UNCHANGED vars
           \/ \E f \in DOMAIN Chain : TurnOff(f)
  <2>1. UNCHANGED <<status, inv, cancelling>> /\ off \subseteq off'
    BY <1>5 DEF Expire, Resend, TurnOff, vars, records, environment
  <2>2. QED
    BY <2>1 DEF PausesOwn
<1>6. QED
  BY <1>2, <1>3, <1>4, <1>5 DEF Next

(* Where nothing interrupts a run but failures, duplicates, retries and    *)
(* crashes, every pause is closed, however often its suspension was thrown *)
(* away or parked twice: as long as no workflow was turned off, nothing    *)
(* reads delayed once the queue is drained (execute, _enqueue_resume,      *)
(* _close_paused_step).                                                    *)
THEOREM NothingStaysParked ==
  ASSUME Trees, Uninterrupted
  PROVE  Spec => [](off = {} => NothingParked)
<1>1. Init => PausesOwn
  BY DEF Init, PausesOwn, Idle
<1>2. WorkerInv /\ CarriedOn /\ PausesOwn /\ [Next]_vars => PausesOwn'
  BY PausesStep
<1>3. CarriedOn /\ PausesOwn => (off = {} => NothingParked)
  <2> SUFFICES ASSUME CarriedOn, PausesOwn, off = {}, Quiet, ~dead,
                      NEW s \in Steps, status[s] = "delayed"
               PROVE  FALSE
    BY DEF NothingParked
  <2>1. s \in Spine
    BY DEF PausesOwn
  <2>2. PausesAwaited
    BY AwaitedPauses
  <2>3. Spine \subseteq Steps
    BY SpineTyped
  <2>4. Stopped(FlowOf[s])
    BY <2>1, <2>2, <2>3 DEF PausesAwaited, PausesOwn
  <2>5. QED
    BY <2>4 DEF Stopped, PausesOwn
<1>4. QED
  BY <1>1, <1>2, <1>3, WorkerInvariant, CarriersStand, PTL DEF Spec

=============================================================================
