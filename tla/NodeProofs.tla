----------------------------- MODULE NodeProofs -----------------------------
(***************************************************************************)
(* Theorems about the node process: however its tasks interleave, whatever *)
(* its bounded channels drop, and wherever a crash falls between two       *)
(* dispatched actions.                                                     *)
(***************************************************************************)
EXTENDS Node, FiniteSetTheorems, SequenceTheorems, WellFoundedInduction, TLAPS

-----------------------------------------------------------------------------
(***************************************************************************)
(* The types of what the host handles.                                     *)
(***************************************************************************)

OwnCerts == {OwnCert[r] : r \in 0 .. MaxRound}

AllCheckpoints == [height : Nat, root : Roots]
Hashes == {hash(c) : c \in AllCheckpoints}

Events == [kind : {"CertifiedVertexReceived"}, body : Certs \cup OwnCerts]
            \cup [kind : {"TimerFired"}, body : TimerId]
            \cup [kind : {"MacroProposalReceived"}, body : Checkpoints]
            \cup [kind : {"MacroQcReceived"}, body : Hashes]
            \cup [kind : {"VertexProposalReceived"}, body : Proposals]
            \cup [kind : {"VertexPartialReceived"}, body : {"vote"}]

\* What layers say, apart from their timers and from what is to be persisted.
Talk == [kind : {"BroadcastVertexProposal"}, body : {Own(r) : r \in Nat}]
          \cup [kind : {"BroadcastMicroQc"}, body : Nat]
          \cup [kind : {"BroadcastMacroProposal"}, body : AllCheckpoints]
          \cup [kind : {"BroadcastBlsPartial"}, body : {0, Subnet}]
          \cup [kind : {"BroadcastCertifiedVertex"}, body : OwnCerts]
          \cup [kind : {"BroadcastVertexPartial"}, body : Proposals]
          \cup [kind : {"EmitSlashEvidence"}, body : SUBSET Proposals]
          \cup [kind : {"UpdateBlobStatus"}, body : Hashes, tier : Accepted .. Finalized]
Timing == [kind : {"ScheduleTimer", "CancelTimer"}, body : TimerId, by : Layer]
Persisting == [kind : {"PersistMacroCheckpoint"}, body : AllCheckpoints]
                \cup [kind : {"PersistMacroQc"}, body : Hashes]
Actions == Talk \cup Timing \cup Persisting

TimerMap == UNION {[D -> TimerId] : D \in SUBSET Nat}

Books == [started : BOOLEAN, round : 0 .. MaxRound, certified : SUBSET Nat,
          seen : SUBSET Proposals, waves : Nat, height : Nat, cands : SUBSET AllCheckpoints,
          proposal_seen : SUBSET Nat, voted : SUBSET Nat, adopted : SUBSET AllCheckpoints,
          armed : [{"L1", "L2"} -> SUBSET TimerId], backup : TimerMap, mode_b : TimerMap,
          next : [Layer -> 0 .. MaxTimer]]

\* The ids that are awaited have been allocated, and L3 waits for each for one
\* height and one purpose only.
IdsBelow(s) == \A l \in Layer : Awaited(s, l) \subseteq 0 .. s.next[l] - 1
IdsOnce(s) ==
    /\ \A h, k \in DOMAIN s.backup : s.backup[h] = s.backup[k] => h = k
    /\ \A h, k \in DOMAIN s.mode_b : s.mode_b[h] = s.mode_b[k] => h = k
    /\ \A h \in DOMAIN s.backup, k \in DOMAIN s.mode_b : s.backup[h] # s.mode_b[k]
BooksOK(s) == s \in Books /\ IdsBelow(s) /\ IdsOnce(s)

\* An id that a layer waits for is in A, or has just been scheduled by it.
Covered(s, acts, A) ==
    \A l \in Layer : \A id \in Awaited(s, l) :
        id \in A[l] \/ \E i \in DOMAIN acts : acts[i] = Timed("ScheduleTimer", id, l)

\* A layer does not wait for what it cancels.
CancelsOwn(s, acts) ==
    \A i \in DOMAIN acts : acts[i].kind = "CancelTimer" =>
        /\ acts[i].body \notin Awaited(s, acts[i].by)
        /\ acts[i].body < s.next[acts[i].by]

\* What a layer may answer with: books, and actions that fit them.
OK(s, acts, A) == /\ BooksOK(s)
                  /\ acts \in Seq(Talk \cup Timing)
                  /\ Covered(s, acts, A)
                  /\ CancelsOwn(s, acts)
Good(o, A) == o = Out(o.sm, o.acts) /\ OK(o.sm, o.acts, A)

-----------------------------------------------------------------------------
(***************************************************************************)
(* Answers.                                                                *)
(***************************************************************************)

LEMMA AppendFacts ==
    ASSUME NEW S, NEW q \in Seq(S), NEW a \in S
    PROVE  /\ Append(q, a) \in Seq(S)
           /\ DOMAIN Append(q, a) = DOMAIN q \cup {Len(q) + 1}
           /\ \A i \in DOMAIN q : Append(q, a)[i] = q[i]
           /\ Append(q, a)[Len(q) + 1] = a
  OBVIOUS

LEMMA OutParts ==
    ASSUME NEW s, NEW q
    PROVE  Out(s, q).sm = s /\ Out(s, q).acts = q
  BY DEF Out

LEMMA OutGood ==
    ASSUME NEW s, NEW q, NEW A, OK(s, q, A)
    PROVE  Good(Out(s, q), A)
  BY OutParts DEF Good

SameTimers(s, t) == /\ t.armed = s.armed
                    /\ t.backup = s.backup
                    /\ t.mode_b = s.mode_b
                    /\ t.next = s.next

LEMMA SameAwaited ==
    ASSUME NEW s, NEW t, SameTimers(s, t), NEW l
    PROVE  Awaited(t, l) = Awaited(s, l)
  BY DEF SameTimers, Awaited

\* New books with the same timers.
LEMMA Keeps ==
    ASSUME NEW s, NEW q, NEW A, OK(s, q, A), NEW t \in Books, SameTimers(s, t)
    PROVE  OK(t, q, A)
  <1>2. \A l : Awaited(t, l) = Awaited(s, l)
    BY SameAwaited
  <1>3. BooksOK(t)
    BY <1>2 DEF OK, BooksOK, IdsBelow, IdsOnce, SameTimers
  <1>4. Covered(t, q, A)
    BY <1>2 DEF OK, Covered
  <1>5. CancelsOwn(t, q)
    BY <1>2 DEF OK, CancelsOwn, SameTimers
  <1> QED BY <1>3, <1>4, <1>5 DEF OK

LEMMA SayOut ==
    ASSUME NEW s, NEW q, NEW a
    PROVE  Say(Out(s, q), a) = Out(s, Append(q, a))
  BY DEF Say, Out

\* Something more to say.
LEMMA SaysOK ==
    ASSUME NEW s, NEW q, NEW A, OK(s, q, A), NEW a \in Talk
    PROVE  OK(s, Append(q, a), A)
  <1> DEFINE acts == Append(q, a)
  <1>3. /\ acts \in Seq(Talk \cup Timing)
        /\ DOMAIN acts = DOMAIN q \cup {Len(q) + 1}
        /\ \A i \in DOMAIN q : acts[i] = q[i]
        /\ acts[Len(q) + 1] = a
    BY AppendFacts DEF OK
  <1>4. a.kind # "CancelTimer"
    BY DEF Talk
  <1> HIDE DEF acts
  <1>5. Covered(s, acts, A)
    BY <1>3 DEF OK, Covered
  <1>6. CancelsOwn(s, acts)
    BY <1>3, <1>4 DEF OK, CancelsOwn
  <1>7. OK(s, acts, A)
    BY <1>3, <1>5, <1>6 DEF OK
  <1> QED BY <1>7 DEF acts

LEMMA Says ==
    ASSUME NEW o, NEW A, Good(o, A), NEW a \in Talk
    PROVE  Good(Say(o, a), A) /\ Say(o, a).sm = o.sm
  <1>1. Say(o, a) = Out(o.sm, Append(o.acts, a))
    BY SayOut DEF Good
  <1>2. OK(o.sm, Append(o.acts, a), A)
    BY SaysOK DEF Good
  <1> QED BY <1>1, <1>2, OutGood, OutParts

\* Fewer timers to wait for.
LEMMA FewerOK ==
    ASSUME NEW s, NEW q, NEW A, OK(s, q, A), NEW t \in Books, t.next = s.next,
           \A k \in Layer : Awaited(t, k) \subseteq Awaited(s, k), IdsOnce(t)
    PROVE  OK(t, q, A)
  <1>1. BooksOK(t)
    BY DEF OK, BooksOK, IdsBelow
  <1>2. Covered(t, q, A)
    BY DEF OK, Covered
  <1>3. ASSUME NEW i \in DOMAIN q, q[i].kind = "CancelTimer"
        PROVE  q[i].by \in Layer
    <2>1. q[i] \in Talk \cup Timing
      BY DEF OK
    <2>2. q[i] \notin Talk
      BY <1>3 DEF Talk
    <2> QED BY <2>1, <2>2 DEF Timing
  <1>4. CancelsOwn(t, q)
    BY <1>3 DEF OK, CancelsOwn
  <1> QED BY <1>1, <1>2, <1>4 DEF OK

\* One timer more, freshly allocated and scheduled.
LEMMA ScheduleOK ==
    ASSUME NEW s, NEW q, NEW A, OK(s, q, A), NEW t \in Books,
           NEW l \in Layer, s.next[l] < MaxTimer,
           t.next = [s.next EXCEPT ![l] = s.next[l] + 1],
           Awaited(t, l) \subseteq Awaited(s, l) \cup {s.next[l]},
           \A k \in Layer \ {l} : Awaited(t, k) \subseteq Awaited(s, k), IdsOnce(t)
    PROVE  OK(t, Append(q, Timed("ScheduleTimer", s.next[l], l)), A)
  <1> DEFINE id == s.next[l]
             a == Timed("ScheduleTimer", id, l)
             acts == Append(q, a)
  <1>1. /\ s.next \in [Layer -> 0 .. MaxTimer] /\ id \in Nat /\ id \in TimerId
        /\ t.next[l] = id + 1
        /\ \A k \in Layer : s.next[k] \in Nat /\ s.next[k] <= t.next[k]
        /\ \A k \in Layer \ {l} : t.next[k] = s.next[k]
    <2>1. s.next \in [Layer -> 0 .. MaxTimer]
      BY DEF OK, BooksOK, Books
    <2>2. MaxTimer \in Nat \ {0}
      BY NodeAssumption
    <2> QED BY <2>1, <2>2 DEF TimerId
  <1>2. a \in Timing /\ a.kind = "ScheduleTimer" /\ a.by = l /\ a.body = id
    BY <1>1 DEF Timing, Timed
  <1>3. /\ acts \in Seq(Talk \cup Timing)
        /\ DOMAIN acts = DOMAIN q \cup {Len(q) + 1}
        /\ \A i \in DOMAIN q : acts[i] = q[i]
        /\ acts[Len(q) + 1] = a
    <2>1. q \in Seq(Talk \cup Timing) /\ a \in Talk \cup Timing
      BY <1>2 DEF OK
    <2> HIDE DEF a
    <2> QED BY <2>1, AppendFacts
  <1>4. \A k \in Layer : Awaited(s, k) \subseteq 0 .. s.next[k] - 1
    BY DEF OK, BooksOK, IdsBelow
  <1>5. IdsBelow(t)
    BY <1>1, <1>4 DEF IdsBelow
  <1>6. Covered(t, acts, A)
    <2> SUFFICES ASSUME NEW k \in Layer, NEW x \in Awaited(t, k)
                 PROVE  x \in A[k] \/ \E i \in DOMAIN acts :
                            acts[i] = Timed("ScheduleTimer", x, k)
      BY DEF Covered
    <2>1. CASE x \in Awaited(s, k)
      <3>1. x \in A[k] \/ \E i \in DOMAIN q : q[i] = Timed("ScheduleTimer", x, k)
        BY <2>1 DEF OK, Covered
      <3> HIDE DEF acts
      <3> QED BY <3>1, <1>3
    <2>2. CASE k = l /\ x = id
      <3> HIDE DEF acts
      <3> QED BY <2>2, <1>3
    <2> QED BY <2>1, <2>2
  <1>7. CancelsOwn(t, acts)
    <2> SUFFICES ASSUME NEW i \in DOMAIN acts, acts[i].kind = "CancelTimer"
                 PROVE  /\ acts[i].body \notin Awaited(t, acts[i].by)
                        /\ acts[i].body < t.next[acts[i].by]
      BY DEF CancelsOwn
    <2> HIDE DEF acts
    <2>1. i \in DOMAIN q /\ acts[i] = q[i]
      BY <1>2, <1>3
    <2>2. q[i] \in Timing
      <3>1. q[i] \in Talk \cup Timing
        BY <2>1 DEF OK
      <3>2. q[i] \notin Talk
        BY <2>1 DEF Talk
      <3> QED BY <3>1, <3>2
    <2>3. q[i].by \in Layer /\ q[i].body \in Nat
      BY <2>2, NodeAssumption DEF Timing, TimerId
    <2>4. q[i].body \notin Awaited(s, q[i].by) /\ q[i].body < s.next[q[i].by]
      BY <2>1 DEF OK, CancelsOwn
    <2> HIDE DEF id
    <2>5. q[i].by = l => q[i].body # id
      BY <2>3, <2>4, <1>1 DEF id
    <2>6. Awaited(t, q[i].by) \subseteq Awaited(s, q[i].by) \cup IF q[i].by = l THEN {id} ELSE {}
      BY <2>3 DEF id
    <2>7. q[i].body \notin Awaited(t, q[i].by)
      BY <2>4, <2>5, <2>6
    <2>8. q[i].body < t.next[q[i].by]
      BY <2>3, <2>4, <1>1
    <2> QED BY <2>1, <2>7, <2>8
  <1> HIDE DEF acts
  <1>8. OK(t, acts, A)
    BY <1>3, <1>5, <1>6, <1>7 DEF OK, BooksOK
  <1> QED BY <1>8 DEF acts

-----------------------------------------------------------------------------
(***************************************************************************)
(* The helpers of the layers.                                              *)
(***************************************************************************)

\* What allocate adds to the books and to the actions.
NextId(s, l) == [s EXCEPT !.next = [s.next EXCEPT ![l] = s.next[l] + 1]]
Scheduled(s, q, l) == Append(q, Timed("ScheduleTimer", s.next[l], l))

LEMMA AllocateOut ==
    ASSUME NEW s, NEW q, NEW l
    PROVE  allocate(Out(s, q), l) = Out(NextId(s, l), Scheduled(s, q, l))
  BY DEF allocate, Out, NextId, Scheduled

LEMMA NextIdBook ==
    ASSUME NEW s \in Books, NEW l \in Layer, s.next[l] < MaxTimer
    PROVE  /\ NextId(s, l) \in Books
           /\ NextId(s, l).next = [s.next EXCEPT ![l] = s.next[l] + 1]
           /\ NextId(s, l).armed = s.armed
           /\ NextId(s, l).backup = s.backup
           /\ NextId(s, l).mode_b = s.mode_b
           /\ s.next[l] \in TimerId
  <1> DEFINE nx == [s.next EXCEPT ![l] = s.next[l] + 1]
  <1>1. nx \in [Layer -> 0 .. MaxTimer] /\ s.next[l] \in TimerId
    <2>1. s.next \in [Layer -> 0 .. MaxTimer] /\ MaxTimer \in Nat
      BY NodeAssumption DEF Books
    <2> QED BY <2>1 DEF TimerId
  <1> HIDE DEF nx
  <1>2. NextId(s, l) = [s EXCEPT !.next = nx]
    BY DEF NextId, nx
  <1>3. /\ [s EXCEPT !.next = nx] \in Books
        /\ [s EXCEPT !.next = nx].next = nx
        /\ [s EXCEPT !.next = nx].armed = s.armed
        /\ [s EXCEPT !.next = nx].backup = s.backup
        /\ [s EXCEPT !.next = nx].mode_b = s.mode_b
    BY <1>1 DEF Books
  <1> QED BY <1>1, <1>2, <1>3 DEF nx

LEMMA Arms ==
    ASSUME NEW o, NEW A, Good(o, A), NEW l \in {"L1", "L2"}, CanArm(o, l)
    PROVE  /\ Good(Arm(o, l), A)
           /\ \A k \in {"L1", "L2"} \ {l} : Arm(o, l).sm.armed[k] = o.sm.armed[k]
           /\ Arm(o, l).sm.armed[l] = o.sm.armed[l] \cup {o.sm.next[l]}
           /\ \A k \in Layer \ {l} : Awaited(Arm(o, l).sm, k) = Awaited(o.sm, k)
           /\ \A k \in Layer \ {l} : Arm(o, l).sm.next[k] = o.sm.next[k]
  <1> DEFINE s == o.sm
             u == NextId(s, l)
             ar == [s.armed EXCEPT ![l] = s.armed[l] \cup {s.next[l]}]
             t == [u EXCEPT !.armed = ar]
             q == Scheduled(s, o.acts, l)
  <1>1. /\ o = Out(s, o.acts) /\ OK(s, o.acts, A) /\ s \in Books /\ s.next[l] < MaxTimer
        /\ l \in Layer
    BY DEF Good, OK, BooksOK, CanArm, Layer
  <1>2. /\ u \in Books /\ u.next = [s.next EXCEPT ![l] = s.next[l] + 1]
        /\ u.armed = s.armed /\ u.backup = s.backup /\ u.mode_b = s.mode_b
        /\ s.next[l] \in TimerId
    BY <1>1, NextIdBook
  <1>3. Arm(o, l) = Out(t, q)
    <2>1. allocate(o, l) = Out(u, q)
      BY <1>1, AllocateOut
    <2>2. Arm(o, l) = [Out(u, q) EXCEPT !.sm.armed[l] = @ \cup {s.next[l]}]
      BY <2>1 DEF Arm
    <2> HIDE DEF u, q, s
    <2>3. [Out(u, q) EXCEPT !.sm.armed[l] = @ \cup {s.next[l]}]
             = Out([u EXCEPT !.armed = [u.armed EXCEPT ![l] = u.armed[l] \cup {s.next[l]}]], q)
      BY DEF Out
    <2> QED BY <2>2, <2>3, <1>2
  <1>4. ar \in [{"L1", "L2"} -> SUBSET TimerId]
    BY <1>1, <1>2 DEF Books
  <1>5. /\ ar[l] = s.armed[l] \cup {s.next[l]}
        /\ \A k \in {"L1", "L2"} \ {l} : ar[k] = s.armed[k]
    BY <1>1 DEF Books
  <1> HIDE DEF ar, u
  <1>6. /\ t \in Books /\ t.next = u.next /\ t.armed = ar /\ t.backup = u.backup
        /\ t.mode_b = u.mode_b
    BY <1>2, <1>4 DEF Books
  <1> HIDE DEF t
  <1>7. Awaited(t, l) = Awaited(s, l) \cup {s.next[l]}
    BY <1>5, <1>6 DEF Awaited
  <1>8. \A k \in Layer \ {l} : Awaited(t, k) = Awaited(s, k)
    BY <1>2, <1>5, <1>6 DEF Awaited, Layer
  <1>9. IdsOnce(t)
    BY <1>1, <1>2, <1>6 DEF OK, BooksOK, IdsOnce
  <1>10. OK(t, q, A)
    BY <1>1, <1>2, <1>6, <1>7, <1>8, <1>9, ScheduleOK DEF Scheduled
  <1>11. \A k \in Layer \ {l} : t.next[k] = s.next[k]
    BY <1>1, <1>2, <1>6 DEF Books
  <1>12. Good(Out(t, q), A) /\ Out(t, q).sm = t
    BY <1>10, OutGood, OutParts
  <1> HIDE DEF q
  <1> QED BY <1>3, <1>5, <1>6, <1>8, <1>11, <1>12

LEMMA Disarms ==
    ASSUME NEW o, NEW A, Good(o, A), NEW l \in {"L1", "L2"}, NEW ids
    PROVE  /\ Good(Disarm(o, l, ids), A)
           /\ Disarm(o, l, ids).sm.armed = [o.sm.armed EXCEPT ![l] = o.sm.armed[l] \ ids]
           /\ Disarm(o, l, ids).sm.next = o.sm.next
           /\ Disarm(o, l, ids).acts = o.acts
           /\ \A k \in Layer \ {l} : Awaited(Disarm(o, l, ids).sm, k) = Awaited(o.sm, k)
  <1> DEFINE s == o.sm
             ar == [s.armed EXCEPT ![l] = s.armed[l] \ ids]
             t == [s EXCEPT !.armed = ar]
  <1>1. o = Out(s, o.acts) /\ OK(s, o.acts, A) /\ s \in Books
    BY DEF Good, OK, BooksOK
  <1>2. Disarm(o, l, ids) = Out(t, o.acts)
    <2>1. Disarm(o, l, ids) = [Out(s, o.acts) EXCEPT !.sm.armed[l] = @ \ ids]
      BY <1>1 DEF Disarm
    <2> HIDE DEF s
    <2> QED BY <2>1 DEF Out
  <1>3. ar \in [{"L1", "L2"} -> SUBSET TimerId] /\ ar[l] \subseteq s.armed[l]
        /\ \A k \in {"L1", "L2"} \ {l} : ar[k] = s.armed[k]
    BY <1>1 DEF Books
  <1> HIDE DEF ar
  <1>4. /\ t \in Books /\ t.next = s.next /\ t.armed = ar /\ t.backup = s.backup
        /\ t.mode_b = s.mode_b
    BY <1>1, <1>3 DEF Books
  <1> HIDE DEF t
  <1>5. Awaited(t, l) \subseteq Awaited(s, l)
    BY <1>3, <1>4 DEF Awaited
  <1>6. \A k \in Layer \ {l} : Awaited(t, k) = Awaited(s, k)
    BY <1>3, <1>4 DEF Awaited, Layer
  <1>7. IdsOnce(t)
    BY <1>1, <1>4 DEF OK, BooksOK, IdsOnce
  <1>8. \A k \in Layer : Awaited(t, k) \subseteq Awaited(s, k)
    BY <1>5, <1>6
  <1>9. OK(t, o.acts, A)
    BY <1>1, <1>4, <1>7, <1>8, FewerOK
  <1>10. Good(Out(t, o.acts), A) /\ Out(t, o.acts).sm = t /\ Out(t, o.acts).acts = o.acts
    BY <1>9, OutGood, OutParts
  <1> QED BY <1>2, <1>4, <1>6, <1>10 DEF ar

LEMMA ConcatFacts ==
    ASSUME NEW S, NEW q \in Seq(S), NEW r \in Seq(S)
    PROVE  /\ q \o r \in Seq(S)
           /\ \A i \in DOMAIN q : i \in DOMAIN (q \o r) /\ (q \o r)[i] = q[i]
           /\ \A i \in DOMAIN (q \o r) :
                \/ i \in DOMAIN q /\ (q \o r)[i] = q[i]
                \/ \E j \in DOMAIN r : (q \o r)[i] = r[j]
  <1>1. q \o r \in Seq(S) /\ Len(q \o r) = Len(q) + Len(r)
    OBVIOUS
  <1>2. ASSUME NEW i \in DOMAIN q
        PROVE  i \in DOMAIN (q \o r) /\ (q \o r)[i] = q[i]
    OBVIOUS
  <1>3. ASSUME NEW i \in DOMAIN (q \o r), i \notin DOMAIN q
        PROVE  \E j \in DOMAIN r : (q \o r)[i] = r[j]
    <2>1. i - Len(q) \in DOMAIN r /\ (q \o r)[i] = r[i - Len(q)]
      BY <1>1, <1>3
    <2> QED BY <2>1
  <1> QED BY <1>1, <1>2, <1>3

\* SetToSeq lists elements of the set.
LEMMA SetToSeqType ==
    ASSUME NEW S, IsFiniteSet(S)
    PROVE  SetToSeq(S) \in Seq(S)
  <1>1. Cardinality(S) \in Nat /\ ExistsBijection(1 .. Cardinality(S), S)
    BY FS_CardinalityType
  <1>2. \E g \in [1 .. Cardinality(S) -> S] : IsInjective(g)
    BY <1>1 DEF ExistsBijection, Bijection, Injection
  <1>3. SetToSeq(S) \in [1 .. Cardinality(S) -> S]
    BY <1>2 DEF SetToSeq
  <1> QED BY <1>1, <1>3

LEMMA Cancels ==
    ASSUME NEW o, NEW A, Good(o, A), NEW l \in {"L1", "L2"}
    PROVE  /\ Good(Cancel(o, l), A)
           /\ Cancel(o, l).sm = Disarm(o, l, o.sm.armed[l]).sm
           /\ Cancel(o, l).sm.armed[l] = {}
           /\ Cancel(o, l).sm.next = o.sm.next
           /\ \A k \in Layer \ {l} : Awaited(Cancel(o, l).sm, k) = Awaited(o.sm, k)
  <1> DEFINE ids == o.sm.armed[l]
             d == Disarm(o, l, ids)
             t == d.sm
             C == {Timed("CancelTimer", id, l) : id \in ids}
             r == SetToSeq(C)
             q == o.acts \o r
  <1>1. /\ Good(d, A) /\ d.sm.armed = [o.sm.armed EXCEPT ![l] = o.sm.armed[l] \ ids]
        /\ d.sm.next = o.sm.next /\ d.acts = o.acts
        /\ \A k \in Layer \ {l} : Awaited(d.sm, k) = Awaited(o.sm, k)
    BY Disarms
  <1>2. /\ OK(t, o.acts, A) /\ o.sm \in Books /\ IdsBelow(o.sm) /\ l \in Layer
    BY <1>1 DEF Good, OK, BooksOK, Layer
  <1>3. t.armed[l] = {}
    <2>1. o.sm.armed \in [{"L1", "L2"} -> SUBSET TimerId]
      BY <1>2 DEF Books
    <2> QED BY <2>1, <1>1
  <1>4. ids \subseteq TimerId /\ ids \subseteq 0 .. o.sm.next[l] - 1
    BY <1>2 DEF Books, IdsBelow, Awaited
  <1>5. IsFiniteSet(C)
    <2>1. IsFiniteSet(TimerId)
      <3>1. MaxTimer - 1 \in Int
        BY NodeAssumption
      <3> QED BY <3>1, FS_Interval DEF TimerId
    <2>2. IsFiniteSet(ids)
      BY <2>1, <1>4, FS_Subset
    <2> HIDE DEF ids
    <2> DEFINE h == [id \in ids |-> Timed("CancelTimer", id, l)]
    <2>3. h \in [ids -> C] /\ \A c \in C : \E id \in ids : h[id] = c
      OBVIOUS
    <2> HIDE DEF h, C
    <2>4. h \in Surjection(ids, C)
      BY <2>3 DEF Surjection
    <2> QED BY <2>2, <2>4, FS_Surjection
  <1>6. C \subseteq Timing
    BY <1>2, <1>4 DEF Timing, Timed
  <1>7. r \in Seq(C) /\ \A j \in DOMAIN r : r[j] \in C
    <2> HIDE DEF C
    <2>1. r \in Seq(C)
      BY <1>5, SetToSeqType
    <2> HIDE DEF r
    <2> QED BY <2>1
  <1>8. \A c \in C : c.kind = "CancelTimer" /\ c.by = l /\ c.body \in ids
    BY DEF Timed
  <1>9. Cancel(o, l) = Out(t, q)
    BY DEF Cancel
  <1> HIDE DEF C, r
  <1>10. r \in Seq(Talk \cup Timing) /\ o.acts \in Seq(Talk \cup Timing)
    BY <1>2, <1>6, <1>7 DEF OK
  <1>11. /\ q \in Seq(Talk \cup Timing)
         /\ \A i \in DOMAIN o.acts : i \in DOMAIN q /\ q[i] = o.acts[i]
         /\ \A i \in DOMAIN q :
              \/ i \in DOMAIN o.acts /\ q[i] = o.acts[i]
              \/ \E j \in DOMAIN r : q[i] = r[j]
    BY <1>10, ConcatFacts
  <1> HIDE DEF q
  <1>12. Covered(t, q, A)
    BY <1>2, <1>11 DEF OK, Covered
  <1>13. CancelsOwn(t, q)
    <2> SUFFICES ASSUME NEW i \in DOMAIN q, q[i].kind = "CancelTimer"
                 PROVE  /\ q[i].body \notin Awaited(t, q[i].by)
                        /\ q[i].body < t.next[q[i].by]
      BY DEF CancelsOwn
    <2>1. CASE i \in DOMAIN o.acts /\ q[i] = o.acts[i]
      BY <2>1, <1>2 DEF OK, CancelsOwn
    <2>2. CASE \E j \in DOMAIN r : q[i] = r[j]
      <3>1. q[i].by = l /\ q[i].body \in ids
        BY <2>2, <1>7, <1>8
      <3>2. Awaited(t, l) = {}
        BY <1>3 DEF Awaited
      <3>3. o.sm.next[l] \in Nat /\ t.next[l] = o.sm.next[l]
        BY <1>1, <1>2 DEF Books
      <3> QED BY <3>1, <3>2, <3>3, <1>4
    <2> QED BY <1>11, <2>1, <2>2
  <1>14. OK(t, q, A)
    BY <1>2, <1>11, <1>12, <1>13 DEF OK
  <1>15. Good(Out(t, q), A) /\ Out(t, q).sm = t
    BY <1>14, OutGood, OutParts
  <1> QED BY <1>1, <1>3, <1>9, <1>15

\* Books in which nothing but timers of L3 has changed.
LEMMA MacroMaps ==
    ASSUME NEW s \in Books, NEW m \in TimerMap
    PROVE  /\ [s EXCEPT !.backup = m] \in Books
           /\ [s EXCEPT !.backup = m].next = s.next
           /\ [s EXCEPT !.backup = m].armed = s.armed
           /\ [s EXCEPT !.backup = m].backup = m
           /\ [s EXCEPT !.backup = m].mode_b = s.mode_b
           /\ [s EXCEPT !.mode_b = m] \in Books
           /\ [s EXCEPT !.mode_b = m].next = s.next
           /\ [s EXCEPT !.mode_b = m].armed = s.armed
           /\ [s EXCEPT !.mode_b = m].backup = s.backup
           /\ [s EXCEPT !.mode_b = m].mode_b = m
  <1>1. [s EXCEPT !.backup = m] \in Books
    BY DEF Books
  <1>2. [s EXCEPT !.mode_b = m] \in Books
    BY DEF Books
  <1> QED BY <1>1, <1>2 DEF Books

LEMMA PutMap ==
    ASSUME NEW f \in TimerMap, NEW h \in Nat, NEW id \in TimerId
    PROVE  /\ Put(f, h, id) \in TimerMap
           /\ DOMAIN Put(f, h, id) = DOMAIN f \cup {h}
           /\ Put(f, h, id)[h] = id
           /\ \A k \in DOMAIN f \ {h} : Put(f, h, id)[k] = f[k]
           /\ Range(Put(f, h, id)) \subseteq Range(f) \cup {id}
  <1>1. PICK D \in SUBSET Nat : f \in [D -> TimerId]
    BY DEF TimerMap
  <1>2. Put(f, h, id) \in [D \cup {h} -> TimerId]
    BY <1>1 DEF Put
  <1>3. D \cup {h} \in SUBSET Nat
    OBVIOUS
  <1>4. Put(f, h, id) \in TimerMap
    BY <1>2, <1>3 DEF TimerMap
  <1>5. /\ DOMAIN Put(f, h, id) = DOMAIN f \cup {h}
        /\ Put(f, h, id)[h] = id
        /\ \A k \in DOMAIN f \ {h} : Put(f, h, id)[k] = f[k]
    BY DEF Put
  <1> QED BY <1>4, <1>5 DEF Range

LEMMA RestrictMap ==
    ASSUME NEW f \in TimerMap, NEW h
    PROVE  /\ Restrict(f, DOMAIN f \ {h}) \in TimerMap
           /\ DOMAIN Restrict(f, DOMAIN f \ {h}) = DOMAIN f \ {h}
           /\ \A k \in DOMAIN f \ {h} : Restrict(f, DOMAIN f \ {h})[k] = f[k]
           /\ Range(Restrict(f, DOMAIN f \ {h})) \subseteq Range(f)
  <1>1. PICK D \in SUBSET Nat : f \in [D -> TimerId]
    BY DEF TimerMap
  <1>2. Restrict(f, DOMAIN f \ {h}) \in [D \ {h} -> TimerId]
    BY <1>1 DEF Restrict
  <1>3. D \ {h} \in SUBSET Nat
    OBVIOUS
  <1>4. Restrict(f, DOMAIN f \ {h}) \in TimerMap
    BY <1>2, <1>3 DEF TimerMap
  <1>5. /\ DOMAIN Restrict(f, DOMAIN f \ {h}) = DOMAIN f \ {h}
        /\ \A k \in DOMAIN f \ {h} : Restrict(f, DOMAIN f \ {h})[k] = f[k]
    BY DEF Restrict
  <1> QED BY <1>4, <1>5 DEF Range

\* MacroTimerBook: a height is armed with a fresh id, and may forget an old one.
LEMMA ArmsBackup ==
    ASSUME NEW o, NEW A, Good(o, A), NEW h \in Nat, CanArm(o, "L3")
    PROVE  Good(backup_propose_action(o, h), A)
  <1> DEFINE s == o.sm
             id == s.next["L3"]
             u == NextId(s, "L3")
             m == Put(s.backup, h, id)
             t == [u EXCEPT !.backup = m]
             q == Scheduled(s, o.acts, "L3")
  <1>1. /\ o = Out(s, o.acts) /\ OK(s, o.acts, A) /\ s \in Books /\ id < MaxTimer
        /\ "L3" \in Layer /\ s.backup \in TimerMap
    BY DEF Good, OK, BooksOK, CanArm, Layer, Books
  <1>2. /\ u \in Books /\ u.next = [s.next EXCEPT !["L3"] = id + 1]
        /\ u.armed = s.armed /\ u.backup = s.backup /\ u.mode_b = s.mode_b
        /\ id \in TimerId
    BY <1>1, NextIdBook
  <1>3. backup_propose_action(o, h) = Out(t, q)
    <2>1. allocate(o, "L3") = Out(u, q)
      BY <1>1, AllocateOut
    <2>2. backup_propose_action(o, h) = [Out(u, q) EXCEPT !.sm.backup = Put(@, h, id)]
      BY <2>1 DEF backup_propose_action
    <2> HIDE DEF u, q, s, id
    <2>3. [Out(u, q) EXCEPT !.sm.backup = Put(@, h, id)]
             = Out([u EXCEPT !.backup = Put(u.backup, h, id)], q)
      BY DEF Out
    <2> QED BY <2>2, <2>3, <1>2
  <1>4. /\ m \in TimerMap /\ DOMAIN m = DOMAIN s.backup \cup {h} /\ m[h] = id
        /\ \A k \in DOMAIN s.backup \ {h} : m[k] = s.backup[k]
        /\ Range(m) \subseteq Range(s.backup) \cup {id}
    <2> DEFINE f == s.backup
    <2>1. f \in TimerMap /\ id \in TimerId
      BY <1>1, <1>2
    <2> HIDE DEF f, id
    <2>2. /\ Put(f, h, id) \in TimerMap
          /\ DOMAIN Put(f, h, id) = DOMAIN f \cup {h}
          /\ Put(f, h, id)[h] = id
          /\ \A k \in DOMAIN f \ {h} : Put(f, h, id)[k] = f[k]
          /\ Range(Put(f, h, id)) \subseteq Range(f) \cup {id}
      BY <2>1, PutMap
    <2> QED BY <2>2 DEF f
  <1> HIDE DEF m, u
  <1>5. /\ t \in Books /\ t.next = u.next /\ t.armed = u.armed /\ t.backup = m
        /\ t.mode_b = u.mode_b
    <2>1. u \in Books /\ m \in TimerMap
      BY <1>2, <1>4
    <2> HIDE DEF s, id
    <2> QED BY <2>1, MacroMaps
  <1> HIDE DEF t
  <1>6. Awaited(t, "L3") \subseteq Awaited(s, "L3") \cup {id}
    BY <1>2, <1>4, <1>5 DEF Awaited
  <1>7. \A k \in Layer \ {"L3"} : Awaited(t, k) = Awaited(s, k)
    BY <1>2, <1>5 DEF Awaited, Layer
  <1>8. \A x \in Range(s.backup) \cup Range(s.mode_b) : x # id
    <2>1. Awaited(s, "L3") \subseteq 0 .. id - 1 /\ id \in Nat
      BY <1>1 DEF OK, BooksOK, IdsBelow, Books
    <2> QED BY <2>1 DEF Awaited
  <1>9. IdsOnce(t)
    <2>1. IdsOnce(s)
      BY <1>1 DEF OK, BooksOK
    <2>2. (\A k \in DOMAIN s.backup : s.backup[k] # id) /\ \A k \in DOMAIN s.mode_b : s.mode_b[k] # id
      BY <1>8 DEF Range
    <2> HIDE DEF id, s
    <2> QED BY <2>1, <2>2, <1>2, <1>4, <1>5 DEF IdsOnce
  <1>10. OK(t, q, A)
    BY <1>1, <1>2, <1>5, <1>6, <1>7, <1>9, ScheduleOK DEF Scheduled
  <1>11. Good(Out(t, q), A)
    BY <1>10, OutGood
  <1> QED BY <1>3, <1>11

LEMMA ArmsModeB ==
    ASSUME NEW o, NEW A, Good(o, A), NEW h \in Nat, CanArm(o, "L3")
    PROVE  Good(mode_b_deadline_action(o, h), A)
  <1> DEFINE s == o.sm
             id == s.next["L3"]
             u == NextId(s, "L3")
             m == Put(s.mode_b, h, id)
             t == [u EXCEPT !.mode_b = m]
             q == Scheduled(s, o.acts, "L3")
  <1>1. /\ o = Out(s, o.acts) /\ OK(s, o.acts, A) /\ s \in Books /\ id < MaxTimer
        /\ "L3" \in Layer /\ s.mode_b \in TimerMap
    BY DEF Good, OK, BooksOK, CanArm, Layer, Books
  <1>2. /\ u \in Books /\ u.next = [s.next EXCEPT !["L3"] = id + 1]
        /\ u.armed = s.armed /\ u.backup = s.backup /\ u.mode_b = s.mode_b
        /\ id \in TimerId
    BY <1>1, NextIdBook
  <1>3. mode_b_deadline_action(o, h) = Out(t, q)
    <2>1. allocate(o, "L3") = Out(u, q)
      BY <1>1, AllocateOut
    <2>2. mode_b_deadline_action(o, h) = [Out(u, q) EXCEPT !.sm.mode_b = Put(@, h, id)]
      BY <2>1 DEF mode_b_deadline_action
    <2> HIDE DEF u, q, s, id
    <2>3. [Out(u, q) EXCEPT !.sm.mode_b = Put(@, h, id)]
             = Out([u EXCEPT !.mode_b = Put(u.mode_b, h, id)], q)
      BY DEF Out
    <2> QED BY <2>2, <2>3, <1>2
  <1>4. /\ m \in TimerMap /\ DOMAIN m = DOMAIN s.mode_b \cup {h} /\ m[h] = id
        /\ \A k \in DOMAIN s.mode_b \ {h} : m[k] = s.mode_b[k]
        /\ Range(m) \subseteq Range(s.mode_b) \cup {id}
    <2> DEFINE f == s.mode_b
    <2>1. f \in TimerMap /\ id \in TimerId
      BY <1>1, <1>2
    <2> HIDE DEF f, id
    <2>2. /\ Put(f, h, id) \in TimerMap
          /\ DOMAIN Put(f, h, id) = DOMAIN f \cup {h}
          /\ Put(f, h, id)[h] = id
          /\ \A k \in DOMAIN f \ {h} : Put(f, h, id)[k] = f[k]
          /\ Range(Put(f, h, id)) \subseteq Range(f) \cup {id}
      BY <2>1, PutMap
    <2> QED BY <2>2 DEF f
  <1> HIDE DEF m, u
  <1>5. /\ t \in Books /\ t.next = u.next /\ t.armed = u.armed /\ t.mode_b = m
        /\ t.backup = u.backup
    <2>1. u \in Books /\ m \in TimerMap
      BY <1>2, <1>4
    <2> HIDE DEF s, id
    <2> QED BY <2>1, MacroMaps
  <1> HIDE DEF t
  <1>6. Awaited(t, "L3") \subseteq Awaited(s, "L3") \cup {id}
    BY <1>2, <1>4, <1>5 DEF Awaited
  <1>7. \A k \in Layer \ {"L3"} : Awaited(t, k) = Awaited(s, k)
    BY <1>2, <1>5 DEF Awaited, Layer
  <1>8. \A x \in Range(s.backup) \cup Range(s.mode_b) : x # id
    <2>1. Awaited(s, "L3") \subseteq 0 .. id - 1 /\ id \in Nat
      BY <1>1 DEF OK, BooksOK, IdsBelow, Books
    <2> QED BY <2>1 DEF Awaited
  <1>9. IdsOnce(t)
    <2>1. IdsOnce(s)
      BY <1>1 DEF OK, BooksOK
    <2>2. (\A k \in DOMAIN s.backup : s.backup[k] # id) /\ \A k \in DOMAIN s.mode_b : s.mode_b[k] # id
      BY <1>8 DEF Range
    <2> HIDE DEF id, s
    <2> QED BY <2>1, <2>2, <1>2, <1>4, <1>5 DEF IdsOnce
  <1>10. OK(t, q, A)
    BY <1>1, <1>2, <1>5, <1>6, <1>7, <1>9, ScheduleOK DEF Scheduled
  <1>11. Good(Out(t, q), A)
    BY <1>10, OutGood
  <1> QED BY <1>3, <1>11

\* A height that is cleared no longer waits for its id, which was its alone.
LEMMA ClearsBackup ==
    ASSUME NEW o, NEW A, Good(o, A), NEW h
    PROVE  /\ Good(clear_backup(o, h), A)
           /\ clear_backup(o, h).acts = o.acts
           /\ clear_backup(o, h).sm.armed = o.sm.armed
           /\ Awaited(clear_backup(o, h).sm, "L3") \subseteq Awaited(o.sm, "L3")
           /\ h \in DOMAIN o.sm.backup =>
                o.sm.backup[h] \notin Awaited(clear_backup(o, h).sm, "L3")
  <1> DEFINE s == o.sm
             m == Restrict(s.backup, DOMAIN s.backup \ {h})
             t == [s EXCEPT !.backup = m]
  <1>1. o = Out(s, o.acts) /\ OK(s, o.acts, A) /\ s \in Books /\ s.backup \in TimerMap
        /\ IdsOnce(s)
    BY DEF Good, OK, BooksOK, Books
  <1>2. clear_backup(o, h) = Out(t, o.acts)
    <2>1. clear_backup(o, h) = [Out(s, o.acts) EXCEPT !.sm.backup = Restrict(@, DOMAIN @ \ {h})]
      BY <1>1 DEF clear_backup
    <2> HIDE DEF s
    <2> QED BY <2>1 DEF Out
  <1>3. /\ m \in TimerMap /\ DOMAIN m = DOMAIN s.backup \ {h}
        /\ \A k \in DOMAIN s.backup \ {h} : m[k] = s.backup[k]
        /\ Range(m) \subseteq Range(s.backup)
    BY <1>1, RestrictMap
  <1> HIDE DEF m
  <1>4. /\ t \in Books /\ t.next = s.next /\ t.armed = s.armed /\ t.backup = m
        /\ t.mode_b = s.mode_b
    BY <1>1, <1>3, MacroMaps
  <1> HIDE DEF t
  <1>5. \A k \in Layer : Awaited(t, k) \subseteq Awaited(s, k)
    BY <1>3, <1>4 DEF Awaited
  <1>6. IdsOnce(t)
    BY <1>1, <1>3, <1>4 DEF IdsOnce
  <1>7. h \in DOMAIN s.backup => s.backup[h] \notin Awaited(t, "L3")
    BY <1>1, <1>3, <1>4 DEF IdsOnce, Awaited, Range
  <1>8. OK(t, o.acts, A)
    BY <1>1, <1>4, <1>5, <1>6, FewerOK
  <1>9. Good(Out(t, o.acts), A) /\ Out(t, o.acts).sm = t /\ Out(t, o.acts).acts = o.acts
    BY <1>8, OutGood, OutParts
  <1> QED BY <1>2, <1>4, <1>5, <1>7, <1>9 DEF Layer

LEMMA ClearsModeB ==
    ASSUME NEW o, NEW A, Good(o, A), NEW h
    PROVE  /\ Good(clear_mode_b(o, h), A)
           /\ clear_mode_b(o, h).acts = o.acts
           /\ clear_mode_b(o, h).sm.armed = o.sm.armed
           /\ Awaited(clear_mode_b(o, h).sm, "L3") \subseteq Awaited(o.sm, "L3")
           /\ h \in DOMAIN o.sm.mode_b =>
                o.sm.mode_b[h] \notin Awaited(clear_mode_b(o, h).sm, "L3")
  <1> DEFINE s == o.sm
             m == Restrict(s.mode_b, DOMAIN s.mode_b \ {h})
             t == [s EXCEPT !.mode_b = m]
  <1>1. o = Out(s, o.acts) /\ OK(s, o.acts, A) /\ s \in Books /\ s.mode_b \in TimerMap
        /\ IdsOnce(s)
    BY DEF Good, OK, BooksOK, Books
  <1>2. clear_mode_b(o, h) = Out(t, o.acts)
    <2>1. clear_mode_b(o, h) = [Out(s, o.acts) EXCEPT !.sm.mode_b = Restrict(@, DOMAIN @ \ {h})]
      BY <1>1 DEF clear_mode_b
    <2> HIDE DEF s
    <2> QED BY <2>1 DEF Out
  <1>3. /\ m \in TimerMap /\ DOMAIN m = DOMAIN s.mode_b \ {h}
        /\ \A k \in DOMAIN s.mode_b \ {h} : m[k] = s.mode_b[k]
        /\ Range(m) \subseteq Range(s.mode_b)
    BY <1>1, RestrictMap
  <1> HIDE DEF m
  <1>4. /\ t \in Books /\ t.next = s.next /\ t.armed = s.armed /\ t.mode_b = m
        /\ t.backup = s.backup
    BY <1>1, <1>3, MacroMaps
  <1> HIDE DEF t
  <1>5. \A k \in Layer : Awaited(t, k) \subseteq Awaited(s, k)
    BY <1>3, <1>4 DEF Awaited
  <1>6. IdsOnce(t)
    BY <1>1, <1>3, <1>4 DEF IdsOnce
  <1>7. h \in DOMAIN s.mode_b => s.mode_b[h] \notin Awaited(t, "L3")
    BY <1>1, <1>3, <1>4 DEF IdsOnce, Awaited, Range
  <1>8. OK(t, o.acts, A)
    BY <1>1, <1>4, <1>5, <1>6, FewerOK
  <1>9. Good(Out(t, o.acts), A) /\ Out(t, o.acts).sm = t /\ Out(t, o.acts).acts = o.acts
    BY <1>8, OutGood, OutParts
  <1> QED BY <1>2, <1>4, <1>5, <1>7, <1>9 DEF Layer

-----------------------------------------------------------------------------
(***************************************************************************)
(* The layers.                                                             *)
(***************************************************************************)

\* Books in which no timer has changed.
LEMMA OtherFields ==
    ASSUME NEW s \in Books, NEW r \in 0 .. MaxRound, NEW n \in Nat, NEW S \in SUBSET Nat,
           NEW P \in SUBSET Proposals, NEW C \in SUBSET AllCheckpoints
    PROVE  /\ [s EXCEPT !.round = r] \in Books /\ SameTimers(s, [s EXCEPT !.round = r])
           /\ [s EXCEPT !.waves = n] \in Books /\ SameTimers(s, [s EXCEPT !.waves = n])
           /\ [s EXCEPT !.height = n] \in Books /\ SameTimers(s, [s EXCEPT !.height = n])
           /\ [s EXCEPT !.certified = S] \in Books /\ SameTimers(s, [s EXCEPT !.certified = S])
           /\ [s EXCEPT !.cands = C] \in Books /\ SameTimers(s, [s EXCEPT !.cands = C])
           /\ [s EXCEPT !.proposal_seen = S] \in Books
           /\ SameTimers(s, [s EXCEPT !.proposal_seen = S])
           /\ [s EXCEPT !.voted = S] \in Books /\ SameTimers(s, [s EXCEPT !.voted = S])
           /\ [s EXCEPT !.adopted = C] \in Books /\ SameTimers(s, [s EXCEPT !.adopted = C])
           /\ [s EXCEPT !.seen = P] \in Books /\ SameTimers(s, [s EXCEPT !.seen = P])
  <1>1. /\ [s EXCEPT !.round = r] \in Books /\ SameTimers(s, [s EXCEPT !.round = r])
    BY DEF Books, SameTimers
  <1>2. [s EXCEPT !.waves = n] \in Books /\ SameTimers(s, [s EXCEPT !.waves = n])
    BY DEF Books, SameTimers
  <1>3. [s EXCEPT !.height = n] \in Books /\ SameTimers(s, [s EXCEPT !.height = n])
    BY DEF Books, SameTimers
  <1>4. [s EXCEPT !.certified = S] \in Books /\ SameTimers(s, [s EXCEPT !.certified = S])
    BY DEF Books, SameTimers
  <1>5. [s EXCEPT !.cands = C] \in Books /\ SameTimers(s, [s EXCEPT !.cands = C])
    BY DEF Books, SameTimers
  <1>6. /\ [s EXCEPT !.proposal_seen = S] \in Books
        /\ SameTimers(s, [s EXCEPT !.proposal_seen = S])
    BY DEF Books, SameTimers
  <1>7. [s EXCEPT !.voted = S] \in Books /\ SameTimers(s, [s EXCEPT !.voted = S])
    BY DEF Books, SameTimers
  <1>8. [s EXCEPT !.adopted = C] \in Books /\ SameTimers(s, [s EXCEPT !.adopted = C])
    BY DEF Books, SameTimers
  <1>9. [s EXCEPT !.seen = P] \in Books /\ SameTimers(s, [s EXCEPT !.seen = P])
    BY DEF Books, SameTimers
  <1> QED BY <1>1, <1>2, <1>3, <1>4, <1>5, <1>6, <1>7, <1>8, <1>9

LEMMA Updates ==
    ASSUME NEW o, NEW A, Good(o, A), NEW t \in Books, SameTimers(o.sm, t)
    PROVE  /\ Good(Out(t, o.acts), A)
           /\ Out(t, o.acts).sm = t
           /\ \A l : Awaited(t, l) = Awaited(o.sm, l)
  BY Keeps, OutGood, OutParts, SameAwaited DEF Good

LEMMA Fields ==
    ASSUME NEW o, NEW A, Good(o, A)
    PROVE  /\ o = Out(o.sm, o.acts) /\ o.sm \in Books /\ o.acts \in Seq(Talk \cup Timing)
           /\ o.sm.round \in 0 .. MaxRound /\ o.sm.waves \in Nat /\ o.sm.height \in Nat
           /\ o.sm.certified \in SUBSET Nat /\ o.sm.cands \in SUBSET AllCheckpoints
           /\ o.sm.proposal_seen \in SUBSET Nat /\ o.sm.voted \in SUBSET Nat
           /\ o.sm.adopted \in SUBSET AllCheckpoints /\ o.sm.seen \in SUBSET Proposals
           /\ o.sm.next \in [Layer -> 0 .. MaxTimer]
           /\ o.sm.armed \in [{"L1", "L2"} -> SUBSET TimerId]
           /\ o.sm.backup \in TimerMap /\ o.sm.mode_b \in TimerMap
           /\ \A l \in Layer : Awaited(o.sm, l) \subseteq 0 .. o.sm.next[l] - 1
  <1>1. o = Out(o.sm, o.acts) /\ o.sm \in Books /\ o.acts \in Seq(Talk \cup Timing)
        /\ \A l \in Layer : Awaited(o.sm, l) \subseteq 0 .. o.sm.next[l] - 1
    BY DEF Good, OK, BooksOK, IdsBelow
  <1> QED BY <1>1 DEF Books

LEMMA Proposes ==
    ASSUME NEW o, NEW A, Good(o, A), NEW r \in 0 .. MaxRound, CanArm(o, "L1")
    PROVE  Good(propose_round(o, r), A)
  <1> DEFINE s == o.sm
             t == [s EXCEPT !.round = r]
             o1 == Out(t, o.acts)
             o2 == Cancel(o1, "L1")
             o3 == Arm(o2, "L1")
             a == Act("BroadcastVertexProposal", Own(r))
  <1>1. o = Out(s, o.acts) /\ s \in Books
    BY Fields
  <1>2. t \in Books /\ SameTimers(s, t)
    <2> HIDE DEF s
    <2> QED BY <1>1, OtherFields, NodeAssumption
  <1>3. [o EXCEPT !.sm.round = r] = o1
    <2>1. [o EXCEPT !.sm.round = r] = [Out(s, o.acts) EXCEPT !.sm.round = r]
      BY <1>1
    <2> HIDE DEF s
    <2> QED BY <2>1 DEF Out
  <1> HIDE DEF t
  <1>4. Good(o1, A) /\ o1.sm = t
    BY <1>2, Updates
  <1> HIDE DEF o1
  <1>5. Good(o2, A) /\ o2.sm.next = o1.sm.next
    BY <1>4, Cancels
  <1>6. CanArm(o2, "L1")
    BY <1>2, <1>4, <1>5 DEF CanArm, SameTimers
  <1> HIDE DEF o2
  <1>7. Good(o3, A)
    BY <1>5, <1>6, Arms
  <1> HIDE DEF o3
  <1>8. a \in Talk
    BY NodeAssumption DEF Talk, Act
  <1>9. propose_round(o, r) = Say(o3, a)
    BY <1>3 DEF propose_round, o2, o3
  <1> HIDE DEF a
  <1> QED BY <1>7, <1>8, <1>9, Says

LEMMA Advances ==
    ASSUME NEW o, NEW A, Good(o, A), NEW p \in maybe_advance(o)
    PROVE  Good(p, A)
  <1>1. CASE p = o
    BY <1>1
  <1>2. CASE o.sm.round < MaxRound /\ CanArm(o, "L1") /\ p = propose_round(o, o.sm.round + 1)
    <2>1. o.sm.round + 1 \in 0 .. MaxRound
      BY <1>2, Fields, NodeAssumption
    <2> QED BY <1>2, <2>1, Proposes
  <1> QED BY <1>1, <1>2 DEF maybe_advance, If

\* A wave commits: its slow timer is cancelled.
LEMMA Commits ==
    ASSUME NEW o, NEW A, Good(o, A)
    PROVE  /\ Good(Commit(o), A)
           /\ Awaited(Commit(o).sm, "L2") = {}
           /\ \A k \in Layer \ {"L2"} : Awaited(Commit(o).sm, k) = Awaited(o.sm, k)
  <1> DEFINE o1 == Cancel(o, "L2")
             s == o1.sm
             t == [s EXCEPT !.waves = s.waves + 1]
             o2 == Out(t, o1.acts)
             a == Act("BroadcastMicroQc", o.sm.waves)
  <1>1. /\ Good(o1, A) /\ o1.sm.armed["L2"] = {}
        /\ \A k \in Layer \ {"L2"} : Awaited(o1.sm, k) = Awaited(o.sm, k)
    BY Cancels
  <1> HIDE DEF o1
  <1>2. o1 = Out(s, o1.acts) /\ s \in Books /\ s.waves \in Nat
    BY <1>1, Fields
  <1>3. t \in Books /\ SameTimers(s, t)
    <2>1. s.waves + 1 \in Nat
      BY <1>2
    <2> DEFINE n == s.waves + 1
    <2> HIDE DEF s, n
    <2>2. [s EXCEPT !.waves = n] \in Books /\ SameTimers(s, [s EXCEPT !.waves = n])
      BY <1>2, <2>1 DEF n, Books, SameTimers
    <2> QED BY <2>2 DEF n
  <1>4. [o1 EXCEPT !.sm.waves = @ + 1] = o2
    <2>1. [o1 EXCEPT !.sm.waves = @ + 1] = [Out(s, o1.acts) EXCEPT !.sm.waves = @ + 1]
      BY <1>2
    <2> HIDE DEF s
    <2> QED BY <2>1 DEF Out
  <1> HIDE DEF t
  <1>5. Good(o2, A) /\ o2.sm = t /\ \A l : Awaited(t, l) = Awaited(s, l)
    BY <1>1, <1>3, Updates
  <1> HIDE DEF o2
  <1>6. a \in Talk
    <2>1. o.sm.waves \in Nat
      BY Fields
    <2> QED BY <2>1 DEF Talk, Act
  <1>7. Commit(o) = Say(o2, a)
    BY <1>4 DEF Commit, o1
  <1> HIDE DEF a
  <1>8. Good(Commit(o), A) /\ Commit(o).sm = t
    BY <1>5, <1>6, <1>7, Says
  <1>9. Awaited(s, "L2") = {}
    BY <1>1 DEF Awaited
  <1> QED BY <1>1, <1>5, <1>8, <1>9

LEMMA Emits ==
    ASSUME NEW o, NEW A, Good(o, A), NEW p \in try_emit_for_wave(o)
    PROVE  Good(p, A)
  <1>1. \/ p \in {o, Commit(o)}
        \/ CanArm(o, "L2") /\ p = Arm(o, "L2")
    BY DEF try_emit_for_wave, If
  <1> QED BY <1>1, Commits, Arms

\* A candidate replaces the one of its height.
LEMMA SetCands ==
    ASSUME NEW o, NEW A, Good(o, A), NEW c \in AllCheckpoints
    PROVE  /\ Good(SetCandidate(o, c), A)
           /\ SetCandidate(o, c).sm.next = o.sm.next
  <1> DEFINE s == o.sm
             S == {d \in s.cands : d.height # c.height} \cup {c}
             t == [s EXCEPT !.cands = S]
  <1>1. o = Out(s, o.acts) /\ s \in Books /\ S \in SUBSET AllCheckpoints
    BY Fields
  <1>2. SetCandidate(o, c) = Out(t, o.acts)
    <2>1. SetCandidate(o, c) = [Out(s, o.acts) EXCEPT !.sm.cands = S]
      <3>1. SetCandidate(o, c) = [o EXCEPT !.sm.cands = S]
        BY DEF SetCandidate
      <3> HIDE DEF s, S
      <3> QED BY <1>1, <3>1
    <2> HIDE DEF s, S
    <2> QED BY <2>1 DEF Out
  <1>3. t \in Books /\ SameTimers(s, t)
    <2> HIDE DEF s, S
    <2> QED BY <1>1 DEF Books, SameTimers
  <1> HIDE DEF t
  <1>4. Good(Out(t, o.acts), A) /\ Out(t, o.acts).sm = t
    BY <1>3, Updates
  <1> QED BY <1>2, <1>3, <1>4 DEF SameTimers

LEMMA SetProposalSeen ==
    ASSUME NEW o, NEW A, Good(o, A), NEW h \in Nat
    PROVE  /\ Good([o EXCEPT !.sm.proposal_seen = @ \cup {h}], A)
           /\ [o EXCEPT !.sm.proposal_seen = @ \cup {h}].sm.next = o.sm.next
           /\ \A l : Awaited([o EXCEPT !.sm.proposal_seen = @ \cup {h}].sm, l) = Awaited(o.sm, l)
  <1> DEFINE s == o.sm
             S == s.proposal_seen \cup {h}
             t == [s EXCEPT !.proposal_seen = S]
  <1>1. o = Out(s, o.acts) /\ s \in Books /\ S \in SUBSET Nat
    BY Fields
  <1>2. [o EXCEPT !.sm.proposal_seen = @ \cup {h}] = Out(t, o.acts)
    <2>1. [o EXCEPT !.sm.proposal_seen = @ \cup {h}]
            = [Out(s, o.acts) EXCEPT !.sm.proposal_seen = @ \cup {h}]
      BY <1>1
    <2> HIDE DEF s
    <2> QED BY <2>1 DEF Out
  <1>3. t \in Books /\ SameTimers(s, t)
    <2> HIDE DEF s, S
    <2> QED BY <1>1 DEF Books, SameTimers
  <1> HIDE DEF t
  <1>4. /\ Good(Out(t, o.acts), A) /\ Out(t, o.acts).sm = t
        /\ \A l : Awaited(t, l) = Awaited(s, l)
    BY <1>3, Updates
  <1> QED BY <1>2, <1>3, <1>4 DEF SameTimers

LEMMA MacroTalk ==
    ASSUME NEW c \in AllCheckpoints
    PROVE  Act("BroadcastMacroProposal", c) \in Talk
  BY DEF Talk, Act

LEMMA MacroProposes ==
    ASSUME NEW o, NEW A, Good(o, A), NEW c \in AllCheckpoints
    PROVE  /\ Good(ProposesMacro(o, c), A)
           /\ ProposesMacro(o, c).sm.next = o.sm.next
           /\ \A l : Awaited(ProposesMacro(o, c).sm, l) = Awaited(o.sm, l)
  <1> DEFINE h == c.height
             c2 == [o EXCEPT !.sm.proposal_seen = @ \cup {h}]
             a == Act("BroadcastMacroProposal", c)
  <1>1. h \in Nat
    BY DEF AllCheckpoints
  <1>2. ProposesMacro(o, c) = Say(c2, a)
    BY DEF ProposesMacro
  <1> HIDE DEF h
  <1>3. /\ Good(c2, A) /\ c2.sm.next = o.sm.next
        /\ \A l : Awaited(c2.sm, l) = Awaited(o.sm, l)
    BY <1>1, SetProposalSeen
  <1>4. a \in Talk
    BY MacroTalk
  <1> HIDE DEF c2, a
  <1>5. Good(Say(c2, a), A) /\ Say(c2, a).sm = c2.sm
    BY <1>3, <1>4, Says
  <1> QED BY <1>2, <1>3, <1>5

LEMMA FillsOK ==
    ASSUME NEW o, NEW A, Good(o, A), CanArm(o, "L3"), NEW d \in AllCheckpoints,
           NEW p \in FillsWindow(o, d)
    PROVE  Good(p, A)
  <1> DEFINE h == d.height
             c == SetCandidate(o, d)
             primary == ProposesMacro(c, d)
             backup == backup_propose_action(c, h)
  <1>1. \/ p \in {mode_b_deadline_action(c, h), mode_b_deadline_action(primary, h)}
        \/ CanArm(backup, "L3") /\ p = mode_b_deadline_action(backup, h)
    BY DEF FillsWindow, If
  <1>2. h \in Nat
    BY DEF AllCheckpoints
  <1> HIDE DEF h
  <1>3. Good(c, A) /\ c.sm.next = o.sm.next
    BY SetCands
  <1> HIDE DEF c
  <1>4. Good(primary, A) /\ primary.sm.next = c.sm.next
    BY <1>3, MacroProposes
  <1> HIDE DEF primary
  <1>5. CanArm(c, "L3") /\ CanArm(primary, "L3")
    BY <1>3, <1>4 DEF CanArm
  <1>6. Good(backup, A)
    BY <1>2, <1>3, <1>5, ArmsBackup
  <1> HIDE DEF backup
  <1>7. CASE p = mode_b_deadline_action(c, h)
    BY <1>2, <1>3, <1>5, <1>7, ArmsModeB
  <1>8. CASE p = mode_b_deadline_action(primary, h)
    BY <1>2, <1>4, <1>5, <1>8, ArmsModeB
  <1>9. CASE CanArm(backup, "L3") /\ p = mode_b_deadline_action(backup, h)
    BY <1>2, <1>6, <1>9, ArmsModeB
  <1> QED BY <1>1, <1>7, <1>8, <1>9

LEMMA FillsCandidate ==
    ASSUME NEW o, NEW A, Good(o, A), NEW p \in on_local_micro_qcs(o)
    PROVE  Good(p, A)
  <1>1. \/ p = o
        \/ CanArm(o, "L3") /\ \E c \in CandidateOf(o.sm.height) : p \in FillsWindow(o, c)
    BY DEF on_local_micro_qcs
  <1>2. ASSUME CanArm(o, "L3"), NEW c \in CandidateOf(o.sm.height), p \in FillsWindow(o, c)
        PROVE  Good(p, A)
    <2>1. o.sm.height \in Nat
      BY Fields
    <2>2. c \in AllCheckpoints
      BY <2>1 DEF CandidateOf, AllCheckpoints
    <2> QED BY <1>2, <2>2, FillsOK
  <1> QED BY <1>1, <1>2

LEMMA CertifiedVertexOK ==
    ASSUME NEW o, NEW A, Good(o, A), NEW p \in on_certified_vertex(o)
    PROVE  Good(p, A)
  <1>1. PICK x \in Then(maybe_advance(o), try_emit_for_wave) : p \in on_local_micro_qcs(x)
    BY DEF on_certified_vertex, Then
  <1>2. PICK y \in maybe_advance(o) : x \in try_emit_for_wave(y)
    BY DEF Then
  <1>3. Good(y, A)
    BY Advances
  <1>4. Good(x, A)
    BY <1>2, <1>3, Emits
  <1> QED BY <1>1, <1>4, FillsCandidate

LEMMA Backs ==
    ASSUME NEW o, NEW A, Good(o, A), NEW h \in DOMAIN o.sm.backup, NEW p \in BackupFires(o, h)
    PROVE  /\ Good(p, A)
           /\ o.sm.backup[h] \notin Awaited(p.sm, "L3")
           /\ Awaited(p.sm, "L2") = Awaited(o.sm, "L2")
  <1> DEFINE c == clear_backup(o, h)
  <1>1. /\ Good(c, A) /\ c.sm.armed = o.sm.armed
        /\ o.sm.backup[h] \notin Awaited(c.sm, "L3")
    BY ClearsBackup
  <1>2. Awaited(c.sm, "L2") = Awaited(o.sm, "L2")
    BY <1>1 DEF Awaited
  <1>3. o.sm.cands \in SUBSET AllCheckpoints
    BY Fields
  <1>4. p = c \/ \E d \in AllCheckpoints : p = ProposesMacro(c, d)
    BY <1>3 DEF BackupFires
  <1> HIDE DEF c
  <1>5. ASSUME NEW d \in AllCheckpoints, p = ProposesMacro(c, d)
        PROVE  Good(p, A) /\ \A l : Awaited(p.sm, l) = Awaited(c.sm, l)
    BY <1>1, <1>5, MacroProposes
  <1> QED BY <1>1, <1>2, <1>4, <1>5

\* What the timer's own layer does about it: afterwards it does not wait for it.
LEMMA SlowTimerOK ==
    ASSUME NEW o, NEW A, Good(o, A), NEW id, NEW p \in slow_path_timer(o, id)
    PROVE  Good(p, A) /\ id \notin Awaited(p.sm, "L2")
  <1>1. CASE id \notin o.sm.armed["L2"]
    BY <1>1 DEF slow_path_timer, Awaited
  <1>2. CASE id \in o.sm.armed["L2"]
    <2> DEFINE d == Disarm(o, "L2", {id})
    <2>1. Good(d, A) /\ d.sm.armed = [o.sm.armed EXCEPT !["L2"] = o.sm.armed["L2"] \ {id}]
      BY Disarms
    <2>2. o.sm.armed \in [{"L1", "L2"} -> SUBSET TimerId]
      BY Fields
    <2>3. p \in {d, Commit(d)}
      BY <1>2 DEF slow_path_timer
    <2> HIDE DEF d
    <2>4. id \notin Awaited(d.sm, "L2")
      BY <2>1, <2>2 DEF Awaited
    <2>5. Good(Commit(d), A) /\ Awaited(Commit(d).sm, "L2") = {}
      BY <2>1, Commits
    <2> QED BY <2>1, <2>3, <2>4, <2>5
  <1> QED BY <1>1, <1>2

LEMMA PartialTalk == Act("BroadcastBlsPartial", 0) \in Talk /\ Act("BroadcastBlsPartial", Subnet) \in Talk
  BY DEF Talk, Act

LEMMA MacroTimerOK ==
    ASSUME NEW o, NEW A, Good(o, A), NEW id, NEW p \in macro_timer(o, id)
    PROVE  /\ Good(p, A) /\ id \notin Awaited(p.sm, "L3")
           /\ Awaited(p.sm, "L2") = Awaited(o.sm, "L2")
  <1> DEFINE B == height_for_backup_timer(o.sm, id)
             D == height_for_mode_b_timer(o.sm, id)
  <1>1. CASE B # {}
    <2>1. PICK h \in B : p \in BackupFires(o, h)
      BY <1>1 DEF macro_timer
    <2>2. h \in DOMAIN o.sm.backup /\ o.sm.backup[h] = id
      BY DEF height_for_backup_timer
    <2> QED BY <2>1, <2>2, Backs
  <1>2. CASE B = {} /\ D # {}
    <2> DEFINE a == Act("BroadcastBlsPartial", 0)
    <2>1. PICK h \in D : p \in {clear_mode_b(o, h), Say(clear_mode_b(o, h), a)}
      BY <1>2 DEF macro_timer
    <2>2. h \in DOMAIN o.sm.mode_b /\ o.sm.mode_b[h] = id
      BY DEF height_for_mode_b_timer
    <2> DEFINE c == clear_mode_b(o, h)
    <2>3. /\ Good(c, A) /\ c.sm.armed = o.sm.armed
          /\ id \notin Awaited(c.sm, "L3")
      BY <2>2, ClearsModeB
    <2> HIDE DEF c
    <2>4. a \in Talk
      BY PartialTalk
    <2> HIDE DEF a
    <2>5. Good(Say(c, a), A) /\ Say(c, a).sm = c.sm
      BY <2>3, <2>4, Says
    <2>6. Awaited(c.sm, "L2") = Awaited(o.sm, "L2")
      BY <2>3 DEF Awaited
    <2> QED BY <2>1, <2>3, <2>5, <2>6 DEF c
  <1>3. CASE B = {} /\ D = {}
    <2>1. p = o
      BY <1>3 DEF macro_timer
    <2>2. id \notin Awaited(o.sm, "L3")
      BY <1>3 DEF Awaited, Range, height_for_backup_timer, height_for_mode_b_timer
    <2> QED BY <2>1, <2>2
  <1> QED BY <1>1, <1>2, <1>3

LEMMA ProposalTalk ==
    ASSUME NEW r \in Nat
    PROVE  Act("BroadcastVertexProposal", Own(r)) \in Talk
  BY DEF Talk, Act

LEMMA RoundTimerOK ==
    ASSUME NEW o, NEW A, Good(o, A), NEW id, NEW p \in round_timer(o, id)
    PROVE  /\ Good(p, A) /\ id \notin Awaited(p.sm, "L1")
           /\ \A k \in Layer \ {"L1"} : Awaited(p.sm, k) = Awaited(o.sm, k)
  <1>1. CASE id \notin o.sm.armed["L1"]
    BY <1>1 DEF round_timer, Awaited
  <1>2. CASE id \in o.sm.armed["L1"]
    <2> DEFINE d == Disarm(o, "L1", {id})
               a == Act("BroadcastVertexProposal", Own(o.sm.round))
               x == Say(d, a)
    <2>1. /\ Good(d, A) /\ d.sm.armed = [o.sm.armed EXCEPT !["L1"] = o.sm.armed["L1"] \ {id}]
          /\ d.sm.next = o.sm.next
          /\ \A k \in Layer \ {"L1"} : Awaited(d.sm, k) = Awaited(o.sm, k)
      BY Disarms
    <2>2. /\ o.sm.armed \in [{"L1", "L2"} -> SUBSET TimerId]
          /\ o.sm.round \in Nat /\ "L1" \in Layer
          /\ o.sm.next \in [Layer -> 0 .. MaxTimer]
          /\ Awaited(o.sm, "L1") \subseteq 0 .. o.sm.next["L1"] - 1
      BY Fields, NodeAssumption DEF Layer
    <2>3. p = d \/ (CanArm(d, "L1") /\ p = Arm(x, "L1"))
      BY <1>2 DEF round_timer, If
    <2>4. a \in Talk
      BY <2>2, ProposalTalk
    <2> HIDE DEF d, a
    <2>5. id \notin d.sm.armed["L1"]
      BY <2>1, <2>2
    <2>6. Good(x, A) /\ x.sm = d.sm
      BY <2>1, <2>4, Says
    <2>7. id # d.sm.next["L1"]
      <3>1. id \in Awaited(o.sm, "L1")
        BY <1>2 DEF Awaited
      <3> QED BY <3>1, <2>1, <2>2
    <2> HIDE DEF x
    <2>8. CASE CanArm(d, "L1") /\ p = Arm(x, "L1")
      <3>1. CanArm(x, "L1")
        BY <2>6, <2>8 DEF CanArm
      <3>2. /\ Good(p, A) /\ p.sm.armed["L1"] = x.sm.armed["L1"] \cup {x.sm.next["L1"]}
            /\ \A k \in Layer \ {"L1"} : Awaited(p.sm, k) = Awaited(x.sm, k)
        BY <2>6, <2>8, <3>1, Arms
      <3>3. id \notin Awaited(p.sm, "L1")
        BY <2>5, <2>6, <2>7, <3>2 DEF Awaited
      <3> QED BY <2>1, <2>6, <3>2, <3>3
    <2>9. CASE p = d
      BY <2>1, <2>5, <2>9 DEF Awaited
    <2> QED BY <2>3, <2>8, <2>9
  <1> QED BY <1>1, <1>2

LEMMA TimerOK ==
    ASSUME NEW o, NEW A, Good(o, A), NEW id, NEW p \in on_timer_fired(o, id)
    PROVE  Good(p, A) /\ \A l \in Layer : id \notin Awaited(p.sm, l)
  <1>1. PICK x \in Then(slow_path_timer(o, id), LAMBDA z : macro_timer(z, id)) :
            p \in round_timer(x, id)
    BY DEF on_timer_fired, Then
  <1>2. PICK y \in slow_path_timer(o, id) : x \in macro_timer(y, id)
    BY DEF Then
  <1>3. Good(y, A) /\ id \notin Awaited(y.sm, "L2")
    BY SlowTimerOK
  <1>4. /\ Good(x, A) /\ id \notin Awaited(x.sm, "L3")
        /\ Awaited(x.sm, "L2") = Awaited(y.sm, "L2")
    BY <1>2, <1>3, MacroTimerOK
  <1>5. /\ Good(p, A) /\ id \notin Awaited(p.sm, "L1")
        /\ \A k \in Layer \ {"L1"} : Awaited(p.sm, k) = Awaited(x.sm, k)
    BY <1>1, <1>4, RoundTimerOK
  <1> QED BY <1>3, <1>4, <1>5 DEF Layer

LEMMA VertexPartialOK ==
    ASSUME NEW o, NEW A, Good(o, A), NEW p \in on_vertex_partial(o)
    PROVE  Good(p, A)
  <1> DEFINE s == o.sm
             S == s.certified \cup {s.round}
             t == [s EXCEPT !.certified = S]
             o1 == Out(t, o.acts)
             a == Act("BroadcastCertifiedVertex", OwnCert[s.round])
  <1>1. o = Out(s, o.acts) /\ s \in Books /\ S \in SUBSET Nat /\ s.round \in 0 .. MaxRound
    BY Fields, NodeAssumption
  <1>2. [o EXCEPT !.sm.certified = @ \cup {s.round}] = o1
    <2> DEFINE r == s.round
               c == o.acts
    <2>1. [o EXCEPT !.sm.certified = @ \cup {r}]
            = [Out(s, c) EXCEPT !.sm.certified = @ \cup {r}]
      BY <1>1
    <2> HIDE DEF s, r, c
    <2>2. [Out(s, c) EXCEPT !.sm.certified = @ \cup {r}]
            = Out([s EXCEPT !.certified = s.certified \cup {r}], c)
      BY DEF Out
    <2> QED BY <2>1, <2>2 DEF r, c
  <1>3. t \in Books /\ SameTimers(s, t)
    <2> HIDE DEF s, S
    <2> QED BY <1>1 DEF Books, SameTimers
  <1>4. p = o \/ p \in maybe_advance(Say(o1, a))
    BY <1>2 DEF on_vertex_partial
  <1> HIDE DEF t
  <1>5. Good(o1, A)
    BY <1>3, Updates
  <1>6. a \in Talk
    BY <1>1 DEF Talk, Act, OwnCerts
  <1> HIDE DEF o1, a
  <1>7. Good(Say(o1, a), A)
    BY <1>5, <1>6, Says
  <1> QED BY <1>4, <1>7, Advances

LEMMA VertexProposalOK ==
    ASSUME NEW o, NEW A, Good(o, A), NEW v \in Proposals, NEW p \in on_vertex_proposal(o, v)
    PROVE  Good(p, A)
  <1> DEFINE s == o.sm
             t == [s EXCEPT !.seen = {v}]
             o1 == Out(t, o.acts)
             a == Act("BroadcastVertexPartial", v)
             b == Act("EmitSlashEvidence", s.seen \cup {v})
  <1>1. o = Out(s, o.acts) /\ s \in Books /\ s.seen \in SUBSET Proposals
    BY Fields
  <1>2. [o EXCEPT !.sm.seen = {v}] = o1
    <2> DEFINE P == {v}
    <2>1. [o EXCEPT !.sm.seen = P] = [Out(s, o.acts) EXCEPT !.sm.seen = P]
      BY <1>1
    <2> HIDE DEF s, P
    <2>2. [o EXCEPT !.sm.seen = P] = Out([s EXCEPT !.seen = P], o.acts)
      BY <2>1 DEF Out
    <2> QED BY <2>2 DEF P
  <1>3. t \in Books /\ SameTimers(s, t)
    <2> HIDE DEF s
    <2> QED BY <1>1 DEF Books, SameTimers
  <1>4. p \in {o, Say(o1, a), Say(o, b)}
    BY <1>2 DEF on_vertex_proposal
  <1>5. a \in Talk /\ b \in Talk
    BY <1>1 DEF Talk, Act
  <1> HIDE DEF t, a, b
  <1>6. Good(o1, A)
    BY <1>3, Updates
  <1> HIDE DEF o1
  <1>7. Good(Say(o1, a), A) /\ Good(Say(o, b), A)
    BY <1>5, <1>6, Says
  <1> QED BY <1>4, <1>7

LEMMA SetVoted ==
    ASSUME NEW o, NEW A, Good(o, A), NEW h \in Nat
    PROVE  Good([o EXCEPT !.sm.voted = @ \cup {h}], A)
  <1> DEFINE s == o.sm
             S == s.voted \cup {h}
             t == [s EXCEPT !.voted = S]
  <1>1. o = Out(s, o.acts) /\ s \in Books /\ S \in SUBSET Nat
    BY Fields
  <1>2. [o EXCEPT !.sm.voted = @ \cup {h}] = Out(t, o.acts)
    <2>1. [o EXCEPT !.sm.voted = @ \cup {h}] = [Out(s, o.acts) EXCEPT !.sm.voted = @ \cup {h}]
      BY <1>1
    <2> HIDE DEF s
    <2> QED BY <2>1 DEF Out
  <1>3. t \in Books /\ SameTimers(s, t)
    <2> HIDE DEF s, S
    <2> QED BY <1>1 DEF Books, SameTimers
  <1> HIDE DEF t
  <1> QED BY <1>2, <1>3, Updates

LEMMA StatusTalk ==
    ASSUME NEW d \in AllCheckpoints, NEW t \in Accepted .. Finalized
    PROVE  Status(d, t) \in Talk
  BY DEF Talk, Status, Hashes

LEMMA MacroProposalOK ==
    ASSUME NEW o, NEW A, Good(o, A), NEW d \in Checkpoints, NEW p \in on_macro_proposal(o, d)
    PROVE  Good(p, A)
  <1> DEFINE h == d.height
             c == clear_backup(o, h)
             c1 == [c EXCEPT !.sm.voted = @ \cup {h}]
             c2 == [c1 EXCEPT !.sm.proposal_seen = @ \cup {h}]
             a == Act("BroadcastBlsPartial", Subnet)
             b == Status(d, SoftConfirmed)
             x == Say(c2, a)
  <1>1. h \in Nat /\ d \in AllCheckpoints
    BY NodeAssumption DEF Checkpoints, AllCheckpoints
  <1>2. p = o \/ p = Say(x, b)
    BY DEF on_macro_proposal
  <1> HIDE DEF h
  <1>3. Good(c, A)
    BY ClearsBackup
  <1> HIDE DEF c
  <1>4. Good(c1, A)
    BY <1>1, <1>3, SetVoted
  <1> HIDE DEF c1
  <1>5. Good(c2, A)
    BY <1>1, <1>4, SetProposalSeen
  <1>6. a \in Talk
    BY PartialTalk
  <1>7. b \in Talk
    BY <1>1, StatusTalk DEF SoftConfirmed, Accepted, Finalized
  <1> HIDE DEF c2, a, b
  <1>8. Good(x, A)
    BY <1>5, <1>6, Says
  <1> HIDE DEF x
  <1> QED BY <1>2, <1>7, <1>8, Says

\* In every list of actions a checkpoint is persisted before its certificate.
Ordered(acts) ==
    \A i \in DOMAIN acts : acts[i].kind = "PersistMacroQc" =>
        \A c \in AllCheckpoints : hash(c) = acts[i].body =>
            \E j \in DOMAIN acts : j < i /\ acts[j] = Act("PersistMacroCheckpoint", c)

StepOK(o, A) == /\ BooksOK(o.sm)
                /\ o.acts \in Seq(Actions)
                /\ Covered(o.sm, o.acts, A)
                /\ CancelsOwn(o.sm, o.acts)
                /\ Ordered(o.acts)

LEMMA GoodStep ==
    ASSUME NEW o, NEW A, Good(o, A)
    PROVE  StepOK(o, A)
  <1>1. OK(o.sm, o.acts, A)
    BY DEF Good
  <1>2. \A i \in DOMAIN o.acts : o.acts[i].kind # "PersistMacroQc"
    <2> SUFFICES ASSUME NEW i \in DOMAIN o.acts
                 PROVE  o.acts[i].kind # "PersistMacroQc"
      OBVIOUS
    <2>1. o.acts[i] \in Talk \cup Timing
      BY <1>1 DEF OK
    <2> QED BY <2>1 DEF Talk, Timing
  <1>3. o.acts \in Seq(Actions)
    <2>1. Talk \cup Timing \subseteq Actions
      BY DEF Actions
    <2>2. o.acts \in Seq(Talk \cup Timing)
      BY <1>1 DEF OK
    <2> QED BY <2>1, <2>2
  <1> QED BY <1>1, <1>2, <1>3 DEF OK, StepOK, Ordered

LEMMA ConcatParts ==
    ASSUME NEW S, NEW r \in Seq(S), NEW f \in Seq(S)
    PROVE  /\ Len(r \o f) = Len(r) + Len(f)
           /\ \A i \in 1 .. Len(r) : (r \o f)[i] = r[i]
           /\ \A i \in DOMAIN (r \o f) :
                i > Len(r) => i - Len(r) \in DOMAIN f /\ (r \o f)[i] = f[i - Len(r)]
  <1>1. r \o f \in Seq(S) /\ Len(r \o f) = Len(r) + Len(f)
    OBVIOUS
  <1>2. \A i \in 1 .. Len(r) : (r \o f)[i] = r[i]
    OBVIOUS
  <1>3. ASSUME NEW i \in DOMAIN (r \o f), i > Len(r)
        PROVE  i - Len(r) \in DOMAIN f /\ (r \o f)[i] = f[i - Len(r)]
    BY <1>1, <1>3
  <1> QED BY <1>1, <1>2, <1>3

LEMMA HashOnce ==
    ASSUME NEW c \in AllCheckpoints, NEW d \in AllCheckpoints, hash(c) = hash(d)
    PROVE  c = d
  BY DEF hash, AllCheckpoints

\* The books after an adoption fit what is said of any list of actions.
LEMMA AdoptsOK ==
    ASSUME NEW s, NEW A, Good(Out(s, <<>>), A), NEW c \in AllCheckpoints
    PROVE  OK(AdoptedBooks(Out(s, <<>>), c), <<>>, A)
  <1> DEFINE h == c.height
             o == Out(s, <<>>)
             b == clear_backup(o, h)
             d == clear_mode_b(b, h)
             S == d.sm.adopted \cup {c}
             T == d.sm.proposal_seen \cup {h}
             t1 == [d.sm EXCEPT !.adopted = S]
             t2 == [t1 EXCEPT !.proposal_seen = T]
             n == h + 1
             t == [t2 EXCEPT !.height = n]
  <1>1. h \in Nat /\ n \in Nat
    BY DEF AllCheckpoints
  <1>2. AdoptedBooks(o, c)
          = [d.sm EXCEPT !.adopted = @ \cup {c}, !.proposal_seen = @ \cup {h}, !.height = n]
    BY DEF AdoptedBooks
  <1> HIDE DEF h, n
  <1>3. Good(b, A) /\ b.acts = o.acts
    BY ClearsBackup
  <1>4. Good(d, A) /\ d.acts = o.acts
    <2> HIDE DEF b
    <2> QED BY <1>3, ClearsModeB
  <1>5. o.acts = <<>>
    BY OutParts
  <1> HIDE DEF b, d, o
  <1>6. d.sm \in Books /\ S \in SUBSET AllCheckpoints /\ T \in SUBSET Nat
    BY <1>1, <1>4, Fields
  <1>7. t1 \in Books /\ SameTimers(d.sm, t1) /\ t1.proposal_seen = d.sm.proposal_seen
    <2> HIDE DEF S
    <2> QED BY <1>6 DEF Books, SameTimers
  <1>8. t2 \in Books /\ SameTimers(t1, t2)
    <2> HIDE DEF t1, T
    <2> QED BY <1>6, <1>7 DEF Books, SameTimers
  <1>9. t \in Books /\ SameTimers(t2, t)
    <2> HIDE DEF t2
    <2> QED BY <1>1, <1>8 DEF Books, SameTimers
  <1>10. AdoptedBooks(o, c) = t
    <2> DEFINE e == d.sm
    <2>1. [e EXCEPT !.adopted = @ \cup {c}, !.proposal_seen = @ \cup {h}, !.height = n]
            = [[[e EXCEPT !.adopted = e.adopted \cup {c}]
                   EXCEPT !.proposal_seen = e.proposal_seen \cup {h}] EXCEPT !.height = n]
      <3> HIDE DEF e
      <3>1. e \in Books
        BY <1>6 DEF e
      <3> QED BY <3>1 DEF Books
    <2> QED BY <1>2, <2>1
  <1>11. SameTimers(d.sm, t)
    BY <1>7, <1>8, <1>9 DEF SameTimers
  <1>12. OK(d.sm, <<>>, A)
    BY <1>4, <1>5 DEF Good
  <1> HIDE DEF t
  <1>13. OK(t, <<>>, A)
    BY <1>9, <1>11, <1>12, Keeps
  <1> QED BY <1>10, <1>13 DEF o

LEMMA FinalizesTalk ==
    ASSUME NEW o, NEW c, o.sm.cands \subseteq AllCheckpoints, NEW fin \in Finalizes(o, c)
    PROVE  fin \in Seq(Talk)
  <1>1. CASE fin = <<>>
    BY <1>1
  <1>2. CASE fin # <<>>
    <2>1. PICK d \in o.sm.cands : fin = <<Status(d, Finalized)>>
      BY <1>2 DEF Finalizes
    <2>2. Status(d, Finalized) \in Talk
      BY <2>1, StatusTalk DEF Accepted, Finalized
    <2> HIDE DEF Status
    <2> QED BY <2>1, <2>2
  <1> QED BY <1>1, <1>2

\* The actions of an adoption: the checkpoint, its certificate, and statuses.
LEMMA AdoptionActs ==
    ASSUME NEW c \in AllCheckpoints, NEW st \in Talk, NEW fin \in Seq(Talk),
           NEW q, q = <<Act("PersistMacroCheckpoint", c), Act("PersistMacroQc", hash(c)), st>> \o fin
    PROVE  /\ q \in Seq(Actions)
           /\ Ordered(q)
           /\ \A i \in DOMAIN q : q[i].kind # "CancelTimer"
  <1> DEFINE cp == Act("PersistMacroCheckpoint", c)
             qc == Act("PersistMacroQc", hash(c))
             r == <<cp, qc, st>>
  <1>1. cp \in Persisting /\ qc \in Persisting
    BY DEF Persisting, Act, Hashes
  <1>2. cp.kind = "PersistMacroCheckpoint" /\ qc.kind = "PersistMacroQc" /\ qc.body = hash(c)
    BY DEF Act
  <1>3. q = r \o fin
    OBVIOUS
  <1>4. cp = Act("PersistMacroCheckpoint", c)
    OBVIOUS
  <1> HIDE DEF cp, qc
  <1>5. r \in Seq(Actions) /\ Len(r) = 3 /\ r[1] = cp /\ r[2] = qc /\ r[3] = st
    BY <1>1 DEF Actions
  <1>6. fin \in Seq(Actions) /\ \A j \in DOMAIN fin : fin[j] \in Talk
    BY DEF Actions
  <1> HIDE DEF r
  <1>7. q \in Seq(Actions)
    BY <1>3, <1>5, <1>6, ConcatFacts
  <1>8. /\ Len(r \o fin) = Len(r) + Len(fin)
        /\ \A i \in 1 .. Len(r) : (r \o fin)[i] = r[i]
        /\ \A i \in DOMAIN (r \o fin) : i > Len(r) =>
             i - Len(r) \in DOMAIN fin /\ (r \o fin)[i] = fin[i - Len(r)]
    BY <1>5, <1>6, ConcatParts
  <1> DEFINE n == Len(r)
  <1> HIDE DEF n
  <1>9. n = 3 /\ Len(q) = n + Len(fin) /\ (\A i \in 1 .. n : q[i] = r[i])
        /\ \A i \in DOMAIN q : i > n => i - n \in DOMAIN fin /\ q[i] = fin[i - n]
    BY <1>3, <1>5, <1>8 DEF n
  <1>10. Len(q) = 3 + Len(fin) /\ \A i \in 1 .. 3 : q[i] = r[i]
    BY <1>9
  <1>11. \A i \in DOMAIN q : i > 3 => i - 3 \in DOMAIN fin /\ q[i] = fin[i - 3]
    BY <1>9
  <1>12. ASSUME NEW i \in DOMAIN q, i # 1, ~(i = 2 /\ q[i] = qc)
         PROVE  q[i] \in Talk
    <2>1. i \in Nat /\ i >= 1
      BY <1>7
    <2>2. CASE i = 2
      BY <2>2, <1>5, <1>10, <1>12
    <2>3. CASE i = 3
      BY <2>3, <1>5, <1>10
    <2>4. CASE i > 3
      BY <2>4, <1>6, <1>11
    <2> QED BY <2>1, <2>2, <2>3, <2>4, <1>12
  <1>13. q[1] = cp /\ 1 \in DOMAIN q
    BY <1>5, <1>6, <1>7, <1>10
  <1>14. \A x \in Talk : x.kind # "PersistMacroQc" /\ x.kind # "CancelTimer"
    BY DEF Talk
  <1>15. \A i \in DOMAIN q : q[i].kind # "CancelTimer"
    BY <1>2, <1>12, <1>13, <1>14
  <1>16. Ordered(q)
    <2> SUFFICES ASSUME NEW i \in DOMAIN q, q[i].kind = "PersistMacroQc",
                        NEW d \in AllCheckpoints, hash(d) = q[i].body
                 PROVE  \E j \in DOMAIN q :
                           j < i /\ q[j] = Act("PersistMacroCheckpoint", d)
      BY DEF Ordered
    <2>1. i = 2 /\ q[i] = qc
      BY <1>2, <1>12, <1>13, <1>14
    <2>2. d = c
      BY <1>2, <2>1, HashOnce
    <2>3. 1 \in DOMAIN q /\ 1 < i /\ q[1] = Act("PersistMacroCheckpoint", d)
      BY <1>4, <1>13, <2>1, <2>2
    <2> QED BY <2>3
  <1> QED BY <1>7, <1>15, <1>16

LEMMA MacroQcOK ==
    ASSUME NEW s, NEW A, Good(Out(s, <<>>), A), NEW x \in Hashes,
           NEW p \in on_macro_qc_received(Out(s, <<>>), x)
    PROVE  StepOK(p, A)
  <1> DEFINE o == Out(s, <<>>)
  <1>1. CASE p = o
    BY <1>1, GoodStep
  <1>2. CASE p # o
    <2>a. PICK c \in Certified(o, x) :
             \E fin \in Finalizes(o, c) :
               p = Out(AdoptedBooks(o, c),
                       <<Act("PersistMacroCheckpoint", c), Act("PersistMacroQc", x),
                         Status(c, Justified)>> \o fin)
      BY <1>2, Zenon DEF on_macro_qc_received
    <2>1. PICK fin \in Finalizes(o, c) :
             p = Out(AdoptedBooks(o, c),
                     <<Act("PersistMacroCheckpoint", c), Act("PersistMacroQc", x),
                       Status(c, Justified)>> \o fin)
      BY <2>a, Zenon
    <2>2. o.sm.cands \subseteq AllCheckpoints
      <3>1. o.sm \in Books
        BY DEF Good, OK, BooksOK
      <3> HIDE DEF o
      <3> QED BY <3>1 DEF Books
    <2>3. c \in AllCheckpoints /\ hash(c) = x
      BY <2>2 DEF Certified
    <2> DEFINE t == AdoptedBooks(o, c)
               st == Status(c, Justified)
               q == <<Act("PersistMacroCheckpoint", c), Act("PersistMacroQc", x), st>> \o fin
    <2>4. OK(t, <<>>, A)
      BY <2>3, AdoptsOK
    <2>5. st \in Talk
      BY <2>3, StatusTalk DEF Accepted, Justified, Finalized
    <2>6. fin \in Seq(Talk)
      <3> HIDE DEF o
      <3> QED BY <2>1, <2>2, FinalizesTalk
    <2>7. p.sm = t /\ p.acts = q
      BY <2>1, OutParts
    <2> HIDE DEF st
    <2>8. q = <<Act("PersistMacroCheckpoint", c), Act("PersistMacroQc", hash(c)), st>> \o fin
      BY <2>3
    <2> HIDE DEF t, q
    <2>9. /\ q \in Seq(Actions) /\ Ordered(q)
          /\ \A i \in DOMAIN q : q[i].kind # "CancelTimer"
      BY <2>3, <2>5, <2>6, <2>8, AdoptionActs
    <2>10. Covered(t, q, A)
      BY <2>4 DEF OK, Covered
    <2>11. CancelsOwn(t, q)
      BY <2>9 DEF CancelsOwn
    <2> QED BY <2>4, <2>7, <2>9, <2>10, <2>11 DEF StepOK, OK
  <1> QED BY <1>1, <1>2

\* What every layer waits for before the step.
Waiting(s) == [l \in Layer |-> Awaited(s, l)]

LEMMA StartGood ==
    ASSUME NEW s, BooksOK(s)
    PROVE  Good(Out(s, <<>>), Waiting(s))
  <1>1. <<>> \in Seq(Talk \cup Timing) /\ DOMAIN <<>> = {}
    OBVIOUS
  <1>2. Covered(s, <<>>, Waiting(s)) /\ CancelsOwn(s, <<>>)
    BY <1>1 DEF Covered, CancelsOwn, Waiting
  <1>3. OK(s, <<>>, Waiting(s))
    BY <1>1, <1>2 DEF OK
  <1> QED BY <1>3, OutGood

\* StateMachine::step answers every event with books and actions that fit, and
\* nobody waits for a timer that has fired.
LEMMA Steps ==
    ASSUME NEW s, BooksOK(s), NEW e \in Events, NEW p \in step(s, e)
    PROVE  /\ StepOK(p, Waiting(s))
           /\ e.kind = "TimerFired" => \A l \in Layer : e.body \notin Awaited(p.sm, l)
  <1> DEFINE o == Out(s, <<>>)
             A == Waiting(s)
  <1>1. Good(o, A)
    BY StartGood
  <1> HIDE DEF A
  <1>2. CASE e \in [kind : {"CertifiedVertexReceived"}, body : Certs \cup OwnCerts]
    <2>1. e.kind = "CertifiedVertexReceived"
      BY <1>2
    <2>2. p \in on_certified_vertex(o)
      BY <2>1 DEF step
    <2> HIDE DEF o
    <2>3. Good(p, A)
      BY <1>1, <2>2, CertifiedVertexOK
    <2> QED BY <2>1, <2>3, GoodStep DEF A
  <1>3. CASE e \in [kind : {"TimerFired"}, body : TimerId]
    <2>1. e.kind = "TimerFired"
      BY <1>3
    <2>2. p \in on_timer_fired(o, e.body)
      BY <2>1 DEF step
    <2> HIDE DEF o
    <2>3. Good(p, A) /\ \A l \in Layer : e.body \notin Awaited(p.sm, l)
      BY <1>1, <2>2, TimerOK
    <2> QED BY <2>3, GoodStep DEF A
  <1>4. CASE e \in [kind : {"MacroProposalReceived"}, body : Checkpoints]
    <2>1. e.kind = "MacroProposalReceived" /\ e.body \in Checkpoints
      BY <1>4
    <2>2. p \in on_macro_proposal(o, e.body)
      BY <2>1 DEF step
    <2> HIDE DEF o
    <2>3. Good(p, A)
      BY <1>1, <2>1, <2>2, MacroProposalOK
    <2> QED BY <2>1, <2>3, GoodStep DEF A
  <1>7. CASE e \in [kind : {"MacroQcReceived"}, body : Hashes]
    <2>1. e.kind = "MacroQcReceived" /\ e.body \in Hashes
      BY <1>7
    <2>2. p \in on_macro_qc_received(Out(s, <<>>), e.body)
      BY <2>1 DEF step
    <2>3. StepOK(p, A)
      BY <1>1, <2>1, <2>2, MacroQcOK
    <2> QED BY <2>1, <2>3 DEF A
  <1>5. CASE e \in [kind : {"VertexProposalReceived"}, body : Proposals]
    <2>1. e.kind = "VertexProposalReceived" /\ e.body \in Proposals
      BY <1>5
    <2>2. p \in on_vertex_proposal(o, e.body)
      BY <2>1 DEF step
    <2> HIDE DEF o
    <2>3. Good(p, A)
      BY <1>1, <2>1, <2>2, VertexProposalOK
    <2> QED BY <2>1, <2>3, GoodStep DEF A
  <1>6. CASE e \in [kind : {"VertexPartialReceived"}, body : {"vote"}]
    <2>1. e.kind = "VertexPartialReceived"
      BY <1>6
    <2>2. p \in on_vertex_partial(o)
      BY <2>1 DEF step
    <2> HIDE DEF o
    <2>3. Good(p, A)
      BY <1>1, <2>2, VertexPartialOK
    <2> QED BY <2>1, <2>3, GoodStep DEF A
  <1> QED BY <1>2, <1>3, <1>4, <1>5, <1>6, <1>7 DEF Events

LEMMA FreshOK == BooksOK(FreshBooks) /\ \A l \in Layer : Awaited(FreshBooks, l) = {}
  <1>1. <<>> \in TimerMap /\ DOMAIN <<>> = {}
    <2>1. <<>> \in [{} -> TimerId]
      OBVIOUS
    <2> QED BY <2>1 DEF TimerMap
  <1>2. FreshBooks \in Books
    <2>1. MaxRound \in Nat /\ MaxTimer \in Nat
      BY NodeAssumption
    <2> QED BY <1>1, <2>1 DEF FreshBooks, Books
  <1>3. \A l \in Layer : Awaited(FreshBooks, l) = {}
    BY <1>1 DEF Awaited, FreshBooks, Range, Layer
  <1>4. IdsOnce(FreshBooks)
    BY <1>1 DEF IdsOnce, FreshBooks
  <1> QED BY <1>2, <1>3, <1>4 DEF BooksOK, IdsBelow

\* The first proposal, made at boot.
LEMMA BootOK ==
    ASSUME NEW o, o = propose_round(Out([FreshBooks EXCEPT !.started = TRUE], <<>>), 0)
    PROVE  StepOK(o, Waiting(FreshBooks))
  <1> DEFINE s == [FreshBooks EXCEPT !.started = TRUE]
             A == Waiting(FreshBooks)
  <1>1. s \in Books /\ SameTimers(FreshBooks, s)
    <2> DEFINE f == FreshBooks
    <2>1. f \in Books
      BY FreshOK DEF BooksOK
    <2> HIDE DEF f
    <2>2. [f EXCEPT !.started = TRUE] \in Books /\ SameTimers(f, [f EXCEPT !.started = TRUE])
      BY <2>1 DEF Books, SameTimers
    <2> QED BY <2>2 DEF f
  <1>2. OK(FreshBooks, <<>>, A)
    BY FreshOK, StartGood, OutParts DEF Good
  <1>3. FreshBooks.next["L1"] = 0
    BY DEF FreshBooks, Layer
  <1> HIDE DEF A, s
  <1>4. OK(s, <<>>, A)
    BY <1>1, <1>2, Keeps
  <1>5. Good(Out(s, <<>>), A)
    BY <1>4, OutGood
  <1>6. CanArm(Out(s, <<>>), "L1")
    BY <1>1, <1>3, OutParts, NodeAssumption DEF CanArm, SameTimers
  <1>7. 0 \in 0 .. MaxRound
    BY NodeAssumption
  <1>8. Good(o, A)
    BY <1>5, <1>6, <1>7, Proposes DEF s
  <1> QED BY <1>8, GoodStep DEF A

-----------------------------------------------------------------------------
(***************************************************************************)
(* The host.                                                               *)
(***************************************************************************)

\* A timer that layer l waits for is on its way or was lost.
Travels(l, id) ==
    \/ \E i \in DOMAIN actions : actions[i] = Timed("ScheduleTimer", id, l)
    \/ id \in ToSet(scheduleQ)
    \/ id \in tasks
    \/ Act("TimerFired", id) \in ToSet(events)
    \/ <<l, id>> \in lost.timers

LossesOK == lost = [certs |-> lost.certs, timers |-> lost.timers]

Survives == \A l \in Layer : \A id \in Awaited(sm, l) : Travels(l, id)

\* Types and capacities, books that fit, no layer cancelling what it waits for,
\* no books without a validator set, and every awaited timer on its way.
NodeInv ==
    /\ phase \in {"down", "refused", "running"} /\ cfg \in Configs
    /\ events \in Seq(Events) /\ Len(events) <= EventCap
    /\ actions \in Seq(Actions)
    /\ scheduleQ \in Seq(TimerId) /\ Len(scheduleQ) <= ScheduleCap
    /\ tasks \subseteq TimerId
    /\ BooksOK(sm)
    /\ set_for(cfg, 0) = {} => sm = FreshBooks
    /\ CancelsOwn(sm, actions)
    /\ LossesOK
    /\ Survives

\* What is in a queue after each of its operations.
LEMMA QueueFacts ==
    ASSUME NEW S, NEW q \in Seq(S)
    PROVE  /\ \A x \in S : /\ Append(q, x) \in Seq(S)
                           /\ ToSet(Append(q, x)) = ToSet(q) \cup {x}
                           /\ Len(Append(q, x)) = Len(q) + 1
           /\ ToSet(q) \subseteq S
           /\ q # <<>> => /\ Tail(q) \in Seq(S) /\ Head(q) \in S
                          /\ ToSet(q) = ToSet(Tail(q)) \cup {Head(q)}
                          /\ Len(Tail(q)) = Len(q) - 1
                          /\ \A i \in DOMAIN q : i = 1 \/ (i - 1 \in DOMAIN Tail(q) /\ Tail(q)[i - 1] = q[i])
                          /\ \A i \in DOMAIN Tail(q) : i + 1 \in DOMAIN q /\ Tail(q)[i] = q[i + 1]
                          /\ q[1] = Head(q) /\ 1 \in DOMAIN q
  <1>1. ASSUME NEW x \in S
        PROVE  /\ Append(q, x) \in Seq(S)
               /\ ToSet(Append(q, x)) = ToSet(q) \cup {x}
               /\ Len(Append(q, x)) = Len(q) + 1
    <2>1. /\ Append(q, x) \in Seq(S) /\ Len(Append(q, x)) = Len(q) + 1
          /\ DOMAIN Append(q, x) = DOMAIN q \cup {Len(q) + 1}
          /\ \A i \in DOMAIN q : Append(q, x)[i] = q[i]
          /\ Append(q, x)[Len(q) + 1] = x
      BY AppendFacts
    <2> QED BY <2>1 DEF ToSet
  <1>2. ToSet(q) \subseteq S
    BY DEF ToSet
  <1>3. ASSUME q # <<>>
        PROVE  /\ Tail(q) \in Seq(S) /\ Head(q) \in S
               /\ ToSet(q) = ToSet(Tail(q)) \cup {Head(q)}
               /\ Len(Tail(q)) = Len(q) - 1
               /\ \A i \in DOMAIN q : i = 1 \/ (i - 1 \in DOMAIN Tail(q) /\ Tail(q)[i - 1] = q[i])
               /\ \A i \in DOMAIN Tail(q) : i + 1 \in DOMAIN q /\ Tail(q)[i] = q[i + 1]
               /\ q[1] = Head(q) /\ 1 \in DOMAIN q
    <2>1. Tail(q) \in Seq(S) /\ Head(q) \in S /\ Len(Tail(q)) = Len(q) - 1 /\ q[1] = Head(q)
          /\ Len(q) \in Nat /\ Len(q) >= 1
      BY <1>3
    <2>2. \A i \in DOMAIN Tail(q) : i + 1 \in DOMAIN q /\ Tail(q)[i] = q[i + 1]
      BY <1>3, <2>1
    <2>3. \A i \in DOMAIN q : i = 1 \/ (i - 1 \in DOMAIN Tail(q) /\ Tail(q)[i - 1] = q[i])
      BY <1>3, <2>1
    <2>4. ToSet(q) = ToSet(Tail(q)) \cup {Head(q)}
      <3>1. 1 \in DOMAIN q
        BY <2>1
      <3>2. ASSUME NEW x \in ToSet(q)
            PROVE  x \in ToSet(Tail(q)) \cup {Head(q)}
        <4>1. PICK i \in DOMAIN q : x = q[i]
          BY DEF ToSet
        <4>2. CASE i = 1
          BY <2>1, <4>1, <4>2
        <4>3. CASE i - 1 \in DOMAIN Tail(q) /\ Tail(q)[i - 1] = q[i]
          BY <4>1, <4>3 DEF ToSet
        <4> QED BY <2>3, <4>2, <4>3
      <3>3. ToSet(Tail(q)) \cup {Head(q)} \subseteq ToSet(q)
        BY <2>1, <2>2, <3>1 DEF ToSet
      <3> QED BY <3>2, <3>3
    <2>5. 1 \in DOMAIN q
      BY <2>1
    <2> QED BY <2>1, <2>2, <2>3, <2>4, <2>5
  <1> QED BY <1>1, <1>2, <1>3

LEMMA OfferFacts ==
    ASSUME NEW S, NEW q \in Seq(S), NEW x \in S, NEW cap \in Nat, Len(q) <= cap
    PROVE  /\ Offer(q, cap, x) \in Seq(S) /\ Len(Offer(q, cap, x)) <= cap
           /\ ToSet(q) \subseteq ToSet(Offer(q, cap, x))
           /\ Len(q) # cap => x \in ToSet(Offer(q, cap, x))
  <1>1. Len(q) \in Nat
    OBVIOUS
  <1>2. /\ Append(q, x) \in Seq(S)
        /\ ToSet(Append(q, x)) = ToSet(q) \cup {x}
        /\ Len(Append(q, x)) = Len(q) + 1
    BY QueueFacts
  <1>3. CASE Len(q) < cap
    BY <1>1, <1>2, <1>3 DEF Offer
  <1>4. CASE ~(Len(q) < cap)
    BY <1>1, <1>4 DEF Offer
  <1> QED BY <1>3, <1>4

\* Gossip decodes to events, or not at all.
LEMMA InboundEvent ==
    ASSUME NEW m \in PeerMessages, inbound_message(m) \notin {NoEvent, DecodeError}
    PROVE  inbound_message(m) \in Events
  <1>1. CASE \E c \in Certs : m = outbound_broadcast(Act("BroadcastCertifiedVertex", c))
    <2>1. PICK c \in Certs : m = outbound_broadcast(Act("BroadcastCertifiedVertex", c))
      BY <1>1
    <2>2. /\ m.topic[1] = "certified-vertex" /\ m.type = "certified-vertex" /\ m.data = c
      BY <2>1 DEF outbound_broadcast, Act, TopicOf
    <2>3. inbound_message(m) = [kind |-> "CertifiedVertexReceived", body |-> c]
      BY <2>2 DEF inbound_message, EventOf
    <2> QED BY <2>3 DEF Events
  <1>2. CASE \E c \in Proposals : m = outbound_broadcast(Act("BroadcastVertexProposal", c))
    <2>1. PICK c \in Proposals : m = outbound_broadcast(Act("BroadcastVertexProposal", c))
      BY <1>2
    <2>2. /\ m.topic[1] = "vertex-proposal" /\ m.type = "vertex-proposal" /\ m.data = c
      BY <2>1 DEF outbound_broadcast, Act, TopicOf
    <2>3. inbound_message(m) = [kind |-> "VertexProposalReceived", body |-> c]
      BY <2>2 DEF inbound_message, EventOf
    <2> QED BY <2>3 DEF Events
  <1>3. CASE \E c \in Checkpoints : m = outbound_broadcast(Act("BroadcastMacroProposal", c))
    <2>1. PICK c \in Checkpoints : m = outbound_broadcast(Act("BroadcastMacroProposal", c))
      BY <1>3
    <2>2. /\ m.topic[1] = "macro-proposal" /\ m.type = "macro-proposal" /\ m.data = c
      BY <2>1 DEF outbound_broadcast, Act, TopicOf
    <2>3. inbound_message(m) = [kind |-> "MacroProposalReceived", body |-> c]
      BY <2>2 DEF inbound_message, EventOf
    <2> QED BY <2>3 DEF Events
  <1>4. CASE \E c \in Checkpoints : m = outbound_broadcast(Act("BroadcastMacroQc", hash(c)))
    <2>1. PICK c \in Checkpoints : m = outbound_broadcast(Act("BroadcastMacroQc", hash(c)))
      BY <1>4
    <2>2. /\ m.topic[1] = "macro-qc" /\ m.type = "macro-qc" /\ m.data = hash(c)
      BY <2>1 DEF outbound_broadcast, Act, TopicOf
    <2>3. inbound_message(m) = [kind |-> "MacroQcReceived", body |-> hash(c)]
      BY <2>2 DEF inbound_message, EventOf
    <2>4. hash(c) \in Hashes
      BY NodeAssumption DEF Hashes, Checkpoints, AllCheckpoints
    <2> QED BY <2>3, <2>4 DEF Events
  <1>5. CASE m = outbound_broadcast(Act("BroadcastVertexPartial", "vote"))
    <2>2. /\ m.topic[1] = "vertex-partial" /\ m.type = "vertex-partial" /\ m.data = "vote"
      BY <1>5 DEF outbound_broadcast, Act, TopicOf
    <2>3. inbound_message(m) = [kind |-> "VertexPartialReceived", body |-> "vote"]
      BY <2>2 DEF inbound_message, EventOf
    <2> QED BY <2>3 DEF Events
  <1>6. CASE m = [topic |-> <<"macro-qc", 0>>, type |-> "chunk", data |-> "garbled"]
    <2>1. m.topic[1] = "macro-qc" /\ m.type = "chunk"
      BY <1>6
    <2>2. inbound_message(m) = DecodeError
      BY <2>1 DEF inbound_message, EventOf
    <2> QED BY <2>2
  <1>7. \/ \E c \in Certs : m = outbound_broadcast(Act("BroadcastCertifiedVertex", c))
        \/ \E c \in Proposals : m = outbound_broadcast(Act("BroadcastVertexProposal", c))
        \/ \E c \in Checkpoints : m = outbound_broadcast(Act("BroadcastMacroProposal", c))
        \/ \E c \in Checkpoints : m = outbound_broadcast(Act("BroadcastMacroQc", hash(c)))
        \/ m = outbound_broadcast(Act("BroadcastVertexPartial", "vote"))
        \/ m = [topic |-> <<"macro-qc", 0>>, type |-> "chunk", data |-> "garbled"]
    BY Zenon DEF PeerMessages
  <1> QED BY <1>1, <1>2, <1>3, <1>4, <1>5, <1>6, <1>7

LEMMA Capacities == EventCap \in Nat /\ ScheduleCap \in Nat /\ MaxTimer \in Nat
  BY NodeAssumption

LEMMA InitNode == Init => NodeInv
  <1> SUFFICES ASSUME Init PROVE NodeInv
    OBVIOUS
  <1>1. <<>> \in Seq(Events) /\ <<>> \in Seq(Actions) /\ <<>> \in Seq(TimerId) /\ Len(<<>>) = 0
        /\ DOMAIN <<>> = {}
    OBVIOUS
  <1>2. CancelsOwn(sm, actions)
    BY <1>1 DEF Init, CancelsOwn
  <1>3. Survives
    BY FreshOK DEF Init, Survives
  <1>4. LossesOK
    BY DEF Init, NothingLost, LossesOK
  <1> QED BY <1>1, <1>2, <1>3, <1>4, FreshOK, Capacities DEF Init, NodeInv

LEMMA BootNode == NodeInv /\ Boot => NodeInv'
  <1> SUFFICES ASSUME NodeInv, Boot PROVE NodeInv'
    OBVIOUS
  <1> DEFINE o == propose_round(Out([FreshBooks EXCEPT !.started = TRUE], <<>>), 0)
             proposes == ~Refuses(cfg) /\ HasSwarm(cfg) /\ set_for(cfg, 0) # {}
  <1>1. /\ phase' \in {"down", "refused", "running"}
        /\ UNCHANGED <<cfg, events, scheduleQ, tasks, lost>>
    BY DEF Boot
  <1>2. CASE proposes
    <2>1. sm' = o.sm /\ actions' = o.acts
      BY <1>2 DEF Boot
    <2>2. StepOK(o, Waiting(FreshBooks))
      BY BootOK
    <2> HIDE DEF o
    <2>3. BooksOK(sm') /\ actions' \in Seq(Actions) /\ CancelsOwn(sm', actions')
      BY <2>1, <2>2 DEF StepOK
    <2>4. Survives'
      <3> SUFFICES ASSUME NEW l \in Layer, NEW id \in Awaited(sm', l)
                   PROVE  Travels(l, id)'
        BY DEF Survives
      <3>1. Waiting(FreshBooks)[l] = {}
        BY FreshOK DEF Waiting
      <3>2. \E i \in DOMAIN actions' : actions'[i] = Timed("ScheduleTimer", id, l)
        BY <2>1, <2>2, <3>1 DEF StepOK, Covered
      <3> QED BY <3>2 DEF Travels
    <2>5. set_for(cfg', 0) # {}
      BY <1>1, <1>2
    <2> QED BY <1>1, <2>3, <2>4, <2>5 DEF NodeInv, LossesOK
  <1>3. CASE ~proposes
    <2>1. sm' = FreshBooks /\ actions' = <<>>
      BY <1>3 DEF Boot
    <2>2. actions' \in Seq(Actions) /\ DOMAIN actions' = {}
      BY <2>1
    <2>3. CancelsOwn(sm', actions')
      BY <2>2 DEF CancelsOwn
    <2>4. Survives'
      BY <2>1, FreshOK DEF Survives
    <2> QED BY <1>1, <2>1, <2>2, <2>3, <2>4, FreshOK DEF NodeInv, LossesOK
  <1> QED BY <1>2, <1>3

LEMMA InboundNode ==
    ASSUME NodeInv, NEW m \in PeerMessages, Inbound(m)
    PROVE  NodeInv'
  <1> DEFINE e == inbound_message(m)
  <1>1. UNCHANGED <<phase, cfg, actions, scheduleQ, tasks, sm, lost>>
    BY DEF Inbound, memory
  <1>2. events' = events \/ (e \notin {NoEvent, DecodeError} /\ events' = Offer(events, EventCap, e))
    BY DEF Inbound
  <1>3. events' \in Seq(Events) /\ Len(events') <= EventCap /\ ToSet(events) \subseteq ToSet(events')
    <2>1. CASE events' = events
      BY <2>1 DEF NodeInv
    <2>2. CASE e \notin {NoEvent, DecodeError} /\ events' = Offer(events, EventCap, e)
      <3>1. e \in Events
        BY <2>2, InboundEvent
      <3> HIDE DEF e
      <3> QED BY <2>2, <3>1, OfferFacts, Capacities DEF NodeInv
    <2> QED BY <1>2, <2>1, <2>2
  <1>4. Survives'
    BY <1>1, <1>3 DEF NodeInv, Survives, Travels
  <1> QED BY <1>1, <1>3, <1>4 DEF NodeInv, LossesOK

LEMMA ProcessLosses == NodeInv /\ Process => lost'.timers = lost.timers /\ LossesOK'
  <1> SUFFICES ASSUME NodeInv, Process PROVE lost'.timers = lost.timers /\ LossesOK'
    OBVIOUS
  <1>1. \/ lost' = lost
        \/ \E R : lost' = [lost EXCEPT !.certs = R]
    BY DEF Process, ProcessCertificate
  <1>2. lost = [certs |-> lost.certs, timers |-> lost.timers]
    BY DEF NodeInv, LossesOK
  <1>3. CASE lost' = lost
    BY <1>2, <1>3 DEF LossesOK
  <1>4. ASSUME NEW R, lost' = [lost EXCEPT !.certs = R]
        PROVE  lost' = [certs |-> R, timers |-> lost.timers]
    BY <1>2, <1>4
  <1>5. CASE \E R : lost' = [lost EXCEPT !.certs = R]
    <2>1. PICK R : lost' = [certs |-> R, timers |-> lost.timers]
      BY <1>4, <1>5
    <2> QED BY <2>1 DEF LossesOK
  <1> QED BY <1>1, <1>3, <1>5

LEMMA ProcessNode == NodeInv /\ Process => NodeInv'
  <1> SUFFICES ASSUME NodeInv, Process PROVE NodeInv'
    OBVIOUS
  <1> DEFINE e == Head(events)
  <1>1. /\ UNCHANGED <<phase, cfg, scheduleQ, tasks>> /\ lost'.timers = lost.timers /\ LossesOK'
        /\ actions = <<>> /\ events # <<>> /\ events' = Tail(events)
    BY ProcessLosses DEF Process
  <1>2. /\ events' \in Seq(Events) /\ e \in Events
        /\ ToSet(events) = ToSet(events') \cup {e}
        /\ Len(events') <= EventCap
    <2>1. events \in Seq(Events) /\ Len(events) <= EventCap /\ Len(events) \in Nat
      BY DEF NodeInv
    <2>2. /\ Tail(events) \in Seq(Events) /\ Head(events) \in Events
          /\ ToSet(events) = ToSet(Tail(events)) \cup {Head(events)}
          /\ Len(Tail(events)) = Len(events) - 1
      BY <1>1, <2>1, QueueFacts
    <2> QED BY <1>1, <2>1, <2>2, Capacities
  <1> HIDE DEF e
  <1>3. DOMAIN actions = {}
    BY <1>1
  <1>4. CASE sm' = sm /\ actions' = actions /\ (e.kind # "TimerFired" \/ sm = FreshBooks)
    <2>1. Survives'
      <3> SUFFICES ASSUME NEW l \in Layer, NEW id \in Awaited(sm, l)
                   PROVE  Travels(l, id)'
        BY <1>4 DEF Survives
      <3>1. Travels(l, id)
        BY DEF NodeInv, Survives
      <3>2. e.kind # "TimerFired"
        BY <1>4, FreshOK
      <3>3. e # Act("TimerFired", id)
        BY <3>2 DEF Act
      <3> QED BY <1>1, <1>2, <1>4, <3>1, <3>3 DEF Travels
    <2> QED BY <1>1, <1>2, <1>4, <2>1 DEF NodeInv
  <1>5. CASE set_for(cfg, 0) # {} /\ \E o \in step(sm, e) : sm' = o.sm /\ actions' = o.acts
    <2>1. PICK o \in step(sm, e) : sm' = o.sm /\ actions' = o.acts
      BY <1>5
    <2>2. BooksOK(sm)
      BY DEF NodeInv
    <2>3. /\ StepOK(o, Waiting(sm))
          /\ e.kind = "TimerFired" => \A l \in Layer : e.body \notin Awaited(o.sm, l)
      BY <1>2, <2>2, Steps
    <2>4. BooksOK(sm') /\ actions' \in Seq(Actions) /\ CancelsOwn(sm', actions')
      BY <2>1, <2>3 DEF StepOK
    <2>5. Survives'
      <3> SUFFICES ASSUME NEW l \in Layer, NEW id \in Awaited(sm', l)
                   PROVE  Travels(l, id)'
        BY DEF Survives
      <3>1. \/ id \in Waiting(sm)[l]
            \/ \E i \in DOMAIN actions' : actions'[i] = Timed("ScheduleTimer", id, l)
        BY <2>1, <2>3 DEF StepOK, Covered
      <3>2. CASE id \in Waiting(sm)[l]
        <4>1. Travels(l, id)
          BY <3>2 DEF Waiting, NodeInv, Survives
        <4>2. e # Act("TimerFired", id)
          <5>1. CASE e.kind = "TimerFired"
            BY <2>1, <2>3, <5>1 DEF Act
          <5>2. CASE e.kind # "TimerFired"
            BY <5>2 DEF Act
          <5> QED BY <5>1, <5>2
        <4> QED BY <1>1, <1>2, <1>3, <4>1, <4>2 DEF Travels
      <3> QED BY <3>1, <3>2 DEF Travels
    <2> QED BY <1>1, <1>2, <1>5, <2>4, <2>5 DEF NodeInv
  <1>6. \/ /\ sm' = sm /\ actions' = actions
           /\ e.kind = "CertifiedVertexReceived" \/ set_for(cfg, 0) = {}
        \/ set_for(cfg, 0) # {} /\ \E o \in step(sm, e) : sm' = o.sm /\ actions' = o.acts
    BY DEF Process, ProcessCertificate, StepOn, e
  <1>7. CASE sm' = sm /\ actions' = actions /\ (e.kind = "CertifiedVertexReceived" \/ set_for(cfg, 0) = {})
    BY <1>4, <1>7 DEF NodeInv
  <1> QED BY <1>5, <1>6, <1>7

LEMMA CancelsTail ==
    ASSUME NEW s, NEW q \in Seq(Actions), q # <<>>, CancelsOwn(s, q)
    PROVE  CancelsOwn(s, Tail(q))
  <1>1. \A i \in DOMAIN Tail(q) : i + 1 \in DOMAIN q /\ Tail(q)[i] = q[i + 1]
    BY QueueFacts
  <1> QED BY <1>1 DEF CancelsOwn

LEMMA DispatchNode == NodeInv /\ Dispatch => NodeInv'
  <1> SUFFICES ASSUME NodeInv, Dispatch PROVE NodeInv'
    OBVIOUS
  <1> DEFINE a == Head(actions)
             own == a.kind = "BroadcastCertifiedVertex"
             e == Act("CertifiedVertexReceived", a.body)
  <1>1. /\ actions # <<>> /\ actions' = Tail(actions)
        /\ UNCHANGED <<phase, cfg, sm>>
        /\ events' = IF own THEN Offer(events, EventCap, e) ELSE events
        /\ lost'.timers = lost.timers \cup TimersLost(a) /\ LossesOK'
        /\ scheduleQ' = IF a.kind = "ScheduleTimer"
                        THEN Offer(scheduleQ, ScheduleCap, a.body) ELSE scheduleQ
        /\ tasks' = IF a.kind = "CancelTimer" THEN tasks \ {a.body} ELSE tasks
    BY DEF Dispatch, Apply, cancel, LossesOK
  <1>2. actions \in Seq(Actions)
    BY DEF NodeInv
  <1>3. /\ actions' \in Seq(Actions) /\ a \in Actions
        /\ \A i \in DOMAIN actions : i = 1 \/ (i - 1 \in DOMAIN actions' /\ actions'[i - 1] = actions[i])
        /\ actions[1] = a /\ 1 \in DOMAIN actions
    <2>1. /\ Tail(actions) \in Seq(Actions) /\ Head(actions) \in Actions
          /\ \A i \in DOMAIN actions :
                i = 1 \/ (i - 1 \in DOMAIN Tail(actions) /\ Tail(actions)[i - 1] = actions[i])
          /\ actions[1] = Head(actions) /\ 1 \in DOMAIN actions
      BY <1>1, <1>2, QueueFacts
    <2> QED BY <1>1, <2>1
  <1> HIDE DEF a
  <1>4. events' \in Seq(Events) /\ Len(events') <= EventCap /\ ToSet(events) \subseteq ToSet(events')
    <2>1. CASE own
      <3>1. a.body \in OwnCerts
        BY <1>3, <2>1 DEF Actions, Talk, Timing, Persisting
      <3>2. e \in Events
        BY <3>1 DEF Events, Act
      <3> HIDE DEF e
      <3> QED BY <1>1, <2>1, <3>2, OfferFacts, Capacities DEF NodeInv
    <2>2. CASE ~own
      BY <1>1, <2>2 DEF NodeInv
    <2> QED BY <2>1, <2>2
  <1>5. a.kind \in {"ScheduleTimer", "CancelTimer"} => a.body \in TimerId /\ a.by \in Layer
                                                        /\ a = Timed(a.kind, a.body, a.by)
    <2> SUFFICES ASSUME a.kind \in {"ScheduleTimer", "CancelTimer"}
                 PROVE  a.body \in TimerId /\ a.by \in Layer /\ a = Timed(a.kind, a.body, a.by)
      OBVIOUS
    <2>1. a \in Timing
      BY <1>3 DEF Actions, Talk, Persisting
    <2> QED BY <2>1 DEF Timing, Timed
  <1>6. /\ scheduleQ' \in Seq(TimerId) /\ Len(scheduleQ') <= ScheduleCap
        /\ ToSet(scheduleQ) \subseteq ToSet(scheduleQ')
        /\ a.kind = "ScheduleTimer" /\ Len(scheduleQ) # ScheduleCap => a.body \in ToSet(scheduleQ')
    <2>1. CASE a.kind = "ScheduleTimer"
      BY <1>1, <1>5, <2>1, OfferFacts, Capacities DEF NodeInv
    <2>2. CASE a.kind # "ScheduleTimer"
      BY <1>1, <2>2 DEF NodeInv
    <2> QED BY <2>1, <2>2
  <1>7. tasks' \subseteq TimerId
    BY <1>1 DEF NodeInv
  <1>8. CancelsOwn(sm', actions')
    BY <1>1, <1>2, CancelsTail DEF NodeInv
  <1>9. Survives'
    <2> SUFFICES ASSUME NEW l \in Layer, NEW id \in Awaited(sm, l)
                 PROVE  Travels(l, id)'
      BY <1>1 DEF Survives
    <2>1. Travels(l, id)
      BY DEF NodeInv, Survives
    <2>2. CASE \E i \in DOMAIN actions : actions[i] = Timed("ScheduleTimer", id, l)
      <3>1. PICK i \in DOMAIN actions : actions[i] = Timed("ScheduleTimer", id, l)
        BY <2>2
      <3>2. CASE i # 1
        BY <1>3, <3>1, <3>2 DEF Travels
      <3>3. CASE i = 1
        <4>1. a.kind = "ScheduleTimer" /\ a.body = id /\ a.by = l
          BY <1>3, <3>1, <3>3 DEF Timed
        <4>2. Len(scheduleQ) = ScheduleCap => <<l, id>> \in lost'.timers
          BY <1>1, <4>1 DEF TimersLost
        <4> QED BY <1>6, <4>1, <4>2 DEF Travels
      <3> QED BY <3>2, <3>3
    <2>3. CASE id \in tasks
      <3>1. CASE a.kind = "CancelTimer" /\ a.body = id
        <4>1. a.by \in Layer /\ id \notin Awaited(sm, a.by)
          BY <1>3, <1>5, <3>1 DEF NodeInv, CancelsOwn
        <4>2. l # a.by
          BY <4>1
        <4>3. <<l, id>> \in TimersLost(a)
          BY <3>1, <4>2 DEF TimersLost
        <4> QED BY <1>1, <4>3 DEF Travels
      <3>2. CASE ~(a.kind = "CancelTimer" /\ a.body = id)
        BY <1>1, <2>3, <3>2 DEF Travels
      <3> QED BY <3>1, <3>2
    <2>4. CASE id \in ToSet(scheduleQ)
      BY <1>6, <2>4 DEF Travels
    <2>5. CASE Act("TimerFired", id) \in ToSet(events)
      BY <1>4, <2>5 DEF Travels
    <2>6. CASE <<l, id>> \in lost.timers
      BY <1>1, <2>6 DEF Travels
    <2> QED BY <2>1, <2>2, <2>3, <2>4, <2>5, <2>6 DEF Travels
  <1> QED BY <1>1, <1>3, <1>4, <1>6, <1>7, <1>8, <1>9 DEF NodeInv

LEMMA ScheduleNode == NodeInv /\ ScheduleEvent => NodeInv'
  <1> SUFFICES ASSUME NodeInv, ScheduleEvent PROVE NodeInv'
    OBVIOUS
  <1>1. /\ scheduleQ # <<>> /\ scheduleQ' = Tail(scheduleQ)
        /\ tasks' = tasks \cup {Head(scheduleQ)}
        /\ UNCHANGED <<phase, cfg, events, actions, sm, lost>>
    BY DEF ScheduleEvent, schedule_event, cancel
  <1>2. /\ scheduleQ' \in Seq(TimerId) /\ Head(scheduleQ) \in TimerId
        /\ ToSet(scheduleQ) = ToSet(scheduleQ') \cup {Head(scheduleQ)}
        /\ Len(scheduleQ') <= ScheduleCap
    <2>1. scheduleQ \in Seq(TimerId) /\ Len(scheduleQ) <= ScheduleCap /\ Len(scheduleQ) \in Nat
      BY DEF NodeInv
    <2>2. /\ Tail(scheduleQ) \in Seq(TimerId) /\ Head(scheduleQ) \in TimerId
          /\ ToSet(scheduleQ) = ToSet(Tail(scheduleQ)) \cup {Head(scheduleQ)}
          /\ Len(Tail(scheduleQ)) = Len(scheduleQ) - 1
      BY <1>1, <2>1, QueueFacts
    <2> QED BY <1>1, <2>1, <2>2, Capacities
  <1>3. Survives'
    BY <1>1, <1>2 DEF NodeInv, Survives, Travels
  <1> QED BY <1>1, <1>2, <1>3 DEF NodeInv, LossesOK

LEMMA FireNode ==
    ASSUME NodeInv, NEW id \in TimerId, Fire(id)
    PROVE  NodeInv'
  <1> DEFINE e == Act("TimerFired", id)
  <1>1. /\ Len(events) < EventCap /\ tasks' = tasks \ {id} /\ events' = Append(events, e)
        /\ UNCHANGED <<phase, cfg, actions, scheduleQ, sm, lost>>
    BY DEF Fire
  <1>2. e \in Events
    BY DEF Events, Act
  <1> HIDE DEF e
  <1>3. events' \in Seq(Events) /\ Len(events') <= EventCap /\ ToSet(events') = ToSet(events) \cup {e}
    <2>1. events \in Seq(Events) /\ Len(events) \in Nat
      BY DEF NodeInv
    <2>2. /\ Append(events, e) \in Seq(Events)
          /\ ToSet(Append(events, e)) = ToSet(events) \cup {e}
          /\ Len(Append(events, e)) = Len(events) + 1
      BY <1>2, <2>1, QueueFacts
    <2> QED BY <1>1, <2>1, <2>2, Capacities
  <1>4. Survives'
    <2> SUFFICES ASSUME NEW l \in Layer, NEW x \in Awaited(sm, l)
                 PROVE  Travels(l, x)'
      BY <1>1 DEF Survives
    <2>1. Travels(l, x)
      BY DEF NodeInv, Survives
    <2>2. x = id => Act("TimerFired", x) = e
      BY DEF e
    <2> QED BY <1>1, <1>3, <2>1, <2>2 DEF Travels
  <1>5. tasks' \subseteq TimerId
    BY <1>1 DEF NodeInv
  <1> QED BY <1>1, <1>3, <1>4, <1>5 DEF NodeInv, LossesOK

LEMMA CrashNode == NodeInv /\ Crash => NodeInv'
  <1> SUFFICES ASSUME NodeInv, Crash PROVE NodeInv'
    OBVIOUS
  <1>1. /\ phase' = "down" /\ events' = <<>> /\ actions' = <<>> /\ scheduleQ' = <<>>
        /\ tasks' = {} /\ sm' = FreshBooks /\ cfg' = cfg
    BY DEF Crash
  <1>2. /\ events' \in Seq(Events) /\ actions' \in Seq(Actions) /\ scheduleQ' \in Seq(TimerId)
        /\ Len(events') = 0 /\ Len(scheduleQ') = 0 /\ DOMAIN actions' = {}
    BY <1>1
  <1>3. CancelsOwn(sm', actions')
    BY <1>2 DEF CancelsOwn
  <1>4. Survives'
    BY <1>1, FreshOK DEF Survives
  <1>5. LossesOK'
    BY DEF Crash, NothingLost, LossesOK
  <1> QED BY <1>1, <1>2, <1>3, <1>4, <1>5, FreshOK, Capacities DEF NodeInv

LEMMA NextNode == NodeInv /\ [Next]_vars => NodeInv'
  <1> SUFFICES ASSUME NodeInv, [Next]_vars PROVE NodeInv'
    OBVIOUS
  <1>1. CASE UNCHANGED vars
    BY <1>1 DEF vars, queues, memory, NodeInv, LossesOK, Survives, Travels
  <1>2. CASE \E m \in PeerMessages : Inbound(m)
    BY <1>2, InboundNode
  <1>3. CASE \E id \in TimerId : Fire(id)
    BY <1>3, FireNode
  <1> QED BY <1>1, <1>2, <1>3, BootNode, ProcessNode, DispatchNode, ScheduleNode, CrashNode DEF Next

LEMMA NodeAlways == Spec => []NodeInv
  BY InitNode, NextNode, PTL DEF Spec

(***************************************************************************)
(* The channels hold at most what they were made for, and the ids that the *)
(* layers wait for have been handed out, for every capacity, configuration *)
(* and database, and every number of crashes.                              *)
(***************************************************************************)
THEOREM TypeCorrect == Spec => []TypeOK
  <1>1. NodeInv => TypeOK
    BY DEF NodeInv, TypeOK, BooksOK, IdsBelow
  <1> QED BY <1>1, NodeAlways, PTL

(***************************************************************************)
(* No interleaving of the orchestrator, the timer loop, its tasks and the  *)
(* three layers costs a timer that a layer waits for, except a full        *)
(* schedule channel and the cancel of another layer for the same id.       *)
(***************************************************************************)
THEOREM TimersKept == Spec => []TimersSurvive
  <1>1. NodeInv => TimersSurvive
    <2> SUFFICES ASSUME NodeInv, NEW l \in Layer, NEW id \in Awaited(sm, l)
                 PROVE  \/ \E i \in DOMAIN actions :
                              actions[i].kind = "ScheduleTimer" /\ actions[i].body = id
                        \/ id \in ToSet(scheduleQ) \cup tasks
                        \/ Act("TimerFired", id) \in ToSet(events)
                        \/ <<l, id>> \in lost.timers
      BY DEF TimersSurvive
    <2>1. Travels(l, id)
      BY DEF NodeInv, Survives
    <2>2. /\ Timed("ScheduleTimer", id, l).kind = "ScheduleTimer"
          /\ Timed("ScheduleTimer", id, l).body = id
      BY DEF Timed
    <2> QED BY <2>1, <2>2 DEF Travels
  <1> QED BY <1>1, NodeAlways, PTL

\* A count that parses: an unsigned number.
CountsParse == \A c \in Configs : load(c).macro_subnet_count \in Nat

(***************************************************************************)
(* Whatever the layers broadcast decodes at a peer to the event of that    *)
(* action; and a peer of the same configuration subscribes to its topic    *)
(* unless it is a partial of a subnet beyond the configured count, which   *)
(* nobody then hears.  For every configured count, a smaller one than the  *)
(* number of subnets included.                                             *)
(***************************************************************************)
THEOREM PeersAlwaysUnderstand ==
    ASSUME CountsParse
    PROVE  Spec => []PeersUnderstand
  <1>1. NodeInv => PeersUnderstand
    <2> SUFFICES ASSUME NodeInv, NEW i \in DOMAIN actions, is_broadcast(actions[i])
                 PROVE  /\ inbound_message(outbound_broadcast(actions[i]))
                             = Act(EventOf[TopicOf[actions[i].kind]], actions[i].body)
                        /\ (outbound_broadcast(actions[i]).topic \in Subscribed[cfg])
                             <=> ~Unheard(actions[i])
      BY Zenon DEF PeersUnderstand
    <2> DEFINE a == actions[i]
               m == outbound_broadcast(a)
               count == subnet_count(load(cfg).macro_subnet_count)
    <2>1. a \in Actions /\ cfg \in Configs
      BY DEF NodeInv
    <2>2. /\ Subscribed[cfg] = subscribe_set(count) /\ count \in Nat \ {0}
          /\ partial_count(count) = count
      <3>1. Subscribed[cfg] = subscribe_set(count)
        BY <2>1 DEF Subscribed
      <3>2. count \in Nat \ {0}
        BY <2>1, KeAssumption DEF CountsParse, subnet_count
      <3> HIDE DEF count
      <3> QED BY <3>1, <3>2 DEF partial_count
    <2>3. Subnet \in Nat
      BY NodeAssumption, KeAssumption
    <2>7. Unheard(a) <=> a.kind = "BroadcastBlsPartial" /\ a.body >= count
      BY DEF Unheard
    <2> HIDE DEF a, count
    <2>4. /\ a.kind \in {"BroadcastMicroQc", "BroadcastMacroProposal", "BroadcastBlsPartial",
                         "EmitSlashEvidence", "BroadcastVertexProposal",
                         "BroadcastVertexPartial", "BroadcastCertifiedVertex"}
          /\ a.kind = "BroadcastBlsPartial" => a.body \in {0, Subnet}
      <3>1. is_broadcast(a)
        BY DEF a
      <3> QED BY <2>1, <3>1 DEF Actions, Talk, Timing, Persisting, is_broadcast, TopicOf
    <2>5. CASE a.kind = "BroadcastBlsPartial"
      <3>1. m.topic = <<"bls-partial", a.body>> /\ m.type = "bls-partial" /\ m.data = a.body
        BY <2>5 DEF outbound_broadcast, TopicOf
      <3>2. inbound_message(m) = [kind |-> EventOf["bls-partial"], body |-> a.body]
        BY <3>1 DEF inbound_message, EventOf
      <3>3. TopicOf[a.kind] = "bls-partial"
        BY <2>5 DEF TopicOf
      <3>4. m.topic \in subscribe_set(count) <=> a.body \in 0 .. count - 1
        BY <2>2, <3>1 DEF subscribe_set
      <3>5. a.body \in Nat
        BY <2>3, <2>4, <2>5
      <3>6. (m.topic \in Subscribed[cfg]) <=> ~Unheard(a)
        BY <2>2, <2>5, <2>7, <3>4, <3>5
      <3> QED BY <3>2, <3>3, <3>6 DEF a, Act
    <2>6. CASE a.kind # "BroadcastBlsPartial"
      <3> DEFINE t == TopicOf[a.kind]
      <3>1. t \in DOMAIN EventOf \ {"bls-partial"}
        BY <2>4, <2>6 DEF TopicOf, EventOf
      <3> HIDE DEF t
      <3>2. m.topic = <<t, 0>> /\ m.type = t /\ m.data = a.body /\ m.topic[1] = t
        BY <2>6 DEF outbound_broadcast, t
      <3>3. inbound_message(m) = [kind |-> EventOf[t], body |-> a.body]
        BY <3>1, <3>2 DEF inbound_message
      <3>4. m.topic \in subscribe_set(count)
        BY <3>1, <3>2 DEF subscribe_set
      <3>5. (m.topic \in Subscribed[cfg]) <=> ~Unheard(a)
        BY <2>2, <2>6, <2>7, <3>4
      <3> QED BY <3>3, <3>5 DEF a, Act, t
    <2> QED BY <2>5, <2>6
  <1> QED BY <1>1, NodeAlways, PTL

-----------------------------------------------------------------------------
(***************************************************************************)
(* The database.                                                           *)
(***************************************************************************)

LEMMA PutFacts ==
    ASSUME NEW f, NEW k, NEW v
    PROVE  /\ DOMAIN Put(f, k, v) = DOMAIN f \cup {k}
           /\ Put(f, k, v)[k] = v
           /\ \A x \in DOMAIN f : x # k => Put(f, k, v)[x] = f[x]
  BY DEF Put

LEMMA PutRawFacts ==
    ASSUME NEW d, DOMAIN d = Columns, NEW cf \in Columns, NEW k, NEW v
    PROVE  /\ DOMAIN put_raw(d, cf, k, v) = Columns
           /\ put_raw(d, cf, k, v)[cf] = Put(d[cf], k, v)
           /\ \A c \in Columns \ {cf} : put_raw(d, cf, k, v)[c] = d[c]
  BY DEF put_raw

DbTyped == /\ DOMAIN db = Columns
           /\ \A b \in DOMAIN db["blob_status"] : db["blob_status"][b] \in Accepted .. Finalized

\* What a step does to the database: a put, or a put that keeps statuses high.
DbMoves ==
    \/ db' = db
    \/ \E cf \in {"vertex", "slash", "macro_cp", "macro_qc"} : \E k, v : db' = put_raw(db, cf, k, v)
    \/ \E b : \E t \in Accepted .. Finalized : db' = put_monotonic(db, b, t)

LEMMA DispatchMoves == NodeInv /\ Dispatch => DbMoves
  <1> SUFFICES ASSUME NodeInv, Dispatch PROVE DbMoves
    OBVIOUS
  <1> DEFINE a == Head(actions)
  <1>1. (db' = db \/ db' = Stored(a)) /\ actions # <<>>
    BY DEF Dispatch, Apply
  <1>2. a \in Actions
    BY <1>1, QueueFacts DEF NodeInv
  <1> HIDE DEF a
  <1>3. CASE a.kind \in {"PersistMacroCheckpoint", "PersistMacroQc", "EmitSlashEvidence"}
             /\ db' = Stored(a)
    BY <1>3 DEF Stored, store_macro_checkpoint, store_macro_qc, append_slash_evidence, DbMoves
  <1>4. CASE a.kind = "UpdateBlobStatus" /\ db' = Stored(a)
    <2>1. a.tier \in Accepted .. Finalized
      BY <1>2, <1>4 DEF Actions, Talk, Timing, Persisting
    <2>2. db' = put_monotonic(db, a.body, a.tier)
      BY <1>4 DEF Stored
    <2> QED BY <2>1, <2>2 DEF DbMoves
  <1>5. CASE a.kind \notin {"PersistMacroCheckpoint", "PersistMacroQc", "EmitSlashEvidence",
                            "UpdateBlobStatus"}
    BY <1>1, <1>5 DEF Stored, DbMoves
  <1>6. CASE db' = db
    BY <1>6 DEF DbMoves
  <1> QED BY <1>1, <1>3, <1>4, <1>5, <1>6

LEMMA NextMoves == NodeInv /\ [Next]_vars => DbMoves
  <1> SUFFICES ASSUME NodeInv, [Next]_vars PROVE DbMoves
    OBVIOUS
  <1>1. CASE Process
    BY <1>1 DEF Process, ProcessCertificate, ingest, put_vertex, DbMoves
  <1>2. CASE Dispatch
    BY <1>2, DispatchMoves
  <1>3. CASE Boot \/ ScheduleEvent \/ Crash \/ (\E m \in PeerMessages : Inbound(m))
               \/ (\E id \in TimerId : Fire(id)) \/ UNCHANGED vars
    <2>1. db' = db
      BY <1>3 DEF Boot, ScheduleEvent, Crash, Inbound, Fire, vars
    <2> QED BY <2>1 DEF DbMoves
  <1> QED BY <1>1, <1>2, <1>3 DEF Next

\* A put into the column of statuses replaces a status by a higher one.
LEMMA MonotonicFacts ==
    ASSUME DbTyped, NEW h, NEW t \in Accepted .. Finalized,
           NEW d, d = put_monotonic(db, h, t)
    PROVE  /\ DOMAIN d = Columns
           /\ \A c \in Columns \ {"blob_status"} : d[c] = db[c]
           /\ \A b \in DOMAIN d["blob_status"] : d["blob_status"][b] \in Accepted .. Finalized
           /\ DOMAIN db["blob_status"] \subseteq DOMAIN d["blob_status"]
           /\ \A b \in DOMAIN db["blob_status"] : d["blob_status"][b] >= db["blob_status"][b]
  <1>1. "blob_status" \in Columns
    BY DEF Columns
  <1>2. CASE h \in DOMAIN db["blob_status"] /\ t <= db["blob_status"][h]
    <2>1. d = db
      BY <1>2 DEF put_monotonic, has_raw
    <2> QED BY <2>1 DEF DbTyped, Accepted, Finalized
  <1>3. CASE ~(h \in DOMAIN db["blob_status"] /\ t <= db["blob_status"][h])
    <2>1. d = put_raw(db, "blob_status", h, t)
      BY <1>3 DEF put_monotonic, has_raw
    <2>2. /\ DOMAIN d = Columns
          /\ d["blob_status"] = Put(db["blob_status"], h, t)
          /\ \A c \in Columns \ {"blob_status"} : d[c] = db[c]
      BY <1>1, <2>1, PutRawFacts DEF DbTyped
    <2>3. /\ DOMAIN d["blob_status"] = DOMAIN db["blob_status"] \cup {h}
          /\ d["blob_status"][h] = t
          /\ \A x \in DOMAIN db["blob_status"] : x # h => d["blob_status"][x] = db["blob_status"][x]
      <3> DEFINE f == db["blob_status"]
                 g == d["blob_status"]
      <3>1. g = Put(f, h, t)
        BY <2>2
      <3> HIDE DEF f, g
      <3>2. /\ DOMAIN g = DOMAIN f \cup {h} /\ g[h] = t
            /\ \A x \in DOMAIN f : x # h => g[x] = f[x]
        BY <3>1 DEF Put
      <3> QED BY <3>2 DEF f, g
    <2> QED BY <1>3, <2>2, <2>3 DEF DbTyped, Accepted, Finalized
  <1> QED BY <1>2, <1>3

LEMMA OtherColumn ==
    ASSUME DbTyped, NEW cf \in Columns, cf # "blob_status", NEW k, NEW v,
           db' = put_raw(db, cf, k, v)
    PROVE  DbTyped' /\ db'["blob_status"] = db["blob_status"]
  <1>1. /\ DOMAIN db' = Columns /\ \A c \in Columns \ {cf} : db'[c] = db[c]
    BY PutRawFacts DEF DbTyped
  <1> QED BY <1>1 DEF DbTyped, Columns

LEMMA TypedMoves ==
    ASSUME DbTyped, DbMoves
    PROVE  /\ DbTyped'
           /\ DOMAIN db["blob_status"] \subseteq DOMAIN db'["blob_status"]
           /\ \A b \in DOMAIN db["blob_status"] : db'["blob_status"][b] >= db["blob_status"][b]
  <1>1. {"vertex", "slash", "macro_cp", "macro_qc"} \subseteq Columns
    BY DEF Columns
  <1>2. CASE db' = db
    BY <1>2 DEF DbTyped, Accepted, Finalized
  <1>3. CASE \E b : \E t \in Accepted .. Finalized : db' = put_monotonic(db, b, t)
    BY <1>3, MonotonicFacts DEF DbTyped
  <1>4. CASE \E cf \in {"vertex", "slash", "macro_cp", "macro_qc"} : \E k, v : db' = put_raw(db, cf, k, v)
    <2>1. DbTyped' /\ db'["blob_status"] = db["blob_status"]
      BY <1>1, <1>4, OtherColumn
    <2> QED BY <2>1 DEF DbTyped, Accepted, Finalized
  <1> QED BY <1>2, <1>3, <1>4 DEF DbMoves

LEMMA TypedAlways == Spec => [](NodeInv /\ DbTyped)
  <1>1. Init => DbTyped
    BY DatabaseAssumption DEF Init, DbTyped
  <1>2. NodeInv /\ DbTyped /\ [Next]_vars => NodeInv' /\ DbTyped'
    BY NextNode, NextMoves, TypedMoves
  <1> QED BY <1>1, <1>2, InitNode, PTL DEF Spec

(***************************************************************************)
(* No step lowers the status of a blob, whatever the layers of a restarted *)
(* node vote for again: put_monotonic keeps the higher one.                *)
(***************************************************************************)
THEOREM StatusRises == Spec => StatusNeverFalls
  <1>1. ASSUME NodeInv, DbTyped, [Next]_vars
        PROVE  [\A c \in Checkpoints : blob_status(db', hash(c)) >= blob_status(db, hash(c))]_vars
    <2>1. DbMoves
      BY <1>1, NextMoves
    <2>2. /\ DbTyped'
          /\ DOMAIN db["blob_status"] \subseteq DOMAIN db'["blob_status"]
          /\ \A b \in DOMAIN db["blob_status"] : db'["blob_status"][b] >= db["blob_status"][b]
      BY <1>1, <2>1, TypedMoves
    <2>3. \A b : blob_status(db', b) >= blob_status(db, b)
      BY <1>1, <2>2 DEF blob_status, has_raw, DbTyped, Accepted, Finalized
    <2> QED BY <2>3
  <1> QED BY <1>1, TypedAlways, PTL DEF Spec, StatusNeverFalls

\* The height of a certificate on disk has a checkpoint there, unless the write
\* of its own has failed; one still to be stored has it there or before it.
Kept(c) == c.height \in DOMAIN db["macro_cp"] \/ c \in unstored
QcsHaveCheckpoints ==
    \A c \in AllCheckpoints : c \in Checkpoints /\ hash(c) \in DOMAIN db["macro_qc"] => Kept(c)
QcsPending ==
    \A i \in DOMAIN actions : actions[i].kind = "PersistMacroQc" =>
        \A c \in AllCheckpoints : hash(c) = actions[i].body =>
            \/ Kept(c)
            \/ \E j \in DOMAIN actions :
                  j < i /\ actions[j] = Act("PersistMacroCheckpoint", c)

DiskInv == NodeInv /\ DbTyped /\ QcsHaveCheckpoints /\ QcsPending

\* New actions are in order.
LEMMA ProcessOrdered == NodeInv /\ Process => Ordered(actions')
  <1> SUFFICES ASSUME NodeInv, Process PROVE Ordered(actions')
    OBVIOUS
  <1> DEFINE e == Head(events)
  <1>1. actions = <<>> /\ events # <<>>
    BY DEF Process
  <1>2. e \in Events /\ BooksOK(sm)
    <2>1. events \in Seq(Events)
      BY DEF NodeInv
    <2> QED BY <1>1, <2>1, QueueFacts DEF NodeInv
  <1>3. actions' = actions \/ \E o \in step(sm, e) : actions' = o.acts
    BY DEF Process, ProcessCertificate, StepOn
  <1> HIDE DEF e
  <1>4. CASE actions' = actions
    <2>1. DOMAIN actions' = {}
      BY <1>1, <1>4
    <2> QED BY <2>1 DEF Ordered
  <1>5. CASE \E o \in step(sm, e) : actions' = o.acts
    BY <1>2, <1>5, Steps DEF StepOK
  <1> QED BY <1>3, <1>4, <1>5

LEMMA BootOrdered == Boot => Ordered(actions')
  <1> SUFFICES ASSUME Boot PROVE Ordered(actions')
    OBVIOUS
  <1> DEFINE o == propose_round(Out([FreshBooks EXCEPT !.started = TRUE], <<>>), 0)
  <1>1. actions' = o.acts \/ actions' = <<>>
    BY DEF Boot
  <1>2. Ordered(o.acts)
    BY BootOK DEF StepOK
  <1> HIDE DEF o
  <1>3. CASE actions' = <<>>
    <2>1. DOMAIN actions' = {}
      BY <1>3
    <2> QED BY <2>1 DEF Ordered
  <1> QED BY <1>1, <1>2, <1>3

\* Only the dispatch of an action touches these two columns, or fails to.
LEMMA MacroColumns ==
    ASSUME NodeInv, DbTyped, [Next]_vars, ~Dispatch
    PROVE  /\ db'["macro_cp"] = db["macro_cp"] /\ db'["macro_qc"] = db["macro_qc"]
           /\ unstored' = unstored
  <1>1. CASE Process
    <2>1. /\ db' = db \/ \E k, v : db' = put_raw(db, "vertex", k, v)
          /\ unstored' = unstored
      BY <1>1 DEF Process, ProcessCertificate, ingest, put_vertex
    <2>2. ASSUME NEW k, NEW v, db' = put_raw(db, "vertex", k, v)
          PROVE  db'["macro_cp"] = db["macro_cp"] /\ db'["macro_qc"] = db["macro_qc"]
      <3>1. "vertex" \in Columns /\ DOMAIN db = Columns
            /\ {"macro_cp", "macro_qc"} \subseteq Columns \ {"vertex"}
        BY DEF DbTyped, Columns
      <3>2. \A c \in Columns \ {"vertex"} : db'[c] = db[c]
        BY <2>2, <3>1, PutRawFacts
      <3> QED BY <3>1, <3>2
    <2> QED BY <2>1, <2>2
  <1>2. CASE Boot \/ ScheduleEvent \/ Crash \/ (\E m \in PeerMessages : Inbound(m))
               \/ (\E id \in TimerId : Fire(id)) \/ UNCHANGED vars
    <2>1. db' = db /\ unstored' = unstored
      BY <1>2 DEF Boot, ScheduleEvent, Crash, Inbound, Fire, vars
    <2> QED BY <2>1
  <1> QED BY <1>1, <1>2 DEF Next

LEMMA DispatchDisk ==
    ASSUME DiskInv, Dispatch
    PROVE  QcsHaveCheckpoints' /\ QcsPending'
  <1> DEFINE a == Head(actions)
  <1>1. /\ actions # <<>> /\ actions' = Tail(actions)
        /\ \E done \in BOOLEAN :
             /\ db' = IF done THEN Stored(a) ELSE db
             /\ unstored' = IF a.kind # "PersistMacroCheckpoint" THEN unstored
                            ELSE IF done THEN unstored \ {a.body} ELSE unstored \cup {a.body}
    BY DEF Dispatch, Apply
  <1>2. actions \in Seq(Actions)
    BY DEF DiskInv, NodeInv
  <1>3. /\ a \in Actions
        /\ \A i \in DOMAIN actions : i = 1 \/ (i - 1 \in DOMAIN actions' /\ actions'[i - 1] = actions[i])
        /\ \A i \in DOMAIN actions' : i + 1 \in DOMAIN actions /\ actions'[i] = actions[i + 1]
        /\ actions[1] = a /\ 1 \in DOMAIN actions
    <2>1. /\ Head(actions) \in Actions
          /\ \A i \in DOMAIN actions :
                i = 1 \/ (i - 1 \in DOMAIN Tail(actions) /\ Tail(actions)[i - 1] = actions[i])
          /\ \A i \in DOMAIN Tail(actions) : i + 1 \in DOMAIN actions /\ Tail(actions)[i] = actions[i + 1]
          /\ actions[1] = Head(actions) /\ 1 \in DOMAIN actions
      BY <1>1, <1>2, QueueFacts
    <2> QED BY <1>1, <2>1
  <1> HIDE DEF a
  <1>4. /\ DOMAIN db = Columns
        /\ {"vertex", "slash", "macro_cp", "macro_qc", "blob_status"} \subseteq Columns
    BY DEF DiskInv, DbTyped, Columns
  <1> DEFINE cps == DOMAIN db["macro_cp"]
             qcs == DOMAIN db["macro_qc"]
             cpsNext == DOMAIN db'["macro_cp"]
             qcsNext == DOMAIN db'["macro_qc"]
  \* What the action does to the two columns and to the failed writes.
  <1>5. /\ cps \subseteq cpsNext
        /\ qcsNext = qcs \/ (a.kind = "PersistMacroQc" /\ qcsNext = qcs \cup {a.body})
        /\ a.kind # "PersistMacroCheckpoint" => unstored' = unstored
        /\ a.kind = "PersistMacroCheckpoint" =>
             \/ unstored' = unstored \ {a.body} /\ a.body.height \in cpsNext
             \/ unstored' = unstored \cup {a.body}
    <2>0. CASE db' = db /\ unstored' = IF a.kind = "PersistMacroCheckpoint"
                                      THEN unstored \cup {a.body} ELSE unstored
      BY <2>0
    <2>1. CASE a.kind = "PersistMacroCheckpoint" /\ db' = Stored(a) /\ unstored' = unstored \ {a.body}
      <3>1. db' = put_raw(db, "macro_cp", a.body.height, a.body)
        BY <2>1 DEF Stored, store_macro_checkpoint
      <3>2. /\ db'["macro_cp"] = Put(db["macro_cp"], a.body.height, a.body)
            /\ db'["macro_qc"] = db["macro_qc"]
        BY <1>4, <3>1, PutRawFacts
      <3>3. cpsNext = cps \cup {a.body.height}
        BY <3>2 DEF Put
      <3> QED BY <2>1, <3>2, <3>3
    <2>2. CASE a.kind = "PersistMacroQc" /\ db' = Stored(a) /\ unstored' = unstored
      <3>1. db' = put_raw(db, "macro_qc", a.body, a.body)
        BY <2>2 DEF Stored, store_macro_qc
      <3>2. /\ db'["macro_qc"] = Put(db["macro_qc"], a.body, a.body)
            /\ db'["macro_cp"] = db["macro_cp"]
        BY <1>4, <3>1, PutRawFacts
      <3>3. qcsNext = qcs \cup {a.body}
        BY <3>2 DEF Put
      <3> QED BY <2>2, <3>2, <3>3
    <2>3. CASE a.kind = "EmitSlashEvidence" /\ db' = Stored(a) /\ unstored' = unstored
      <3>1. db' = put_raw(db, "slash", seq, a.body)
        BY <2>3 DEF Stored, append_slash_evidence
      <3>2. db'["macro_qc"] = db["macro_qc"] /\ db'["macro_cp"] = db["macro_cp"]
        BY <1>4, <3>1, PutRawFacts
      <3> QED BY <2>3, <3>2
    <2>4. CASE a.kind = "UpdateBlobStatus" /\ db' = Stored(a) /\ unstored' = unstored
      <3>1. db' = put_monotonic(db, a.body, a.tier)
        BY <2>4 DEF Stored
      <3>2. a.tier \in Accepted .. Finalized
        BY <1>3, <2>4 DEF Actions, Talk, Timing, Persisting
      <3>3. \A c \in Columns \ {"blob_status"} : db'[c] = db[c]
        BY <3>1, <3>2, MonotonicFacts DEF DiskInv
      <3>4. db'["macro_qc"] = db["macro_qc"] /\ db'["macro_cp"] = db["macro_cp"]
        BY <1>4, <3>3
      <3> QED BY <2>4, <3>4
    <2>5. CASE /\ a.kind \notin {"PersistMacroCheckpoint", "PersistMacroQc", "EmitSlashEvidence",
                                "UpdateBlobStatus"}
               /\ db' = Stored(a) /\ unstored' = unstored
      <3>1. db' = db
        BY <2>5 DEF Stored
      <3> QED BY <2>5, <3>1
    <2>6. \/ db' = db /\ unstored' = IF a.kind = "PersistMacroCheckpoint"
                                    THEN unstored \cup {a.body} ELSE unstored
          \/ db' = Stored(a) /\ unstored' = IF a.kind = "PersistMacroCheckpoint"
                                           THEN unstored \ {a.body} ELSE unstored
      BY <1>1 DEF a
    <2> QED BY <2>0, <2>1, <2>2, <2>3, <2>4, <2>5, <2>6
  \* What was kept stays so, and so does what has just been dispatched.
  <1>6. \A c \in AllCheckpoints : Kept(c) => Kept(c)'
    <2> SUFFICES ASSUME NEW c \in AllCheckpoints, Kept(c) PROVE Kept(c)'
      OBVIOUS
    <2>1. CASE c.height \in cps
      BY <1>5, <2>1 DEF Kept
    <2>2. CASE c \in unstored /\ a.kind # "PersistMacroCheckpoint"
      BY <1>5, <2>2 DEF Kept
    <2>3. CASE c \in unstored /\ a.kind = "PersistMacroCheckpoint"
      BY <1>5, <2>3 DEF Kept
    <2> QED BY <2>1, <2>2, <2>3 DEF Kept
  <1>7. \A c \in AllCheckpoints : a = Act("PersistMacroCheckpoint", c) => Kept(c)'
    <2> SUFFICES ASSUME NEW c \in AllCheckpoints, a = Act("PersistMacroCheckpoint", c)
                 PROVE  Kept(c)'
      OBVIOUS
    <2>1. a.kind = "PersistMacroCheckpoint" /\ a.body = c
      BY DEF Act
    <2> QED BY <1>5, <2>1 DEF Kept
  <1>8. a.kind = "PersistMacroQc" => \A c \in AllCheckpoints : hash(c) = a.body => Kept(c)
    <2> SUFFICES ASSUME a.kind = "PersistMacroQc", NEW c \in AllCheckpoints, hash(c) = a.body
                 PROVE  Kept(c)
      OBVIOUS
    <2>1. \A j \in DOMAIN actions : ~(j < 1)
      BY <1>2
    <2> QED BY <1>3, <2>1 DEF DiskInv, QcsPending
  <1> HIDE DEF cps, qcs, cpsNext, qcsNext
  <1>9. QcsHaveCheckpoints'
    <2> SUFFICES ASSUME NEW c \in AllCheckpoints, c \in Checkpoints, hash(c) \in qcsNext
                 PROVE  Kept(c)'
      BY DEF QcsHaveCheckpoints, qcsNext
    <2>1. CASE hash(c) \in qcs
      BY <1>6, <2>1 DEF DiskInv, QcsHaveCheckpoints, qcs
    <2>2. CASE a.kind = "PersistMacroQc" /\ hash(c) = a.body
      BY <1>6, <1>8, <2>2
    <2> QED BY <1>5, <2>1, <2>2
  <1>10. QcsPending'
    <2> SUFFICES ASSUME NEW i \in DOMAIN actions', actions'[i].kind = "PersistMacroQc",
                        NEW c \in AllCheckpoints, hash(c) = actions'[i].body
                 PROVE  \/ Kept(c)'
                        \/ \E j \in DOMAIN actions' :
                             j < i /\ actions'[j] = Act("PersistMacroCheckpoint", c)
      BY DEF QcsPending
    <2>1. i + 1 \in DOMAIN actions /\ actions[i + 1] = actions'[i]
      BY <1>3
    <2>2. \/ Kept(c)
          \/ \E j \in DOMAIN actions : j < i + 1 /\ actions[j] = Act("PersistMacroCheckpoint", c)
      BY <2>1 DEF DiskInv, QcsPending
    <2>3. CASE Kept(c)
      BY <1>6, <2>3
    <2>4. CASE \E j \in DOMAIN actions : j < i + 1 /\ actions[j] = Act("PersistMacroCheckpoint", c)
      <3>1. PICK j \in DOMAIN actions : j < i + 1 /\ actions[j] = Act("PersistMacroCheckpoint", c)
        BY <2>4
      <3>2. CASE j = 1
        BY <1>3, <1>7, <3>1, <3>2
      <3>3. CASE j # 1
        <4>1. j - 1 \in DOMAIN actions' /\ actions'[j - 1] = Act("PersistMacroCheckpoint", c)
          BY <1>3, <3>1, <3>3
        <4>2. j - 1 < i
          <5>1. j \in Nat /\ i + 1 \in Nat /\ i \in Int
            <6>1. actions' \in Seq(Actions)
              BY <1>1, <1>2
            <6> QED BY <1>2, <2>1, <6>1
          <5> QED BY <3>1, <5>1
        <4> QED BY <4>1, <4>2
      <3> QED BY <3>2, <3>3
    <2> QED BY <2>2, <2>3, <2>4
  <1> QED BY <1>9, <1>10

LEMMA NextDisk == DiskInv /\ [Next]_vars => DiskInv'
  <1> SUFFICES ASSUME DiskInv, [Next]_vars PROVE DiskInv'
    OBVIOUS
  <1>1. NodeInv' /\ DbTyped'
    BY NextNode, NextMoves, TypedMoves DEF DiskInv
  <1>2. CASE Dispatch
    BY <1>1, <1>2, DispatchDisk DEF DiskInv
  <1>3. CASE ~Dispatch
    <2>1. /\ db'["macro_cp"] = db["macro_cp"] /\ db'["macro_qc"] = db["macro_qc"]
          /\ unstored' = unstored
      BY <1>3, MacroColumns DEF DiskInv
    <2>2. QcsHaveCheckpoints'
      BY <2>1 DEF DiskInv, QcsHaveCheckpoints, Kept
    <2>3. actions' = actions \/ Ordered(actions')
      <3>1. CASE Crash
        <4>1. DOMAIN actions' = {}
          BY <3>1 DEF Crash
        <4> QED BY <4>1 DEF Ordered
      <3>2. CASE ScheduleEvent \/ (\E m \in PeerMessages : Inbound(m))
                   \/ (\E id \in TimerId : Fire(id)) \/ UNCHANGED vars
        BY <3>2 DEF ScheduleEvent, Inbound, Fire, vars, queues
      <3> QED BY <1>3, <3>1, <3>2, ProcessOrdered, BootOrdered DEF Next, DiskInv
    <2>4. QcsPending'
      <3>1. CASE actions' = actions
        BY <2>1, <3>1 DEF DiskInv, QcsPending, Kept
      <3>2. CASE Ordered(actions')
        BY <3>2 DEF Ordered, QcsPending
      <3> QED BY <2>3, <3>1, <3>2
    <2> QED BY <1>1, <2>2, <2>4 DEF DiskInv
  <1> QED BY <1>2, <1>3

\* A non-empty set of numbers has a least one.
LEMMA LeastNumber ==
    ASSUME NEW T \in SUBSET Nat, T # {}
    PROVE  \E x \in T : \A y \in T : x <= y
  <1> DEFINE R == OpToRel(<, Nat)
  <1>1. IsWellFoundedOn(R, Nat)
    BY NatLessThanWellFounded
  <1> HIDE DEF R
  <1>2. PICK x \in T : \A y \in T : ~ (<<y, x>> \in R)
    BY <1>1, WFMin
  <1>3. \A y \in T : ~(y < x)
    BY <1>2 DEF R, OpToRel
  <1> QED BY <1>2, <1>3

\* Max of a set of bounded numbers.
LEMMA MaxFacts ==
    ASSUME NEW n \in Nat, NEW S \in SUBSET (0 .. n - 1), NEW h \in S
    PROVE  Max(S) >= h
  <1> DEFINE T == {n - x : x \in S}
  <1>1. T \in SUBSET Nat /\ T # {}
    OBVIOUS
  <1> HIDE DEF T
  <1>2. PICK y \in T : \A z \in T : y <= z
    BY <1>1, LeastNumber
  <1>3. PICK m \in S : y = n - m
    BY DEF T
  <1>4. \A x \in S : m >= x
    <2> SUFFICES ASSUME NEW x \in S PROVE m >= x
      OBVIOUS
    <2>1. n - x \in T
      BY DEF T
    <2> QED BY <1>2, <1>3, <2>1
  <1>5. \E x \in S : \A z \in S : x >= z
    BY <1>4
  <1>6. Max(S) \in S /\ \A z \in S : Max(S) >= z
    BY <1>5, Zenon DEF Max
  <1> QED BY <1>6

(***************************************************************************)
(* A macro certificate on disk is visible to latest_finalized, wherever a  *)
(* crash falls between two dispatched actions and whichever writes fail:   *)
(* unless it was the write of its own checkpoint that failed, or another   *)
(* checkpoint has since been stored at its height.  The heights are those  *)
(* the query scans, the first 128 in the code.                             *)
(***************************************************************************)
THEOREM FinalizedFound ==
    ASSUME Heights \subseteq 0 .. ScanLimit - 1
    PROVE  Spec => []FinalizedVisible
  <1>1. Init => DiskInv
    <2> SUFFICES ASSUME Init PROVE DiskInv
      OBVIOUS
    <2>1. DOMAIN actions = {} /\ db \in Databases
      BY DEF Init
    <2>2. QcsPending
      BY <2>1 DEF QcsPending
    <2>3. QcsHaveCheckpoints
      BY DEF Init, QcsHaveCheckpoints, Kept, macro_qc_for, macro_checkpoint_at, has_raw
    <2>4. DbTyped
      BY <2>1, DatabaseAssumption DEF DbTyped
    <2> QED BY <2>2, <2>3, <2>4, InitNode DEF DiskInv
  <1>2. DiskInv => FinalizedVisible
    <2> SUFFICES ASSUME DiskInv, NEW c \in Checkpoints, macro_qc_for(db, hash(c)),
                        c \notin unstored, ~\E d \in macro_checkpoint_at(db, c.height) : d # c
                 PROVE  latest_finalized(db) >= c.height
      BY Zenon DEF FinalizedVisible
    <2> DEFINE found == {h \in 0 .. ScanLimit - 1 :
                            \E cp \in macro_checkpoint_at(db, h) : macro_qc_for(db, hash(cp))}
               n == c.height
    <2>1. c \in AllCheckpoints /\ n \in Heights /\ hash(c) \in DOMAIN db["macro_qc"]
      BY NodeAssumption DEF Checkpoints, AllCheckpoints, macro_qc_for, has_raw
    <2>2. n \in DOMAIN db["macro_cp"]
      BY <2>1 DEF DiskInv, QcsHaveCheckpoints, Kept
    <2>3. macro_checkpoint_at(db, n) = {c}
      BY <2>2 DEF macro_checkpoint_at, has_raw
    <2>4. n \in found
      BY <2>1, <2>3
    <2>5. found \in SUBSET (0 .. ScanLimit - 1) /\ found # {}
      BY <2>4
    <2>6. latest_finalized(db) = Max(found)
      BY <2>5, Zenon DEF latest_finalized
    <2> HIDE DEF found, n
    <2>7. Max(found) >= n
      BY <2>4, <2>5, MaxFacts, ScanAssumption
    <2> QED BY <2>6, <2>7 DEF n
  <1> QED BY <1>1, <1>2, NextDisk, PTL DEF Spec

-----------------------------------------------------------------------------
(***************************************************************************)
(* The DAG.                                                                *)
(***************************************************************************)

Faults == (N - 1) \div 3

\* The validators in H sign one vertex of a round and author: what L1 makes its
\* validators do (VertexCert, OneVotePerSlot).
SignOnce(H) ==
    \A c, d \in Certs \cup OwnCerts, i \in H :
        /\ <<i, c.vertex>> \in DOMAIN c.sig
        /\ <<i, d.vertex>> \in DOMAIN d.sig
        /\ vertex_key(c.vertex) = vertex_key(d.vertex)
        => c.vertex = d.vertex

LEMMA IndexFacts ==
    ASSUME NEW S \in SUBSET Index
    PROVE  IsFiniteSet(S) /\ Cardinality(S) \in Nat /\ Cardinality(S) <= N
  <1>1. IsFiniteSet(Index) /\ Cardinality(Index) = N
    <2>1. N \in Nat /\ N > 0
      BY SetAssumption
    <2> QED BY <2>1, FS_Interval DEF Index
  <1>2. IsFiniteSet(S) /\ Cardinality(S) <= Cardinality(Index)
    BY <1>1, FS_Subset
  <1> QED BY <1>1, <1>2, FS_CardinalityType

LEMMA HonestSigner ==
    ASSUME N = 3 * Faults + 1, NEW H \in SUBSET Index, Cardinality(Index \ H) <= Faults,
           NEW S \in SUBSET Index, NEW T \in SUBSET Index,
           Cardinality(S) >= quorum_threshold(N), Cardinality(T) >= quorum_threshold(N)
    PROVE  \E i \in H : i \in S /\ i \in T
  <1>1. /\ IsFiniteSet(S) /\ Cardinality(S) \in Nat
        /\ IsFiniteSet(T) /\ Cardinality(T) \in Nat
    BY IndexFacts
  <1>2. S \cap T \in SUBSET Index /\ S \cup T \in SUBSET Index /\ Index \ H \in SUBSET Index
    OBVIOUS
  <1>3. /\ IsFiniteSet(S \cap T) /\ Cardinality(S \cap T) \in Nat
        /\ Cardinality(S \cup T) \in Nat /\ Cardinality(S \cup T) <= N
        /\ IsFiniteSet(Index \ H) /\ Cardinality(Index \ H) \in Nat
    BY <1>2, IndexFacts
  <1>4. Cardinality(S \cup T) = Cardinality(S) + Cardinality(T) - Cardinality(S \cap T)
    BY <1>1, FS_Union
  <1>5. Faults \in Nat /\ quorum_threshold(N) = 2 * Faults + 1
    BY SetAssumption DEF Faults, quorum_threshold
  <1>6. Cardinality(S \cap T) > Faults
    BY <1>1, <1>3, <1>4, <1>5
  <1>7. ~(S \cap T \subseteq Index \ H)
    <2> SUFFICES ASSUME S \cap T \subseteq Index \ H PROVE FALSE
      OBVIOUS
    <2>1. Cardinality(S \cap T) <= Cardinality(Index \ H)
      BY <1>3, FS_Subset
    <2> QED BY <1>3, <1>5, <1>6, <2>1
  <1> QED BY <1>7

\* Two certificates that verify do not fork a slot.
LEMMA CertsAgree ==
    ASSUME N = 3 * Faults + 1, NEW H \in SUBSET Index, Cardinality(Index \ H) <= Faults,
           SignOnce(H), NEW c \in Certs \cup OwnCerts, NEW d \in Certs \cup OwnCerts,
           verify_certified_vertex(c), verify_certified_vertex(d),
           vertex_key(c.vertex) = vertex_key(d.vertex)
    PROVE  c.vertex = d.vertex
  <1> DEFINE S == bitmap_indices(c.bitmap)
             T == bitmap_indices(d.bitmap)
  <1>1. S \in SUBSET Index /\ T \in SUBSET Index
    BY DEF bitmap_indices
  <1>2. /\ Cardinality(S) >= quorum_threshold(N) /\ Cardinality(T) >= quorum_threshold(N)
        /\ c.sig = [p \in S \X {c.vertex} |-> 1] /\ d.sig = [p \in T \X {d.vertex} |-> 1]
    BY DEF verify_certified_vertex, verify_aggregate
  <1> HIDE DEF S, T
  <1>3. PICK i \in H : i \in S /\ i \in T
    BY <1>1, <1>2, HonestSigner
  <1>4. <<i, c.vertex>> \in DOMAIN c.sig /\ <<i, d.vertex>> \in DOMAIN d.sig
    BY <1>2, <1>3
  <1> QED BY <1>3, <1>4 DEF SignOnce

\* Every indexed certificate has verified, and the vertex column holds its vertex.
Indexed ==
    /\ dag \in Seq(Certs \cup OwnCerts)
    /\ \A i \in DOMAIN dag :
         /\ verify_certified_vertex(dag[i])
         /\ vertex_key(dag[i].vertex) \in DOMAIN db["vertex"]
         /\ db["vertex"][vertex_key(dag[i].vertex)].vertex = dag[i].vertex

\* No other step touches the vertex column.
LEMMA VertexColumn ==
    ASSUME NodeInv, DbTyped, [Next]_vars, ~Process
    PROVE  db'["vertex"] = db["vertex"]
  <1>1. CASE Dispatch
    <2> DEFINE a == Head(actions)
    <2>0. (db' = db \/ db' = Stored(a)) /\ actions # <<>>
      BY <1>1 DEF Dispatch, Apply
    <2> SUFFICES ASSUME db' = Stored(a) PROVE db'["vertex"] = db["vertex"]
      BY <2>0
    <2>1. db' = Stored(a)
      OBVIOUS
    <2>2. a \in Actions
      BY <2>0, QueueFacts DEF NodeInv
    <2> HIDE DEF a
    <2>3. /\ DOMAIN db = Columns
          /\ {"vertex", "slash", "macro_cp", "macro_qc", "blob_status"} \subseteq Columns
      BY DEF DbTyped, Columns
    <2>4. CASE \E cf \in {"slash", "macro_cp", "macro_qc"} : \E k, v : db' = put_raw(db, cf, k, v)
      <3>1. PICK cf \in {"slash", "macro_cp", "macro_qc"} : \E k, v : db' = put_raw(db, cf, k, v)
        BY <2>4
      <3>2. cf \in Columns /\ "vertex" \in Columns \ {cf}
        BY <2>3
      <3>3. \A c \in Columns \ {cf} : db'[c] = db[c]
        BY <2>3, <3>1, <3>2, PutRawFacts
      <3> QED BY <3>2, <3>3
    <2>5. CASE a.kind = "UpdateBlobStatus"
      <3>1. db' = put_monotonic(db, a.body, a.tier)
        BY <2>1, <2>5 DEF Stored
      <3>2. a.tier \in Accepted .. Finalized
        BY <2>2, <2>5 DEF Actions, Talk, Timing, Persisting
      <3>3. \A c \in Columns \ {"blob_status"} : db'[c] = db[c]
        BY <3>1, <3>2, MonotonicFacts
      <3> QED BY <2>3, <3>3
    <2>6. CASE a.kind \in {"PersistMacroCheckpoint", "PersistMacroQc", "EmitSlashEvidence"}
      <3>1. \E cf \in {"slash", "macro_cp", "macro_qc"} : \E k, v : db' = put_raw(db, cf, k, v)
        BY <2>1, <2>6 DEF Stored, store_macro_checkpoint, store_macro_qc, append_slash_evidence
      <3> QED BY <2>4, <3>1
    <2>7. CASE a.kind \notin {"PersistMacroCheckpoint", "PersistMacroQc", "EmitSlashEvidence",
                              "UpdateBlobStatus"}
      BY <2>1, <2>7 DEF Stored
    <2> QED BY <2>5, <2>6, <2>7
  <1>2. CASE Boot \/ ScheduleEvent \/ Crash \/ (\E m \in PeerMessages : Inbound(m))
               \/ (\E id \in TimerId : Fire(id)) \/ UNCHANGED vars
    <2>1. db' = db
      BY <1>2 DEF Boot, ScheduleEvent, Crash, Inbound, Fire, vars
    <2> QED BY <2>1
  <1> QED BY <1>1, <1>2 DEF Next

LEMMA ProcessIndexed ==
    ASSUME N = 3 * Faults + 1, NEW H \in SUBSET Index, Cardinality(Index \ H) <= Faults,
           SignOnce(H), NodeInv, DbTyped, Indexed, Process
    PROVE  Indexed'
  <1> DEFINE e == Head(events)
             cv == e.body
             k == vertex_key(cv.vertex)
  <1>1. e \in Events
    <2>1. events # <<>>
      BY DEF Process
    <2> QED BY <2>1, QueueFacts DEF NodeInv
  <1>2. \/ db' = db /\ dag' = dag
        \/ /\ e.kind = "CertifiedVertexReceived" /\ verify_certified_vertex(cv)
           /\ db' = put_raw(db, "vertex", k, cv) /\ dag' = Append(dag, cv)
    BY DEF Process, ProcessCertificate, ingest, put_vertex
  <1>3. CASE db' = db /\ dag' = dag
    BY <1>3 DEF Indexed
  <1>4. CASE /\ e.kind = "CertifiedVertexReceived" /\ verify_certified_vertex(cv)
             /\ db' = put_raw(db, "vertex", k, cv) /\ dag' = Append(dag, cv)
    <2>1. cv \in Certs \cup OwnCerts
      BY <1>1, <1>4 DEF Events
    <2> DEFINE f == db["vertex"]
               g == db'["vertex"]
    <2>2. g = Put(f, k, cv)
      <3>1. "vertex" \in Columns /\ DOMAIN db = Columns
        BY DEF DbTyped, Columns
      <3> HIDE DEF k, cv
      <3> QED BY <1>4, <3>1, PutRawFacts
    <2> HIDE DEF e, cv, k, f, g
    <2>3. DOMAIN g = DOMAIN f \cup {k} /\ g[k] = cv /\ \A x \in DOMAIN f : x # k => g[x] = f[x]
      BY <2>2 DEF Put
    <2>4. /\ dag' \in Seq(Certs \cup OwnCerts)
          /\ DOMAIN dag' = DOMAIN dag \cup {Len(dag) + 1}
          /\ \A i \in DOMAIN dag : dag'[i] = dag[i]
          /\ dag'[Len(dag) + 1] = cv
      BY <1>4, <2>1, AppendFacts DEF Indexed
    <2>5. ASSUME NEW i \in DOMAIN dag'
          PROVE  /\ verify_certified_vertex(dag'[i])
                 /\ vertex_key(dag'[i].vertex) \in DOMAIN g
                 /\ g[vertex_key(dag'[i].vertex)].vertex = dag'[i].vertex
      <3>1. CASE dag'[i] = cv
        BY <1>4, <2>3, <3>1 DEF k
      <3>2. CASE i \in DOMAIN dag
        <4> DEFINE c == dag[i]
        <4>1. /\ c \in Certs \cup OwnCerts /\ verify_certified_vertex(c)
              /\ vertex_key(c.vertex) \in DOMAIN f /\ f[vertex_key(c.vertex)].vertex = c.vertex
          BY <3>2 DEF Indexed, f
        <4>2. dag'[i] = c
          BY <2>4, <3>2
        <4> HIDE DEF c
        <4>3. CASE vertex_key(c.vertex) = k
          <5>1. c.vertex = cv.vertex
            BY <1>4, <2>1, <4>1, <4>3, CertsAgree DEF k
          <5> QED BY <2>3, <4>1, <4>2, <4>3, <5>1
        <4>4. CASE vertex_key(c.vertex) # k
          BY <2>3, <4>1, <4>2, <4>4
        <4> QED BY <4>3, <4>4
      <3> QED BY <2>4, <3>1, <3>2
    <2> QED BY <2>4, <2>5 DEF Indexed, g
  <1> QED BY <1>2, <1>3, <1>4

(***************************************************************************)
(* The causal-set query never answers with two vertices of one slot, and   *)
(* the vertex column holds the one it answers with, whatever certificates  *)
(* peers gossip: padding bits, signers counted twice and bitmaps of other  *)
(* lengths included.  With n = 3f + 1 validators of which all but f sign   *)
(* one vertex per slot.                                                    *)
(***************************************************************************)
THEOREM DagUnforked ==
    ASSUME N = 3 * Faults + 1, NEW H \in SUBSET Index, Cardinality(Index \ H) <= Faults,
           SignOnce(H)
    PROVE  Spec => []NoForkedVertex
  <1>1. Init => Indexed
    <2> SUFFICES ASSUME Init PROVE Indexed
      OBVIOUS
    <2>1. dag \in Seq(Certs \cup OwnCerts) /\ DOMAIN dag = {}
      BY DEF Init
    <2> QED BY <2>1 DEF Indexed
  <1>2. NodeInv /\ DbTyped /\ Indexed /\ [Next]_vars => Indexed'
    <2> SUFFICES ASSUME NodeInv, DbTyped, Indexed, [Next]_vars PROVE Indexed'
      OBVIOUS
    <2>1. CASE Process
      BY <2>1, ProcessIndexed
    <2>2. CASE ~Process
      <3>1. db'["vertex"] = db["vertex"]
        BY <2>2, VertexColumn
      <3>2. CASE Crash
        <4>1. dag' \in Seq(Certs \cup OwnCerts) /\ DOMAIN dag' = {}
          BY <3>2 DEF Crash
        <4> QED BY <4>1 DEF Indexed
      <3>3. CASE ~Crash
        <4>1. dag' = dag
          BY <2>2, <3>3 DEF Next, Boot, Dispatch, ScheduleEvent, Inbound, Fire, vars, memory
        <4> QED BY <3>1, <4>1 DEF Indexed
      <3> QED BY <3>2, <3>3
    <2> QED BY <2>1, <2>2
  <1>3. Indexed => NoForkedVertex
    <2> SUFFICES ASSUME Indexed, NEW cv \in causal_set(0, MaxRound)
                 PROVE  \E stored \in get_vertex(db, cv.vertex) : stored.vertex = cv.vertex
      BY DEF NoForkedVertex
    <2>1. PICK i \in DOMAIN dag : cv = dag[i]
      BY DEF causal_set, vertices_at_round, ToSet
    <2>2. /\ vertex_key(cv.vertex) \in DOMAIN db["vertex"]
          /\ db["vertex"][vertex_key(cv.vertex)].vertex = cv.vertex
      BY <2>1 DEF Indexed
    <2> QED BY <2>2 DEF get_vertex, has_raw
  <1> QED BY <1>1, <1>2, <1>3, TypedAlways, PTL DEF Spec

=============================================================================
