--------------------------- MODULE GameClientProofs ---------------------------
(***************************************************************************)
(* The promises a game client keeps, for all values of the constants.      *)
(*                                                                         *)
(* Input leases, for every length of a lease, every course of assignments  *)
(* and every bound on connections, transfers and packets: buttons cannot   *)
(* stick, an old packet controls nothing, what was pressed on one          *)
(* controller moves no other, and a lease is honoured to its end.          *)
(*                                                                         *)
(* A load of saved progress, for any guests and any number of loads,       *)
(* resumptions and faults: a game starts with every machine at the one     *)
(* state, what a load replaced can be put back while it may be undone, and *)
(* a failed load is over only when it is undone.  The invariant (World) is *)
(* about the road of a member, which is what it was told and has not acted *)
(* upon, and about the requests its machine has not handled: no commit is  *)
(* left behind a rollback, a boundary or a barrier that was answered for.  *)
(***************************************************************************)
EXTENDS InputLease, SharedLoad, FiniteSets, FiniteSetTheorems, SequenceTheorems, TLAPS

Packet == [gen : Nat, id : Nat, rev : Nat, mask : Mask, left : Terms, old : BOOLEAN, age : Terms]

\* The slot of the host is the one its course has for the assignment in force,
\* and so is the slot of the assignment that waits.
Assigned(h) ==
  /\ {"at", "rev", "slot", "pending", "leases", "control", "accepted", "gen",
      "busy", "ready", "recovering", "since", "outgoing"} \subseteq DOMAIN h
  /\ h.at \in Nat /\ h.rev \in Nat
  /\ h.slot = course[h.rev]
  /\ h.pending # None => h.pending.rev \in Nat /\ h.pending.slot = course[h.pending.rev]

\* Leases are of the connection, run, end one after another, and are there only
\* while the guest owns a controller.
Ordered(leases) == \A i, j \in DOMAIN leases : i < j => leases[i].left < leases[j].left
Running(leases, gen) ==
  \A i \in DOMAIN leases : leases[i].left > 0 /\ ~leases[i].old /\ leases[i].gen = gen
Leased(h) ==
  /\ h.gen \in Nat /\ h.leases \in Seq(Lease)
  /\ Ordered(h.leases) /\ Running(h.leases, h.gen)
  /\ h.leases # <<>> => Owns(h.slot) /\ h.gen # 0

\* What is held and what was pressed came from the guest, in this slot, and the
\* time since then and the time it still has make up at most one term.
Controlled(h) ==
  h.control # None =>
    /\ h.control \in Control /\ ~h.control.old
    /\ h.accepted # 0 /\ course[h.control.rev] = h.slot
    /\ h.control.age + h.control.left <= LeaseTicks
    /\ h.control.press # None => h.control.press.age + h.control.press.left <= LeaseTicks

HostOK(h) == Assigned(h) /\ Leased(h) /\ Controlled(h)

\* What is on its way under a lease the host still has was sent since it was
\* issued, and nothing of it is from before the guest lost control.
Current(leases, sent, issued, held) ==
  \A i \in DOMAIN leases :
    /\ \A j \in DOMAIN sent : sent[j].id = leases[i].id
         => ~sent[j].old /\ sent[j].age + leases[i].left <= LeaseTicks
    /\ \A j \in DOMAIN issued : issued[j].id = leases[i].id => ~issued[j].old
    /\ held # None /\ held.id = leases[i].id => ~held.old

Inv ==
  /\ revision \in Nat
  /\ HostOK(host)
  /\ {"at", "gen", "mode", "lease"} \subseteq DOMAIN guest
  /\ guest.gen \in Nat /\ guest.lease \in Lease \cup {None}
  /\ up \in Seq(Packet) /\ down \in Seq(Lease)
  /\ "link" \in DOMAIN drawn /\ drawn.link \in Nat
  /\ Current(host.leases, up, down, guest.lease)
-----------------------------------------------------------------------------
(* The host's helpers.                                                     *)

\* What is absent is no lease, no key press and no control.
LEMMA NoneIsNoRecord == None \notin Lease /\ None \notin Press /\ None \notin Control
BY NoneAssumption

\* A step that leaves what the invariant is about leaves the invariant.
LEMMA Untouched ==
  ASSUME NEW h, NEW k, HostOK(h), DOMAIN k = DOMAIN h,
         k.at \in Nat, k.rev = h.rev, k.slot = h.slot, k.pending = h.pending,
         k.leases = h.leases, k.gen = h.gen, k.control = h.control, k.accepted = h.accepted
  PROVE  HostOK(k)
BY DEF HostOK, Assigned, Leased, Controlled

\* Revoked input leaves no lease and no control.
LEMMA RevokeOK ==
  ASSUME NEW h, HostOK(h)
  PROVE  /\ HostOK(Revoke(h)) /\ Revoke(h).leases = <<>> /\ Revoke(h).control = None
         /\ DOMAIN Revoke(h) = DOMAIN h
         /\ Revoke(h).at = h.at /\ Revoke(h).rev = h.rev /\ Revoke(h).slot = h.slot
         /\ Revoke(h).pending = h.pending /\ Revoke(h).gen = h.gen /\ Revoke(h).accepted = 0
<1>. DEFINE k == Revoke(h)
<1>1. /\ k.leases = <<>> /\ k.control = None /\ DOMAIN k = DOMAIN h
      /\ k.at = h.at /\ k.rev = h.rev /\ k.slot = h.slot
      /\ k.pending = h.pending /\ k.gen = h.gen /\ k.accepted = 0
  BY DEF Revoke, HostOK, Assigned
<1>. HIDE DEF k
<1>2. Assigned(k) BY <1>1 DEF HostOK, Assigned
<1>3. Leased(k) BY <1>1 DEF HostOK, Leased, Ordered, Running
<1>4. Controlled(k) BY <1>1 DEF Controlled
<1>5. HostOK(k) BY <1>2, <1>3, <1>4 DEF HostOK
<1>. QED BY <1>1, <1>5 DEF k

\* An assignment that takes effect leaves the leases or ends them all.
LEMMA ApplyOK ==
  ASSUME NEW h, HostOK(h)
  PROVE  /\ HostOK(ApplyAssignment(h))
         /\ ApplyAssignment(h).leases \in {h.leases, <<>>}
         /\ DOMAIN ApplyAssignment(h) = DOMAIN h
         /\ ApplyAssignment(h).gen = h.gen
<1>1. CASE h.pending = None BY <1>1 DEF ApplyAssignment
<1>2. CASE h.pending # None
  <2>. DEFINE c == IF h.pending.rev = h.rev THEN h ELSE [h EXCEPT !.leases = <<>>]
              s == IF h.accepted # 0 /\ h.slot # h.pending.slot THEN Revoke(c) ELSE c
              k == [s EXCEPT !.pending = None, !.rev = h.pending.rev, !.slot = h.pending.slot]
  <2>1. ApplyAssignment(h) = k BY <1>2 DEF ApplyAssignment
  <2>2. /\ HostOK(c) /\ c.leases \in {h.leases, <<>>} /\ DOMAIN c = DOMAIN h /\ c.gen = h.gen
        /\ h.pending.rev # h.rev => c.leases = <<>>
        /\ c.pending = h.pending /\ c.slot = h.slot /\ c.rev = h.rev /\ c.at = h.at
        /\ c.accepted = h.accepted
    <3>1. CASE h.pending.rev = h.rev BY <3>1
    <3>2. CASE h.pending.rev # h.rev
      <4>1. /\ c.leases = <<>> /\ c.control = h.control /\ DOMAIN c = DOMAIN h
            /\ c.at = h.at /\ c.rev = h.rev /\ c.slot = h.slot
            /\ c.pending = h.pending /\ c.gen = h.gen /\ c.accepted = h.accepted
        BY <3>2 DEF HostOK, Assigned
      <4>. HIDE DEF c
      <4>2. Assigned(c) BY <4>1 DEF HostOK, Assigned
      <4>3. Leased(c) BY <4>1 DEF HostOK, Leased, Ordered, Running
      <4>4. Controlled(c) BY <4>1 DEF HostOK, Controlled
      <4>. QED BY <4>1, <4>2, <4>3, <4>4 DEF HostOK
    <3>. QED BY <3>1, <3>2
  <2>. HIDE DEF c
  <2>3. /\ HostOK(s) /\ s.leases \in {h.leases, <<>>} /\ DOMAIN s = DOMAIN h /\ s.gen = h.gen
        /\ h.pending.rev # h.rev => s.leases = <<>>
        /\ s.pending = h.pending /\ s.slot = h.slot /\ s.rev = h.rev /\ s.at = h.at
        /\ s.accepted = 0 \/ h.slot = h.pending.slot
    BY <2>2, RevokeOK
  <2>. HIDE DEF s
  <2>4. /\ k.leases = s.leases /\ k.gen = s.gen /\ DOMAIN k = DOMAIN s /\ k.at = s.at
        /\ k.control = s.control /\ k.accepted = s.accepted
    BY <2>3 DEF HostOK, Assigned
  <2>5. k.pending = None /\ k.rev = h.pending.rev /\ k.slot = h.pending.slot
    BY <2>3 DEF HostOK, Assigned
  <2>. HIDE DEF k
  <2>6. Assigned(k) BY <1>2, <2>3, <2>4, <2>5 DEF HostOK, Assigned
  <2>8. Leased(k) BY <2>3, <2>4, <2>5, <1>2 DEF HostOK, Leased, Assigned
  <2>9. Controlled(k) BY <2>3, <2>4, <2>5 DEF HostOK, Controlled
  <2>. QED BY <2>1, <2>3, <2>4, <2>6, <2>8, <2>9 DEF HostOK
<1>. QED BY <1>1, <1>2

\* The identity of a new lease is one nobody remembers: fewer are remembered
\* than there are to choose from.
LEMMA FreshIsFresh ==
  ASSUME Inv
  PROVE  FreshId \in Nat /\ FreshId \notin Known
<1>. DEFINE a == Len(host.leases)
            b == Len(down)
            c == Len(up)
            n == a + b + c + 1
            id(k) == IF k <= a THEN host.leases[k].id
                     ELSE IF k <= a + b THEN down[k - a].id
                     ELSE IF k <= a + b + c THEN up[k - (a + b)].id
                     ELSE guest.lease.id
<1>1. a \in Nat /\ b \in Nat /\ c \in Nat BY LenProperties DEF Inv, HostOK, Leased
<1>2. DOMAIN host.leases = 1..a /\ DOMAIN down = 1..b /\ DOMAIN up = 1..c
  BY LenProperties DEF Inv, HostOK, Leased
<1>3. ASSUME NEW x \in Known
      PROVE  \E k \in 1..n : id(k) = x
  <2>1. CASE \E i \in DOMAIN host.leases : x = host.leases[i].id BY <2>1, <1>1, <1>2
  <2>2. CASE \E i \in DOMAIN down : x = down[i].id
    <3>1. PICK i \in 1..b : x = down[i].id BY <2>2, <1>2
    <3>. HIDE <1>1
    <3>2. /\ i + a \in 1..n /\ ~(i + a <= a) /\ i + a <= a + b /\ (i + a) - a = i BY <1>1
    <3>3. id(i + a) = x BY <3>1, <3>2
    <3>. QED BY <3>2, <3>3
  <2>3. CASE \E i \in DOMAIN up : x = up[i].id
    <3>1. PICK i \in 1..c : x = up[i].id BY <2>3, <1>2
    <3>2. LET m == i + (a + b)
          IN  m \in 1..n /\ ~(m <= a) /\ ~(m <= a + b) /\ m <= a + b + c /\ m - (a + b) = i
      BY <1>1
    <3>3. id(i + (a + b)) = x BY <3>1, <3>2
    <3>. QED BY <3>2, <3>3
  <2>4. CASE x = guest.lease.id
    <3>1. n \in 1..n /\ ~(n <= a) /\ ~(n <= a + b) /\ ~(n <= a + b + c) BY <1>1
    <3>2. id(n) = x BY <2>4, <3>1
    <3>. QED BY <3>1, <3>2
  <2>. QED BY <2>1, <2>2, <2>3, <2>4 DEF Known
<1>4. \E x \in 1..(n + 1) : x \notin Known
  <2>. SUFFICES ASSUME \A x \in 1..(n + 1) : x \in Known
                PROVE  FALSE
    OBVIOUS
  <2>. DEFINE f == [x \in 1..(n + 1) |-> CHOOSE k \in 1..n : id(k) = x]
  <2>1. \A x \in 1..(n + 1) : f[x] \in 1..n /\ id(f[x]) = x BY <1>3
  <2>2. f \in [1..(n + 1) -> 1..n] BY <2>1
  <2>. HIDE DEF f, id
  <2>3. \A x, y \in 1..(n + 1) : f[x] = f[y] => x = y BY <2>1, Zenon
  <2>4. /\ IsFiniteSet(1..(n + 1)) /\ Cardinality(1..(n + 1)) = n + 1
        /\ IsFiniteSet(1..n) /\ Cardinality(1..n) = n
    <3>1. n \in Nat \ {0} BY <1>1
    <3>. HIDE DEF n
    <3>. QED BY <3>1, FS_Interval
  <2>5. Cardinality(1..n) < Cardinality(1..(n + 1))
    <3>1. n \in Nat BY <1>1
    <3>. HIDE DEF n
    <3>. QED BY <3>1, <2>4
  <2>6. ASSUME NEW S, NEW R, IsFiniteSet(S), IsFiniteSet(R), f \in [S -> R],
               Cardinality(R) < Cardinality(S)
        PROVE  \E x, y \in S : x # y /\ f[x] = f[y]
    BY <2>6, FS_PigeonHole
  <2>. HIDE DEF n
  <2>. QED BY <2>2, <2>3, <2>4, <2>5, <2>6
<1>5. n + 1 = 1 + a + b + c + 1 /\ 1..(n + 1) \subseteq Nat BY <1>1
<1>6. FreshId = CHOOSE x \in 1..(n + 1) : x \notin Known BY <1>5 DEF FreshId
<1>. HIDE DEF n
<1>. QED BY <1>4, <1>5, <1>6

\* A grant adds at most one lease, of the connection and with the full term.
LEMMA GrantOK ==
  ASSUME Inv, NEW h, HostOK(h), h.gen # 0, Owns(h.slot)
  PROVE  /\ HostOK(Grant(h)) /\ DOMAIN Grant(h) = DOMAIN h /\ Grant(h).gen = h.gen
         /\ Grant(h).leases # <<>>
         /\ \A i \in DOMAIN Grant(h).leases :
              \/ i \in DOMAIN h.leases /\ Grant(h).leases[i] = h.leases[i]
              \/ Grant(h).leases[i].id = FreshId
<1>. DEFINE before == IF h.accepted # 0 THEN h.accepted
                      ELSE IF h.leases # <<>> THEN Last(h.leases).gen ELSE h.gen
            own == IF before = h.gen THEN h ELSE Revoke(h)
            lease == [id |-> FreshId, gen |-> h.gen, rev |-> h.rev, left |-> LeaseTicks, old |-> FALSE]
            recent == own.leases # <<>> /\ LeaseTicks - Last(own.leases).left < RenewTicks
            k == [own EXCEPT !.leases = Append(own.leases, lease)]
<1>1. Grant(h) = IF recent THEN own ELSE k BY DEF Grant
<1>2. /\ HostOK(own) /\ DOMAIN own = DOMAIN h /\ own.gen = h.gen
      /\ own.leases \in {h.leases, <<>>} /\ own.slot = h.slot
  BY RevokeOK
<1>3. lease \in Lease /\ lease.left = LeaseTicks /\ ~lease.old /\ lease.gen = h.gen /\ lease.id = FreshId
  BY FreshIsFresh, LeaseAssumption DEF Lease, Terms, HostOK, Assigned, Leased
<1>. HIDE DEF own, lease
<1>4. CASE recent BY <1>1, <1>2, <1>4
<1>5. CASE ~recent
  <2>1. own.leases \in Seq(Lease) BY <1>2 DEF HostOK, Leased
  <2>. DEFINE s == own.leases
              t == Append(s, lease)
  <2>2. /\ t \in Seq(Lease) /\ t # <<>> /\ Len(t) = Len(s) + 1 /\ Len(s) \in Nat
        /\ \A i \in 1..Len(s) : t[i] = s[i]
        /\ t[Len(s) + 1] = lease
        /\ DOMAIN t = 1..(Len(s) + 1) /\ DOMAIN s = 1..Len(s)
    BY <1>3, <2>1, AppendProperties, LenProperties
  <2>3. /\ k.leases = t /\ k.gen = own.gen /\ DOMAIN k = DOMAIN own /\ k.at = own.at
        /\ k.rev = own.rev /\ k.slot = own.slot /\ k.pending = own.pending
        /\ k.control = own.control /\ k.accepted = own.accepted
    BY <1>2 DEF HostOK, Assigned
  <2>4. \A i \in 1..Len(s) : s[i] \in Lease /\ s[i].left \in Nat
    <3>1. \A i \in 1..Len(s) : s[i] \in Lease BY <2>1, ElementOfSeq
    <3>2. \A l \in Lease : l.left \in Nat BY LeaseAssumption DEF Lease, Terms
    <3>. QED BY <3>1, <3>2
  <2>5. ASSUME NEW i \in 1..Len(s)
        PROVE  s[i].left < LeaseTicks
    <3>1. s[Len(s)].left < LeaseTicks
      <4>1. Last(s) = s[Len(s)] /\ s # <<>> BY <2>2 DEF Last
      <4>. QED BY <1>5, <4>1, LeaseAssumption, <2>2, <2>4
    <3>2. i < Len(s) => s[i].left < s[Len(s)].left BY <1>2, <2>2 DEF HostOK, Leased, Ordered
    <3>. QED BY <3>1, <3>2, <2>2, <2>4, LeaseAssumption
  <2>6. Ordered(t)
    <3>. SUFFICES ASSUME NEW i \in DOMAIN t, NEW j \in DOMAIN t, i < j
                  PROVE  t[i].left < t[j].left
      BY DEF Ordered
    <3>1. CASE j = Len(s) + 1 BY <3>1, <2>2, <2>5, <1>3
    <3>2. CASE j # Len(s) + 1 BY <3>2, <2>2, <1>2 DEF HostOK, Leased, Ordered
    <3>. QED BY <3>1, <3>2
  <2>7. Running(t, h.gen) BY <1>2, <1>3, LeaseAssumption, <2>2 DEF HostOK, Leased, Running
  <2>8. \A i \in DOMAIN t : (i \in DOMAIN h.leases /\ t[i] = h.leases[i]) \/ t[i].id = FreshId
    <3>. SUFFICES ASSUME NEW i \in DOMAIN t, t[i].id # FreshId
                  PROVE  i \in DOMAIN h.leases /\ t[i] = h.leases[i]
      OBVIOUS
    <3>1. i \in DOMAIN s /\ t[i] = s[i] BY <2>2, <1>3
    <3>2. s = h.leases BY <3>1, <1>2, <2>2, EmptySeq
    <3>. QED BY <3>1, <3>2
  <2>. HIDE DEF k, t, recent
  <2>9. HostOK(k) BY <1>2, <2>3, <2>2, <2>6, <2>7 DEF HostOK, Assigned, Leased, Controlled
  <2>. QED BY <1>1, <1>2, <1>5, <2>2, <2>3, <2>8, <2>9
<1>. QED BY <1>4, <1>5

\* What the sampling timer does to the host and to its channel.
LEMMA RenewOK ==
  ASSUME Inv, NEW h, HostOK(h), h.leases = host.leases
  PROVE  /\ HostOK(Renewed(h)) /\ DOMAIN Renewed(h) = DOMAIN h
         /\ Leasing(h) \in Seq(Lease)
         /\ Current(Renewed(h).leases, up, Leasing(h), guest.lease)
<1>. DEFINE r == Renewed(h)
<1>1. CASE ~Due(h) BY <1>1 DEF Renewed, Leasing, Inv
<1>2. CASE Due(h)
  <2>. DEFINE g == Grant(h)
  <2>1. /\ HostOK(g) /\ DOMAIN g = DOMAIN h /\ g.gen = h.gen /\ g.leases # <<>>
        /\ \A i \in DOMAIN g.leases : (i \in DOMAIN h.leases /\ g.leases[i] = h.leases[i])
                                     \/ g.leases[i].id = FreshId
    BY <1>2, GrantOK DEF Due
  <2>. HIDE DEF g
  <2>2. r = [g EXCEPT !.since = 0] BY <1>2 DEF Renewed, g
  <2>3. /\ DOMAIN r = DOMAIN g /\ r.at = g.at /\ r.rev = g.rev /\ r.slot = g.slot
        /\ r.pending = g.pending /\ r.leases = g.leases /\ r.gen = g.gen
        /\ r.control = g.control /\ r.accepted = g.accepted
    BY <2>1, <2>2 DEF HostOK, Assigned
  <2>. HIDE DEF r
  <2>4. HostOK(r) BY <2>1, <2>3, Untouched DEF HostOK, Assigned
  <2>. DEFINE l == Last(r.leases)
              d == Append(down, l)
  <2>5. Leasing(h) = d BY <1>2 DEF Leasing, r
  <2>7. l \in Lease /\ ~l.old
    BY <2>4, <2>1, <2>3, EmptySeq, LenProperties, ElementOfSeq DEF HostOK, Leased, Running, Last
  <2>8. /\ d \in Seq(Lease) /\ Len(d) = Len(down) + 1 /\ Len(down) \in Nat
        /\ \A j \in 1..Len(down) : d[j] = down[j]
        /\ d[Len(down) + 1] = l
        /\ DOMAIN d = 1..(Len(down) + 1) /\ DOMAIN down = 1..Len(down)
    BY <2>7, AppendProperties, LenProperties DEF Inv
  <2>. HIDE DEF d
  <2>10. \A j \in DOMAIN d : (j \in DOMAIN down /\ d[j] = down[j]) \/ ~d[j].old BY <2>7, <2>8
  <2>11. Current(r.leases, up, d, guest.lease)
    <3>. SUFFICES ASSUME NEW i \in DOMAIN r.leases
                  PROVE  /\ \A j \in DOMAIN up : up[j].id = r.leases[i].id
                              => ~up[j].old /\ up[j].age + r.leases[i].left <= LeaseTicks
                         /\ \A j \in DOMAIN d : d[j].id = r.leases[i].id => ~d[j].old
                         /\ guest.lease # None /\ guest.lease.id = r.leases[i].id => ~guest.lease.old
      BY DEF Current
    <3>1. CASE i \in DOMAIN host.leases /\ r.leases[i] = host.leases[i]
      BY <3>1, <2>10 DEF Inv, Current
    <3>2. CASE r.leases[i].id \notin Known BY <3>2, <2>10 DEF Known
    <3>. QED BY <3>1, <3>2, <2>1, <2>3, FreshIsFresh
  <2>. QED BY <2>1, <2>3, <2>4, <2>5, <2>8, <2>11 DEF r
<1>. QED BY <1>1, <1>2

\* An accepted input becomes what the controller holds, for the rest of a term.
LEMMA AcceptedOK ==
  ASSUME Inv, NEW j \in DOMAIN up, Accepts(host, up[j]), host.gen = up[j].gen
  PROVE  /\ HostOK(Accepted(host, up[j])) /\ DOMAIN Accepted(host, up[j]) = DOMAIN host
         /\ Accepted(host, up[j]).leases = host.leases
         /\ Accepted(host, up[j]).control # None
         /\ Accepted(host, up[j]).control.held = up[j].mask
<1>. DEFINE p == up[j]
            i == CHOOSE n \in DOMAIN host.leases : Valid(host.leases[n], p)
            left == host.leases[i].left
            c == host.control
            held == IF c # None /\ c.left > 0 THEN c.held ELSE Neutral
            press == IF p.mask \ held # {} THEN [mask |-> p.mask, left |-> left, age |-> p.age]
                     ELSE IF c # None /\ c.press # None /\ c.press.left > 0 THEN c.press ELSE None
            control == [held |-> p.mask, press |-> press, left |-> left, rev |-> p.rev,
                        old |-> p.old, age |-> p.age]
            k == [host EXCEPT !.accepted = p.gen, !.control = control]
<1>1. p \in Packet BY ElementOfSeq, LenProperties DEF Inv
<1>2. i \in DOMAIN host.leases /\ host.leases[i].id = p.id BY DEF Accepts, Valid
<1>3. host.leases[i] \in Lease BY <1>2, ElementOfSeq, LenProperties DEF Inv, HostOK, Leased
<1>4. p.rev = host.rev /\ host.gen # 0
  BY <1>2, EmptySeq, LenProperties DEF Accepts, Inv, HostOK, Leased
<1>5. ~p.old /\ p.age + left <= LeaseTicks BY <1>2 DEF Inv, Current
<1>. HIDE DEF i
<1>6. left \in Terms /\ p.mask \in Mask /\ p.age \in Terms /\ p.rev \in Nat /\ p.old \in BOOLEAN
  BY <1>1, <1>3 DEF Lease, Packet
<1>7. Accepted(host, p) = k BY DEF Accepted, i
<1>. HIDE DEF left
<1>8. press \in Press \cup {None} /\ (press # None => press.age + press.left <= LeaseTicks)
  BY <1>6, <1>5 DEF Press, Inv, HostOK, Controlled, Control
<1>. HIDE DEF press
<1>9. /\ control \in Control /\ control.press = press /\ control.held = p.mask
      /\ control.left = left /\ control.age = p.age /\ control.old = p.old /\ control.rev = p.rev
  BY <1>6, <1>8 DEF Control
<1>10. control # None BY <1>9, NoneIsNoRecord
<1>. HIDE DEF control
<1>11. /\ DOMAIN k = DOMAIN host /\ k.at = host.at /\ k.rev = host.rev /\ k.slot = host.slot
       /\ k.pending = host.pending /\ k.leases = host.leases /\ k.gen = host.gen
       /\ k.control = control /\ k.accepted = p.gen
  BY DEF Inv, HostOK, Assigned
<1>. HIDE DEF k
<1>12. HostOK(k) BY <1>11, <1>4, <1>9, <1>5, <1>8 DEF Inv, HostOK, Assigned, Leased, Controlled
<1>. QED BY <1>7, <1>9, <1>10, <1>11, <1>12

\* Time passes for what the controller holds.
LEMMA AgedOK ==
  ASSUME Inv
  PROVE  LET c == host.control
             a == Aged(c)
         IN  /\ c = None => a = None
             /\ c # None =>
                  /\ a \in Control /\ a.rev = c.rev /\ a.old = c.old
                  /\ a.age + a.left <= LeaseTicks
                  /\ a.press # None => a.press.age + a.press.left <= LeaseTicks
<1>1. \A n \in Terms : Less(n) \in Terms /\ Older(n) \in Terms
  BY LeaseAssumption DEF Terms, Less, Older
<1>2. \A m, n \in Terms : m + n <= LeaseTicks => Older(m) + Less(n) <= LeaseTicks
  BY LeaseAssumption DEF Terms, Less, Older
<1>. SUFFICES ASSUME host.control # None
              PROVE  LET c == host.control
                         a == Aged(c)
                     IN  /\ a \in Control /\ a.rev = c.rev /\ a.old = c.old
                         /\ a.age + a.left <= LeaseTicks
                         /\ a.press # None => a.press.age + a.press.left <= LeaseTicks
  BY DEF Aged
<1>. DEFINE c == host.control
            p == IF c.press = None THEN None
                 ELSE [c.press EXCEPT !.left = Less(c.press.left), !.age = Older(c.press.age)]
            a == [c EXCEPT !.left = Less(c.left), !.age = Older(c.age), !.press = p]
<1>3. c \in Control /\ c.age + c.left <= LeaseTicks
      /\ (c.press # None => c.press.age + c.press.left <= LeaseTicks)
  BY DEF Inv, HostOK, Controlled
<1>4. Aged(c) = a BY DEF Aged
<1>. HIDE DEF c
<1>5. p \in Press \cup {None} /\ (p # None => p.age + p.left <= LeaseTicks)
  BY <1>3, <1>1, <1>2 DEF Control, Press
<1>. HIDE DEF p
<1>6. c.left \in Terms /\ c.age \in Terms BY <1>3 DEF Control
<1>7. /\ a \in Control /\ a.rev = c.rev /\ a.old = c.old /\ a.press = p
      /\ a.left = Less(c.left) /\ a.age = Older(c.age)
  BY <1>1, <1>3, <1>5, <1>6 DEF Control
<1>. HIDE DEF a
<1>8. a.age + a.left <= LeaseTicks BY <1>2, <1>3, <1>6, <1>7
<1>. QED BY <1>4, <1>5, <1>7, <1>8 DEF c

\* A shortened lease is the same otherwise.
LEMMA ShorterIs ==
  ASSUME NEW x \in Lease
  PROVE  /\ Shorter(x) \in Lease /\ Shorter(x).id = x.id /\ Shorter(x).gen = x.gen
         /\ Shorter(x).rev = x.rev /\ Shorter(x).left = Less(x.left) /\ Shorter(x).old = x.old
BY LeaseAssumption DEF Shorter, Lease, Terms, Less

\* Shortened leases are as many as before.
LEMMA ShorterSeq ==
  ASSUME NEW s \in Seq(Lease), NEW d, d = [i \in DOMAIN s |-> Shorter(s[i])]
  PROVE  /\ d \in Seq(Lease) /\ DOMAIN d = DOMAIN s
         /\ \A j \in DOMAIN s : d[j].id = s[j].id /\ d[j].old = s[j].old
BY LenProperties, ElementOfSeq, ShorterIs, SeqDef

\* Time passes for the leases: every one is shorter, and one that is over is gone.
LEMMA ShorterOK ==
  ASSUME NEW leases \in Seq(Lease), NEW gen, Ordered(leases), Running(leases, gen)
  PROVE  LET u == Unexpired([i \in DOMAIN leases |-> Shorter(leases[i])])
         IN  /\ u \in Seq(Lease) /\ Ordered(u) /\ Running(u, gen)
             /\ u # <<>> => leases # <<>>
             /\ \A i \in DOMAIN u : \E k \in DOMAIN leases :
                  u[i].id = leases[k].id /\ u[i].left + 1 = leases[k].left /\ u[i].rev = leases[k].rev
             /\ \A k \in DOMAIN leases : leases[k].left > 1 => \E i \in DOMAIN u : u[i] = Shorter(leases[k])
<1>. DEFINE n == Len(leases)
            a == [i \in DOMAIN leases |-> Shorter(leases[i])]
            u == Unexpired(a)
<1>1. n \in Nat /\ DOMAIN leases = 1..n /\ \A i \in 1..n : leases[i] \in Lease
  BY LenProperties, ElementOfSeq
<1>2. ASSUME NEW i \in 1..n
      PROVE  /\ a[i] \in Lease /\ a[i].id = leases[i].id /\ a[i].left + 1 = leases[i].left
             /\ a[i].rev = leases[i].rev /\ a[i] = Shorter(leases[i])
             /\ a[i].left \in Nat /\ ~a[i].old /\ a[i].gen = gen
  <2>1. leases[i] \in Lease /\ leases[i].left > 0 /\ ~leases[i].old /\ leases[i].gen = gen
    BY <1>1 DEF Running
  <2>3. Less(leases[i].left) \in Terms /\ Less(leases[i].left) + 1 = leases[i].left
        /\ Less(leases[i].left) \in Nat
    BY <2>1, LeaseAssumption DEF Lease, Terms, Less
  <2>4. a[i] = Shorter(leases[i]) BY <1>1
  <2>. QED BY <2>1, <1>1, <2>3, <2>4 DEF Lease, Shorter
<1>3. a \in Seq(Lease) /\ DOMAIN a = 1..n /\ Len(a) = n
  <2>1. DOMAIN a = 1..n BY <1>1
  <2>. HIDE DEF a
  <2>2. a = [i \in 1..n |-> a[i]] BY <2>1, <1>1 DEF a
  <2>3. a \in [1..n -> Lease] BY <2>2, <1>2
  <2>4. a \in Seq(Lease) BY <2>3, <1>1, SeqDef
  <2>. QED BY <2>1, <2>4, <1>1, LenProperties
<1>. HIDE DEF a
<1>4. \A i, j \in 1..n : i < j => a[i].left < a[j].left
  <2>. SUFFICES ASSUME NEW i \in 1..n, NEW j \in 1..n, i < j
                PROVE  a[i].left < a[j].left
    OBVIOUS
  <2>1. leases[i].left < leases[j].left BY <1>1 DEF Ordered
  <2>. QED BY <2>1, <1>2
<1>5. CASE a # <<>> /\ Head(a).left = 0
  <2>1. /\ u = Tail(a) /\ Tail(a) \in Seq(Lease) /\ n > 0 /\ Len(Tail(a)) = n - 1
        /\ \A i \in 1..(n - 1) : Tail(a)[i] = a[i + 1]
        /\ DOMAIN Tail(a) = 1..(n - 1)
        /\ a[1].left = 0
    BY <1>5, <1>1, <1>3, EmptySeq, HeadTailProperties, LenProperties DEF Unexpired
  <2>2. ASSUME NEW i \in 1..(n - 1)
        PROVE  i + 1 \in 1..n /\ u[i] = a[i + 1] /\ a[i + 1].left > 0
    BY <1>1, <2>1, <1>4
  <2>. HIDE DEF u
  <2>3. Ordered(u)
    <3>. SUFFICES ASSUME NEW i \in 1..(n - 1), NEW j \in 1..(n - 1), i < j
                  PROVE  u[i].left < u[j].left
      BY <2>1 DEF Ordered
    <3>1. i + 1 < j + 1 BY <1>1
    <3>. QED BY <3>1, <2>2, <1>4
  <2>4. Running(u, gen) BY <2>1, <2>2, <1>2 DEF Running
  <2>5. \A i \in DOMAIN u : \E k \in DOMAIN leases :
                  u[i].id = leases[k].id /\ u[i].left + 1 = leases[k].left /\ u[i].rev = leases[k].rev
    <3>. SUFFICES ASSUME NEW i \in 1..(n - 1)
                  PROVE  \E k \in 1..n : u[i].id = leases[k].id /\ u[i].left + 1 = leases[k].left
                                          /\ u[i].rev = leases[k].rev
      BY <1>1, <2>1
    <3>. QED BY <2>2, <1>2
  <2>6. leases # <<>> BY <1>1, <2>1, EmptySeq
  <2>7. ASSUME NEW k \in DOMAIN leases, leases[k].left > 1
        PROVE  \E i \in DOMAIN u : u[i] = Shorter(leases[k])
    <3>1. k \in 1..n /\ k # 1 BY <1>1, <1>2, <2>1, <2>7
    <3>2. k - 1 \in 1..(n - 1) /\ (k - 1) + 1 = k BY <1>1, <3>1
    <3>3. u[k - 1] = Shorter(leases[k]) BY <3>1, <3>2, <2>2, <1>2
    <3>. QED BY <3>2, <3>3, <2>1 DEF u
  <2>. QED BY <2>1, <2>3, <2>4, <2>5, <2>6, <2>7 DEF u, a
<1>6. CASE ~(a # <<>> /\ Head(a).left = 0)
  <2>1. u = a BY <1>6 DEF Unexpired
  <2>2. n > 0 => a[1].left > 0
    <3>. SUFFICES ASSUME n > 0
                  PROVE  a[1].left > 0
      OBVIOUS
    <3>1. a # <<>> /\ Head(a) = a[1] BY <1>3, EmptySeq
    <3>. QED BY <3>1, <1>1, <1>2, <1>6
  <2>3. ASSUME NEW i \in 1..n
        PROVE  a[i].left > 0
    BY <1>1, <1>2, <2>2, <1>4
  <2>4. Ordered(a) /\ Running(a, gen) BY <1>2, <1>3, <1>4, <2>3 DEF Ordered, Running
  <2>6. a # <<>> => leases # <<>> BY <1>3, EmptySeq
  <2>. HIDE DEF u
  <2>8. \A k \in DOMAIN leases : leases[k].left > 1 => \E i \in DOMAIN u : u[i] = Shorter(leases[k])
    BY <2>1, <1>1, <1>2, <1>3
  <2>9. /\ u \in Seq(Lease) /\ Ordered(u) /\ Running(u, gen)
        /\ u # <<>> => leases # <<>>
        /\ \A i \in DOMAIN u : \E k \in DOMAIN leases :
              u[i].id = leases[k].id /\ u[i].left + 1 = leases[k].left /\ u[i].rev = leases[k].rev
    BY <1>3, <2>1, <2>4, <1>1, <1>2, <2>6
  <2>. QED BY <2>8, <2>9 DEF u, a
<1>. QED BY <1>5, <1>6

\* What is marked as old is otherwise as it was.
LEMMA OutdatedOK ==
  /\ \A box \in Seq(Lease) : Outdated(box) \in Seq(Lease) /\ Len(Outdated(box)) = Len(box)
  /\ \A box \in Seq(Packet) : Outdated(box) \in Seq(Packet) /\ Len(Outdated(box)) = Len(box)
<1>1. ASSUME NEW box \in Seq(Lease)
      PROVE  Outdated(box) \in Seq(Lease) /\ Len(Outdated(box)) = Len(box)
  <2>1. Len(box) \in Nat /\ DOMAIN box = 1..Len(box) /\ \A i \in 1..Len(box) : box[i] \in Lease
    BY LenProperties, ElementOfSeq
  <2>3. Outdated(box) \in [1..Len(box) -> Lease] BY <2>1 DEF Outdated, Lease
  <2>. QED BY <2>1, <2>3, SeqDef, LenProperties
<1>2. ASSUME NEW box \in Seq(Packet)
      PROVE  Outdated(box) \in Seq(Packet) /\ Len(Outdated(box)) = Len(box)
  <2>1. Len(box) \in Nat /\ DOMAIN box = 1..Len(box) /\ \A i \in 1..Len(box) : box[i] \in Packet
    BY LenProperties, ElementOfSeq
  <2>3. Outdated(box) \in [1..Len(box) -> Packet] BY <2>1 DEF Outdated, Packet
  <2>. QED BY <2>1, <2>3, SeqDef, LenProperties
<1>. QED BY <1>1, <1>2

\* A guest that loses control keeps the shape of its state.
LEMMA LosesControlOK ==
  ASSUME Inv, LosesControl(guest)
  PROVE  /\ up' \in Seq(Packet) /\ Len(up') = Len(up) /\ down' \in Seq(Lease)
         /\ DOMAIN guest' = DOMAIN guest /\ guest'.gen = guest.gen
         /\ guest'.lease \in Lease \cup {None}
BY OutdatedOK DEF LosesControl, Inv, Lease

-----------------------------------------------------------------------------
(* Every step keeps the invariant.                                         *)

\* What becomes of the invariant when every lease of the host is gone.
LEMMA NoLeases ==
  ASSUME NEW u, NEW d, NEW g
  PROVE  Current(<<>>, u, d, g)
BY DEF Current

\* The initial states have the invariant.
LEMMA Initially == Init => Inv
<1>. SUFFICES ASSUME Init
              PROVE  Inv
  OBVIOUS
<1>1. HostOK(host) BY DEF Init, Assigned, Leased, Ordered, Running, Controlled, HostOK
<1>2. Current(host.leases, up, down, guest.lease) BY NoLeases DEF Init
<1>. QED BY <1>1, <1>2, EmptySeq DEF Init, Inv

\* HostRenews, and the frame that is dispatched after it.
LEMMA HostRenewsInv == Inv /\ HostRenews => Inv'
<1>. SUFFICES ASSUME Inv, HostRenews
              PROVE  Inv'
  OBVIOUS
<1>1. HostOK(host) BY DEF Inv
<1>2. HostOK(host') /\ down' \in Seq(Lease) /\ Current(host'.leases, up, down', guest.lease)
  BY <1>1, RenewOK DEF HostRenews
<1>3. HostOK(host)' BY <1>2 DEF HostRenews, HostOK, Assigned, Leased, Controlled
<1>. QED BY <1>2, <1>3 DEF HostRenews, Inv

\* A host that keeps leases only of those it had keeps them in step.
LEMMA FewerLeases ==
  ASSUME NEW ls, NEW ks, NEW u, NEW d, NEW g, Current(ls, u, d, g), ks \in {ls, <<>>}
  PROVE  Current(ks, u, d, g)
BY NoLeases

\* The host's frame dispatch preserves the invariant.
LEMMA HostDispatchInv == Inv /\ HostDispatch => Inv'
<1>. SUFFICES ASSUME Inv, HostDispatch
              PROVE  Inv'
  OBVIOUS
<1>. DEFINE r == Renewed(host)
            h == ApplyAssignment(r)
            c == IF Owns(h.slot) THEN h.control ELSE None
            v == IF c = None THEN h.control ELSE IF c.left = 0 THEN None ELSE [c EXCEPT !.press = None]
            k == [h EXCEPT !.busy = TRUE, !.control = v]
<1>1. /\ HostOK(r) /\ down' \in Seq(Lease) /\ Current(r.leases, up, down', guest.lease)
  BY RenewOK DEF HostDispatch, Inv
<1>2. HostOK(h) /\ h.leases \in {r.leases, <<>>} BY <1>1, ApplyOK
<1>3. Current(h.leases, up, down', guest.lease) BY <1>1, <1>2, FewerLeases
<1>4. host' = k BY DEF HostDispatch
<1>. HIDE DEF h
<1>5. \/ v = h.control \/ v = None
      \/ h.control # None /\ v = [h.control EXCEPT !.press = None]
  OBVIOUS
<1>. HIDE DEF v
<1>6. /\ DOMAIN k = DOMAIN h /\ k.at = h.at /\ k.rev = h.rev /\ k.slot = h.slot
      /\ k.pending = h.pending /\ k.leases = h.leases /\ k.gen = h.gen
      /\ k.accepted = h.accepted /\ k.control = v
  BY <1>2 DEF HostOK, Assigned
<1>. HIDE DEF k
<1>7. HostOK(k) BY <1>2, <1>6, <1>5 DEF HostOK, Assigned, Leased, Controlled, Control
<1>8. HostOK(host)' BY <1>4, <1>7 DEF HostDispatch, HostOK, Assigned, Leased, Controlled
<1>. QED BY <1>1, <1>3, <1>4, <1>6, <1>8 DEF HostDispatch, Inv

\* A committed frame of the host preserves the invariant.
LEMMA HostCommitInv == Inv /\ HostCommit => Inv'
<1>. SUFFICES ASSUME Inv, HostCommit
              PROVE  Inv'
  OBVIOUS
<1>. DEFINE h == [host EXCEPT !.busy = FALSE]
<1>1. HostOK(h) /\ h.leases = host.leases
  <2>1. /\ DOMAIN h = DOMAIN host /\ h.at = host.at /\ h.rev = host.rev /\ h.slot = host.slot
        /\ h.pending = host.pending /\ h.leases = host.leases /\ h.gen = host.gen
        /\ h.control = host.control /\ h.accepted = host.accepted
    BY DEF Inv, HostOK, Assigned
  <2>. HIDE DEF h
  <2>. QED BY <2>1, Untouched DEF Inv, HostOK, Assigned
<1>. HIDE DEF h
<1>2. host' = ApplyAssignment(h) BY DEF HostCommit, h
<1>3. HostOK(host') /\ host'.leases \in {host.leases, <<>>} BY <1>1, <1>2, ApplyOK
<1>4. HostOK(host)' BY <1>3 DEF HostCommit, HostOK, Assigned, Leased, Controlled
<1>5. Current(host'.leases, up, down, guest.lease) BY <1>3, FewerLeases DEF Inv
<1>. QED BY <1>4, <1>5 DEF HostCommit, Inv

\* An isolated guest has neither lease nor control.
LEMMA IsolatedOK ==
  ASSUME NEW h, HostOK(h)
  PROVE  HostOK(Isolated(h)) /\ Isolated(h).leases = <<>>
<1>. DEFINE r == Revoke(h)
            k == [r EXCEPT !.ready = FALSE, !.recovering = r.recovering \/ h.gen # 0]
<1>1. HostOK(r) /\ r.leases = <<>> BY RevokeOK
<1>2. Isolated(h) = k BY DEF Isolated
<1>. HIDE DEF r
<1>3. /\ DOMAIN k = DOMAIN r /\ k.at = r.at /\ k.rev = r.rev /\ k.slot = r.slot
      /\ k.pending = r.pending /\ k.leases = r.leases /\ k.gen = r.gen
      /\ k.control = r.control /\ k.accepted = r.accepted
  BY <1>1 DEF HostOK, Assigned
<1>. HIDE DEF k
<1>. QED BY <1>1, <1>2, <1>3, Untouched DEF HostOK, Assigned

\* A step of the host that ends every lease, and with them the guest's control.
LEMMA ControlEnds ==
  ASSUME Inv, HostOK(host'), host'.leases = <<>>, course' = course, revision' = revision,
         LosesControl(guest), "link" \in DOMAIN drawn', drawn'.link = drawn.link
  PROVE  Inv'
BY NoLeases, LosesControlOK DEF HostOK, Assigned, Leased, Controlled, Inv

\* Open only counts a transfer.
LEMMA OpenOK ==
  ASSUME Inv, Open \/ UNCHANGED <<sync, toHost, drawn>>
  PROVE  "link" \in DOMAIN drawn' /\ drawn'.link = drawn.link
BY DEF Open, Inv

\* A packet the host receives preserves the invariant.
LEMMA HostReceiveInv == Inv /\ HostReceive => Inv'
<1>. SUFFICES ASSUME Inv, HostReceive
              PROVE  Inv'
  OBVIOUS
<1>1. /\ up # <<>> /\ Tail(up) \in Seq(Packet) /\ Head(up) = up[1] /\ 1 \in DOMAIN up
      /\ DOMAIN Tail(up) = 1..(Len(up) - 1) /\ DOMAIN up = 1..Len(up) /\ Len(up) \in Nat
      /\ \A i \in 1..(Len(up) - 1) : Tail(up)[i] = up[i + 1]
  BY HeadTailProperties, LenProperties, EmptySeq DEF HostReceive, Inv
<1>2. \A j \in DOMAIN Tail(up) : \E i \in DOMAIN up : Tail(up)[j] = up[i]
  <2>. SUFFICES ASSUME NEW j \in 1..(Len(up) - 1)
                PROVE  \E i \in 1..Len(up) : Tail(up)[j] = up[i]
    BY <1>1
  <2>1. j + 1 \in 1..Len(up) BY <1>1
  <2>. QED BY <1>1, <2>1
<1>3. Current(host.leases, Tail(up), down, guest.lease) BY <1>2 DEF Inv, Current
<1>. DEFINE read == host.gen = Head(up).gen
<1>4. CASE read /\ ~Owns(host.slot)
  <2>1. host' = Isolated(host) /\ up' = Outdated(Tail(up)) /\ UNCHANGED <<down, guest, course, revision>>
    BY <1>4 DEF HostReceive
  <2>2. HostOK(host') /\ host'.leases = <<>> BY <2>1, IsolatedOK DEF Inv
  <2>3. HostOK(host)' BY <2>1, <2>2 DEF HostOK, Assigned, Leased, Controlled
  <2>4. up' \in Seq(Packet) BY <1>1, <2>1, OutdatedOK
  <2>5. Current(host'.leases, up', down', guest'.lease) BY <2>2, NoLeases
  <2>6. Open \/ UNCHANGED <<sync, toHost, drawn>> BY <1>4 DEF HostReceive
  <2>. QED BY <2>1, <2>3, <2>4, <2>5, <2>6, OpenOK DEF Inv
<1>5. CASE ~(read /\ ~Owns(host.slot))
  BY <1>1, <1>5, AcceptedOK, <1>3 DEF HostReceive, Inv, HostOK, Assigned, Leased, Controlled
<1>. QED BY <1>4, <1>5

\* Input the host's own player enters preserves the invariant.
LEMMA HostEntersInv == Inv /\ HostEnters => Inv'
<1>. SUFFICES ASSUME Inv, HostEnters
              PROVE  Inv'
  OBVIOUS
<1>. DEFINE at == host.at + 1
            e == [host EXCEPT !.at = at]
            asked == [e EXCEPT !.pending = [rev |-> at, slot |-> course[at]]]
            c == Configure(e, at, course[at])
            h == [c EXCEPT !.since = RenewTicks]
<1>1. HostOK(e) /\ e.leases = host.leases
  <2>1. /\ DOMAIN e = DOMAIN host /\ e.at \in Nat /\ e.rev = host.rev /\ e.slot = host.slot
        /\ e.pending = host.pending /\ e.leases = host.leases /\ e.gen = host.gen
        /\ e.control = host.control /\ e.accepted = host.accepted
    BY DEF Inv, HostOK, Assigned
  <2>. HIDE DEF e
  <2>. QED BY <2>1, Untouched DEF Inv
<1>2. HostOK(asked) /\ asked.leases = host.leases
  <2>1. at \in Nat BY DEF Inv, HostOK, Assigned
  <2>. HIDE DEF e, at
  <2>2. /\ DOMAIN asked = DOMAIN e /\ asked.at = e.at /\ asked.rev = e.rev /\ asked.slot = e.slot
        /\ asked.leases = e.leases /\ asked.gen = e.gen
        /\ asked.control = e.control /\ asked.accepted = e.accepted
        /\ asked.pending.rev = at /\ asked.pending.slot = course[at]
    BY <1>1 DEF HostOK, Assigned
  <2>. HIDE DEF asked
  <2>3. Assigned(asked) BY <1>1, <2>1, <2>2 DEF HostOK, Assigned
  <2>4. Leased(asked) BY <1>1, <2>2 DEF HostOK, Leased
  <2>5. Controlled(asked) BY <1>1, <2>2 DEF HostOK, Controlled
  <2>. QED BY <1>1, <2>2, <2>3, <2>4, <2>5 DEF HostOK
<1>3. c = IF e.busy THEN asked ELSE ApplyAssignment(asked) BY DEF Configure
<1>. HIDE DEF e, asked, at
<1>4. HostOK(c) /\ c.leases \in {host.leases, <<>>} BY <1>2, <1>3, ApplyOK
<1>. HIDE DEF c
<1>5. HostOK(h) /\ h.leases = c.leases
  <2>1. /\ DOMAIN h = DOMAIN c /\ h.at = c.at /\ h.rev = c.rev /\ h.slot = c.slot
        /\ h.pending = c.pending /\ h.leases = c.leases /\ h.gen = c.gen
        /\ h.control = c.control /\ h.accepted = c.accepted
    BY <1>4 DEF HostOK, Assigned
  <2>. HIDE DEF h
  <2>. QED BY <1>4, <2>1, Untouched DEF HostOK, Assigned
<1>. HIDE DEF h
<1>7. CASE Isolate(h, guest) /\ UNCHANGED <<course, revision>>
  BY <1>5, <1>7, IsolatedOK, OpenOK, ControlEnds DEF Isolate
<1>8. CASE /\ host' = [h EXCEPT !.ready = h.ready /\ ~h.recovering]
           /\ UNCHANGED <<guest, up, down, sync, toHost, drawn, course, revision>>
  <2>. DEFINE k == [h EXCEPT !.ready = h.ready /\ ~h.recovering]
  <2>1. /\ DOMAIN k = DOMAIN h /\ k.at = h.at /\ k.rev = h.rev /\ k.slot = h.slot
        /\ k.pending = h.pending /\ k.leases = h.leases /\ k.gen = h.gen
        /\ k.control = h.control /\ k.accepted = h.accepted
    BY <1>5 DEF HostOK, Assigned
  <2>2. host' = k BY <1>8
  <2>. HIDE DEF k
  <2>3. HostOK(host') /\ host'.leases \in {host.leases, <<>>}
    BY <1>4, <1>5, <2>1, <2>2, Untouched DEF HostOK, Assigned
  <2>4. HostOK(host)' BY <1>8, <2>3 DEF HostOK, Assigned, Leased, Controlled
  <2>5. Current(host'.leases, up, down, guest.lease) BY <2>3, FewerLeases DEF Inv
  <2>. QED BY <1>8, <2>4, <2>5 DEF Inv
<1>. QED BY <1>7, <1>8 DEF HostEnters, h, c, e, at

\* Isolating a slot at the host preserves the invariant.
LEMMA HostIsolatesInv == Inv /\ HostIsolates => Inv'
<1>. SUFFICES ASSUME Inv, HostIsolates
              PROVE  Inv'
  OBVIOUS
<1>2. "link" \in DOMAIN drawn' /\ drawn'.link = drawn.link BY OpenOK DEF HostIsolates, Isolate
<1>. QED BY IsolatedOK, <1>2, ControlEnds DEF HostIsolates, Isolate, Inv

\* A link the host loses preserves the invariant.
LEMMA HostLosesInv == Inv /\ HostLoses => Inv'
<1>. SUFFICES ASSUME Inv, HostLoses
              PROVE  Inv'
  OBVIOUS
<1>. DEFINE r == Revoke(host)
            k == [r EXCEPT !.gen = 0, !.ready = FALSE, !.recovering = FALSE, !.outgoing = FALSE]
<1>1. HostOK(r) /\ r.leases = <<>> /\ r.control = None BY RevokeOK DEF Inv
<1>2. host' = k BY DEF HostLoses
<1>. HIDE DEF r
<1>3. /\ DOMAIN k = DOMAIN r /\ k.at = r.at /\ k.rev = r.rev /\ k.slot = r.slot
      /\ k.pending = r.pending /\ k.leases = r.leases /\ k.gen = 0
      /\ k.control = r.control /\ k.accepted = r.accepted
  BY <1>1 DEF HostOK, Assigned
<1>. HIDE DEF k
<1>4. HostOK(k) BY <1>1, <1>3 DEF HostOK, Assigned, Leased, Ordered, Running, Controlled
<1>. QED BY <1>1, <1>2, <1>3, <1>4, ControlEnds DEF HostLoses, Inv

\* Every event of the host preserves the invariant.
LEMMA HostEventInv == Inv /\ HostEvent => Inv'
<1>. SUFFICES ASSUME Inv, HostEvent
              PROVE  Inv'
  OBVIOUS
<1>. DEFINE event == Head(toHost)
<1>1. UNCHANGED <<course, revision, drawn>> BY DEF HostEvent
<1>2. CASE event = "capture"
  <2>. DEFINE r == Revoke(host)
              k == [r EXCEPT !.ready = FALSE, !.outgoing = r.outgoing \/ host.gen # 0]
  <2>1. host' = k /\ LosesControl(guest) BY <1>2 DEF HostEvent
  <2>2. HostOK(r) /\ r.leases = <<>> BY RevokeOK DEF Inv
  <2>. HIDE DEF r
  <2>3. /\ DOMAIN k = DOMAIN r /\ k.at = r.at /\ k.rev = r.rev /\ k.slot = r.slot
        /\ k.pending = r.pending /\ k.leases = r.leases /\ k.gen = r.gen
        /\ k.control = r.control /\ k.accepted = r.accepted
    BY <2>2 DEF HostOK, Assigned
  <2>. HIDE DEF k
  <2>4. HostOK(k) BY <2>2, <2>3, Untouched DEF HostOK, Assigned
  <2>. QED BY <1>1, <2>1, <2>2, <2>3, <2>4, ControlEnds DEF Inv
<1>3. CASE event = "live" /\ host.outgoing /\ host.gen # 0
  <2>. DEFINE k == [host EXCEPT !.outgoing = FALSE, !.ready = TRUE, !.recovering = FALSE,
                                !.since = RenewTicks]
  <2>1. host' = Renewed(k) /\ down' = Leasing(k) /\ UNCHANGED <<guest, up, sync>>
    BY <1>3 DEF HostEvent
  <2>2. /\ DOMAIN k = DOMAIN host /\ k.at = host.at /\ k.rev = host.rev /\ k.slot = host.slot
        /\ k.pending = host.pending /\ k.leases = host.leases /\ k.gen = host.gen
        /\ k.control = host.control /\ k.accepted = host.accepted
    BY DEF Inv, HostOK, Assigned
  <2>. HIDE DEF k
  <2>3. HostOK(k) BY <2>2, Untouched DEF Inv, HostOK, Assigned
  <2>4. HostOK(host') /\ down' \in Seq(Lease) /\ Current(host'.leases, up, down', guest.lease)
    BY <2>1, <2>2, <2>3, RenewOK
  <2>5. HostOK(host)' BY <1>1, <2>4 DEF HostOK, Assigned, Leased, Controlled
  <2>. QED BY <1>1, <2>1, <2>4, <2>5 DEF Inv
<1>4. CASE event = "live" /\ ~(host.outgoing /\ host.gen # 0)
  BY <1>4, <1>1 DEF HostEvent, Inv, HostOK, Assigned, Leased, Controlled
<1>5. CASE event # "capture" /\ event # "live"
  <2>. DEFINE k == [host EXCEPT !.outgoing = FALSE]
  <2>1. host' = k /\ UNCHANGED <<down, guest, up, sync>> BY <1>5 DEF HostEvent
  <2>2. /\ DOMAIN k = DOMAIN host /\ k.at = host.at /\ k.rev = host.rev /\ k.slot = host.slot
        /\ k.pending = host.pending /\ k.leases = host.leases /\ k.gen = host.gen
        /\ k.control = host.control /\ k.accepted = host.accepted
    BY DEF Inv, HostOK, Assigned
  <2>. HIDE DEF k
  <2>3. HostOK(k) BY <2>2, Untouched DEF Inv, HostOK, Assigned
  <2>4. HostOK(host)' BY <1>1, <2>1, <2>3 DEF HostOK, Assigned, Leased, Controlled
  <2>. QED BY <1>1, <2>1, <2>2, <2>4 DEF Inv
<1>. QED BY <1>2, <1>3, <1>4, <1>5

\* No lease has more ticks left than the longest lease has.
LEMMA TermBounds ==
  ASSUME Inv
  PROVE  \A i \in DOMAIN host.leases : /\ host.leases[i] \in Lease /\ host.leases[i].left \in Nat
                                       /\ host.leases[i].left <= LeaseTicks
<1>1. \A i \in DOMAIN host.leases : host.leases[i] \in Lease
  BY ElementOfSeq, LenProperties DEF Inv, HostOK, Leased
<1>2. \A l \in Lease : l.left \in Nat /\ l.left <= LeaseTicks BY LeaseAssumption DEF Lease, Terms
<1>. QED BY <1>1, <1>2

\* What the guest sends under its lease is of the lease's own age.
LEMMA SendsOK ==
  ASSUME Inv, NEW g, NEW mask \in Mask, Sends(g, mask),
         DOMAIN g = DOMAIN guest, g.gen = guest.gen, g.lease \in Lease,
         \A i \in DOMAIN host.leases : g.lease.id = host.leases[i].id => ~g.lease.old
  PROVE  /\ up' \in Seq(Packet) /\ (up' = up \/ Len(up') = Len(up) + 1)
         /\ DOMAIN guest' = DOMAIN guest /\ guest'.gen = guest.gen
         /\ guest'.lease \in Lease \cup {None}
         /\ Current(host.leases, up', down, guest'.lease)
<1>1. CASE Len(up) >= MaxFlight BY <1>1 DEF Sends, Inv, Current
<1>2. CASE ~(Len(up) >= MaxFlight)
  <2>. DEFINE p == Input(g, mask)
  <2>1. guest' = g /\ up' = Append(up, p) BY <1>2 DEF Sends
  <2>2. p \in Packet /\ p.id = g.lease.id /\ p.old = g.lease.old /\ p.age = 0
    BY LeaseAssumption DEF Lease, Inv, Terms, Input, Packet
  <2>. HIDE DEF p
  <2>3. /\ up' \in Seq(Packet) /\ Len(up') = Len(up) + 1 /\ Len(up) \in Nat
        /\ \A j \in 1..Len(up) : up'[j] = up[j]
        /\ up'[Len(up) + 1] = p
        /\ DOMAIN up' = 1..(Len(up) + 1) /\ DOMAIN up = 1..Len(up)
    BY <2>1, <2>2, AppendProperties, LenProperties DEF Inv
  <2>6. \A i \in DOMAIN host.leases : \A j \in DOMAIN up' : up'[j].id = host.leases[i].id
          => ~up'[j].old /\ up'[j].age + host.leases[i].left <= LeaseTicks
    <3>. SUFFICES ASSUME NEW i \in DOMAIN host.leases, NEW j \in DOMAIN up',
                         up'[j].id = host.leases[i].id
                  PROVE  ~up'[j].old /\ up'[j].age + host.leases[i].left <= LeaseTicks
      OBVIOUS
    <3>1. CASE j \in DOMAIN up /\ up'[j] = up[j] BY <3>1 DEF Inv, Current
    <3>2. CASE up'[j] = p BY <3>2, <2>2, TermBounds
    <3>. QED BY <3>1, <3>2, <2>3
  <2>. QED BY <2>1, <2>3, <2>6 DEF Inv, Current
<1>. QED BY <1>1, <1>2

\* A guest that samples its keys preserves the invariant.
LEMMA GuestSamplesInv == Inv /\ GuestSamples => Inv'
<1>. SUFFICES ASSUME Inv, GuestSamples
              PROVE  Inv'
  OBVIOUS
<1>1. UNCHANGED <<course, revision, host, down, sync, toHost, drawn>> /\ guest.lease # None
  BY DEF GuestSamples, MaySend
<1>2. PICK mask \in Mask : Sends(guest, mask) BY DEF GuestSamples
<1>4. /\ up' \in Seq(Packet) /\ DOMAIN guest' = DOMAIN guest /\ guest'.gen = guest.gen
      /\ guest'.lease \in Lease \cup {None} /\ Current(host.leases, up', down, guest'.lease)
  BY <1>2, <1>1, SendsOK DEF Inv, Current
<1>. QED BY <1>1, <1>4 DEF Inv, HostOK, Assigned, Leased, Controlled

\* A packet a guest receives preserves the invariant.
LEMMA GuestReceivesInv == Inv /\ GuestReceives => Inv'
<1>. SUFFICES ASSUME Inv, GuestReceives
              PROVE  Inv'
  OBVIOUS
<1>. DEFINE l == Head(down)
            g == [guest EXCEPT !.lease = l]
<1>2. /\ Tail(down) \in Seq(Lease) /\ l = down[1] /\ 1 \in DOMAIN down /\ l \in Lease
      /\ DOMAIN Tail(down) = 1..(Len(down) - 1) /\ DOMAIN down = 1..Len(down) /\ Len(down) \in Nat
      /\ \A i \in 1..(Len(down) - 1) : Tail(down)[i] = down[i + 1]
  BY HeadTailProperties, LenProperties, EmptySeq DEF GuestReceives, Inv
<1>3. \A j \in DOMAIN Tail(down) : \E i \in DOMAIN down : Tail(down)[j] = down[i]
  <2>. SUFFICES ASSUME NEW j \in 1..(Len(down) - 1)
                PROVE  \E i \in 1..Len(down) : Tail(down)[j] = down[i]
    BY <1>2
  <2>1. j + 1 \in 1..Len(down) BY <1>2
  <2>. QED BY <1>2, <2>1
<1>4. DOMAIN g = DOMAIN guest /\ g.gen = guest.gen /\ g.lease = l BY DEF Inv
<1>5. \A i \in DOMAIN host.leases : l.id = host.leases[i].id => ~l.old BY <1>2 DEF Inv, Current
<1>6. \/ \E mask \in Mask : Sends(g, mask)
      \/ guest' \in {g, guest} /\ up' = up
  BY DEF GuestReceives
<1>. HIDE DEF g, l
<1>7. /\ up' \in Seq(Packet) /\ DOMAIN guest' = DOMAIN guest /\ guest'.gen = guest.gen
      /\ guest'.lease \in Lease \cup {None} /\ Current(host.leases, up', down, guest'.lease)
  BY <1>2, <1>4, <1>5, SendsOK, <1>6 DEF Inv, Current
<1>8. Current(host.leases, up', Tail(down), guest'.lease) BY <1>3, <1>7 DEF Current
<1>. QED BY <1>2, <1>7, <1>8 DEF Inv, HostOK, Assigned, Leased, Controlled, GuestReceives

\* The other steps of the guest at most drop its lease.
LEMMA GuestOnly ==
  ASSUME Inv, UNCHANGED <<course, revision, host, up, down>>,
         DOMAIN guest' = DOMAIN guest, guest'.gen \in Nat, guest'.lease \in {guest.lease, None},
         "link" \in DOMAIN drawn', drawn'.link = drawn.link
  PROVE  Inv'
BY DEF Inv, Current, HostOK, Assigned, Leased, Controlled

\* Every other step of a guest preserves the invariant.
LEMMA GuestStepsInv ==
  Inv /\ (GuestEnters \/ GuestLoses \/ GuestObserves \/ GuestSynchronizes \/ SyncStops) => Inv'
<1>. SUFFICES ASSUME Inv, GuestEnters \/ GuestLoses \/ GuestObserves \/ GuestSynchronizes \/ SyncStops
              PROVE  Inv'
  OBVIOUS
<1>1. /\ {"at", "gen", "mode", "lease"} \subseteq DOMAIN guest /\ guest.gen \in Nat
      /\ "link" \in DOMAIN drawn
  BY DEF Inv
<1>2. CASE GuestEnters BY <1>1, <1>2, GuestOnly DEF GuestEnters
<1>3. CASE GuestLoses BY <1>1, <1>3, GuestOnly DEF GuestLoses
<1>4. CASE GuestObserves BY <1>4, OpenOK, <1>1, GuestOnly DEF GuestObserves
<1>5. CASE GuestSynchronizes BY <1>1, <1>5, GuestOnly DEF GuestSynchronizes
<1>6. CASE SyncStops BY <1>1, <1>6, GuestOnly DEF SyncStops
<1>. QED BY <1>2, <1>3, <1>4, <1>5, <1>6

\* A host without a connection has no leases, and gets none by connecting.
LEMMA ConnectInv == Inv /\ Connect => Inv'
<1>. SUFFICES ASSUME Inv, Connect
              PROVE  Inv'
  OBVIOUS
<1>. DEFINE k == [host EXCEPT !.gen = drawn.link + 1, !.ready = TRUE, !.recovering = FALSE,
                              !.since = RenewTicks]
<1>1. host.leases = <<>> BY DEF Connect, Inv, HostOK, Leased
<1>2. /\ DOMAIN k = DOMAIN host /\ k.at = host.at /\ k.rev = host.rev /\ k.slot = host.slot
      /\ k.pending = host.pending /\ k.leases = host.leases /\ k.gen = drawn.link + 1
      /\ k.control = host.control /\ k.accepted = host.accepted
  BY DEF Inv, HostOK, Assigned
<1>3. host' = k /\ UNCHANGED <<course, revision, up, down, sync, toHost>>
      /\ drawn' = [drawn EXCEPT !.link = drawn.link + 1] /\ guest' = [guest EXCEPT !.gen = drawn.link + 1]
  BY DEF Connect
<1>. HIDE DEF k
<1>4. drawn.link + 1 \in Nat BY DEF Inv
<1>5. HostOK(k) BY <1>2, <1>1, <1>4 DEF Inv, HostOK, Assigned, Leased, Ordered, Running, Controlled
<1>6. HostOK(host)' BY <1>3, <1>5 DEF HostOK, Assigned, Leased, Controlled
<1>8. Current(host'.leases, up', down', guest'.lease) BY <1>1, <1>2, <1>3, NoLeases
<1>. QED BY <1>3, <1>4, <1>6, <1>8 DEF Inv

\* The passing of time shortens every lease alike.
LEMMA TickInv == Inv /\ Tick => Inv'
<1>. SUFFICES ASSUME Inv, Tick
              PROVE  Inv'
  OBVIOUS
<1>. DEFINE ls == Unexpired([i \in DOMAIN host.leases |-> Shorter(host.leases[i])])
            a == Aged(host.control)
            k == [host EXCEPT !.leases = ls, !.control = a,
                              !.since = IF host.since = RenewTicks THEN host.since ELSE host.since + 1]
            u == [i \in DOMAIN up |-> [up[i] EXCEPT !.left = Less(up[i].left), !.age = Older(up[i].age)]]
            d == [i \in DOMAIN down |-> Shorter(down[i])]
            l == guest'.lease
<1>1. host' = k /\ up' = u /\ down' = d /\ UNCHANGED <<course, revision, sync, toHost, drawn>>
  BY DEF Tick
<1>2. /\ ls \in Seq(Lease) /\ Ordered(ls) /\ Running(ls, host.gen)
      /\ ls # <<>> => host.leases # <<>>
      /\ \A i \in DOMAIN ls : \E n \in DOMAIN host.leases :
            /\ ls[i].id = host.leases[n].id /\ ls[i].left + 1 = host.leases[n].left
            /\ ls[i].rev = host.leases[n].rev
  BY ShorterOK DEF Inv, HostOK, Leased
<1>. HIDE DEF ls
<1>3. LET c == host.control
      IN  /\ c = None => a = None
          /\ c # None =>
                  /\ a \in Control /\ a.rev = c.rev /\ a.old = c.old
                  /\ a.age + a.left <= LeaseTicks
                  /\ a.press # None => a.press.age + a.press.left <= LeaseTicks
  BY AgedOK
<1>. HIDE DEF a
<1>4. /\ DOMAIN k = DOMAIN host /\ k.at = host.at /\ k.rev = host.rev /\ k.slot = host.slot
      /\ k.pending = host.pending /\ k.leases = ls /\ k.gen = host.gen
      /\ k.control = a /\ k.accepted = host.accepted
  BY DEF Inv, HostOK, Assigned
<1>. HIDE DEF k
<1>5. HostOK(k) BY <1>4, <1>2, <1>3 DEF Inv, HostOK, Assigned, Leased, Controlled
<1>6. HostOK(host)' BY <1>1, <1>5 DEF HostOK, Assigned, Leased, Controlled
<1>7. \A j \in DOMAIN up : up[j] \in Packet BY ElementOfSeq, LenProperties DEF Inv
<1>8. \A p \in Packet : /\ [p EXCEPT !.left = Less(p.left), !.age = Older(p.age)] \in Packet
                        /\ p.age \in Terms /\ Older(p.age) \in Terms
  <2>1. \A n \in Terms : Less(n) \in Terms /\ Older(n) \in Terms
    BY LeaseAssumption DEF Terms, Less, Older
  <2>. QED BY <2>1 DEF Packet
<1>14. down \in Seq(Lease) /\ d = [i \in DOMAIN down |-> Shorter(down[i])] BY DEF Inv
<1>. HIDE DEF d
<1>12. /\ d \in Seq(Lease) /\ DOMAIN d = DOMAIN down
       /\ \A j \in DOMAIN down : d[j].id = down[j].id /\ d[j].old = down[j].old
  BY <1>14, ShorterSeq
<1>13. /\ DOMAIN guest' = DOMAIN guest /\ guest'.gen = guest.gen /\ l \in Lease \cup {None}
       /\ l # None => guest.lease # None /\ l.id = guest.lease.id /\ l.old = guest.lease.old
  BY ShorterIs DEF Tick, Inv
<1>. HIDE DEF l
<1>9. u \in Seq(Packet) /\ DOMAIN u = DOMAIN up
  <2>1. up \in Seq(Packet) /\ DOMAIN up = 1..Len(up) /\ Len(up) \in Nat BY LenProperties DEF Inv
  <2>2. u \in [1..Len(up) -> Packet] BY <2>1, <1>7, <1>8
  <2>. QED BY <2>1, <2>2, SeqDef
<1>10. \A j \in DOMAIN up : u[j].id = up[j].id /\ u[j].old = up[j].old /\ u[j].age = Older(up[j].age)
  BY <1>7 DEF Packet
<1>. HIDE DEF u
<1>11. Current(ls, u, d, l)
  <2>. SUFFICES ASSUME NEW i \in DOMAIN ls
                PROVE  /\ \A j \in DOMAIN u : u[j].id = ls[i].id
                            => ~u[j].old /\ u[j].age + ls[i].left <= LeaseTicks
                       /\ \A j \in DOMAIN d : d[j].id = ls[i].id => ~d[j].old
                       /\ l # None /\ l.id = ls[i].id => ~l.old
    BY DEF Current
  <2>1. PICK n \in DOMAIN host.leases :
             ls[i].id = host.leases[n].id /\ ls[i].left + 1 = host.leases[n].left
    BY <1>2
  <2>2. ls[i].left \in Nat
    <3>1. ls[i] \in Lease BY <1>2, ElementOfSeq, LenProperties
    <3>2. \A x \in Lease : x.left \in Nat BY LeaseAssumption DEF Lease, Terms
    <3>. QED BY <3>1, <3>2
  <2>3. ASSUME NEW j \in DOMAIN u, u[j].id = ls[i].id
        PROVE  ~u[j].old /\ u[j].age + ls[i].left <= LeaseTicks
    <3>1. ~up[j].old /\ up[j].age + host.leases[n].left <= LeaseTicks
      BY <2>1, <2>3, <1>9, <1>10 DEF Inv, Current
    <3>2. up[j].age \in Terms BY <2>3, <1>7, <1>8, <1>9
    <3>3. Older(up[j].age) + ls[i].left <= LeaseTicks
      BY <3>1, <3>2, <2>1, <2>2, LeaseAssumption DEF Older, Terms
    <3>. QED BY <2>3, <3>1, <3>3, <1>9, <1>10
  <2>. QED BY <2>3, <2>1, <1>12, <1>13 DEF Inv, Current
<1>. QED BY <1>1, <1>4, <1>6, <1>9, <1>11, <1>12, <1>13 DEF Inv, l

\* Other owners of the slots preserve the invariant.
LEMMA ReassignInv == Inv /\ Reassign => Inv'
BY DEF Reassign, Inv, HostOK, Assigned, Leased, Controlled

\* Every step preserves the invariant.
LEMMA NextInv == Inv /\ [Next]_vars => Inv'
<1>1. Inv /\ UNCHANGED vars => Inv' BY DEF vars, Inv, HostOK, Assigned, Leased, Controlled
<1>. QED
  BY <1>1, HostRenewsInv, HostDispatchInv, HostCommitInv, HostReceiveInv, HostEntersInv,
     HostEventInv, HostIsolatesInv, HostLosesInv, GuestSamplesInv, GuestReceivesInv,
     GuestStepsInv, ConnectInv, ReassignInv, TickInv DEF Next

\* The invariant holds in every reachable state.
LEMMA Invariant == Spec => []Inv
BY Initially, NextInv, PTL DEF Spec

-----------------------------------------------------------------------------
(* What the host promises.                                                 *)

\* The next frame plays what the invariant says of the control it finds.
LEMMA NextFrameOK ==
  ASSUME Inv, NextMask # Neutral
  PROVE  /\ NextFrame.control # None /\ HostOK(NextFrame)
         /\ NextMask \in Mask /\ NextAge < LeaseTicks
         /\ course[NextFrame.control.rev] = NextFrame.slot
<1>1. HostOK(NextFrame) BY ApplyOK DEF NextFrame, Inv
<1>2. NextFrame.control # None /\ NextMask = Played(NextFrame.control) BY DEF NextMask
<1>. DEFINE c == NextFrame.control
<1>3. /\ c \in Control /\ course[c.rev] = NextFrame.slot /\ c.age + c.left <= LeaseTicks
      /\ c.press # None => c.press.age + c.press.left <= LeaseTicks
  BY <1>1, <1>2 DEF HostOK, Controlled
<1>. HIDE DEF c
<1>4. c.left \in Nat /\ c.age \in Nat /\ c.held \in Mask /\ c.press \in Press \cup {None}
  BY <1>3, LeaseAssumption DEF Control, Terms
<1>5. CASE Pressed(c)
  BY <1>4, <1>5, LeaseAssumption, <1>2, <1>1, <1>3 DEF Pressed, Press, Terms, Played, NextAge, c
<1>6. CASE ~Pressed(c) BY <1>2, <1>6, <1>1, <1>3, <1>4, LeaseAssumption DEF Played, NextAge, c
<1>. QED BY <1>5, <1>6

\* No button sticks: a frame has a button of the guest only if the guest sent
\* just that less than a term ago, whatever is lost and however the assignments
\* move (game-scheduler.ts:53-60, 82-87).
THEOREM ButtonsExpire == Spec => []NoStuckButton
<1>1. Inv => NoStuckButton BY NextFrameOK DEF NoStuckButton
<1>. QED BY <1>1, Invariant, PTL

\* An old packet controls nothing: what the guest sent before it lost control
\* never becomes what its controller holds (game-scheduler.ts:40, 55).
THEOREM OldInputIsDead == Spec => []NoOldControl
<1>1. Inv => NoOldControl BY DEF Inv, HostOK, Controlled, NoOldControl
<1>. QED BY <1>1, Invariant, PTL

\* Input stays on its controller: what a frame plays in a slot was sent by the
\* guest for an assignment that gave it this slot (game-scheduler.ts:26-31, 78-88).
THEOREM InputStaysInItsSlot == Spec => []InputKeepsItsSlot
<1>1. Inv => InputKeepsItsSlot BY NextFrameOK DEF InputKeepsItsSlot
<1>. QED BY <1>1, Invariant, PTL

\* Only the host takes packets from the guest's channel.
LEMMA OnlyReceived ==
  ASSUME Inv, [Next]_vars, up # <<>>, up' = Tail(up)
  PROVE  HostReceive
<1>1. Len(up) \in Nat /\ Len(up) > 0 /\ Len(up') = Len(up) - 1
      /\ DOMAIN up = 1..Len(up) /\ DOMAIN up' = 1..(Len(up) - 1)
  BY HeadTailProperties, LenProperties, EmptySeq DEF Inv
<1>2. Len(up') # Len(up) /\ Len(up') # Len(up) + 1
  <2>1. \A m \in Nat : m - 1 # m /\ m - 1 # m + 1 OBVIOUS
  <2>. QED BY <1>1, <2>1, Zenon
<1>3. up' # up /\ ~LosesControl(guest) BY <1>2, LosesControlOK
<1>4. CASE HostRenews \/ HostDispatch \/ HostCommit
  BY <1>3, <1>4 DEF HostRenews, HostDispatch, HostCommit
<1>5. CASE HostEnters \/ HostIsolates \/ HostLoses
  BY <1>3, <1>5 DEF HostEnters, HostIsolates, HostLoses, Isolate
<1>6. CASE HostEvent BY <1>3, <1>6 DEF HostEvent
<1>7. CASE GuestSamples
  <2>1. PICK mask \in Mask : Sends(guest, mask) BY <1>7 DEF GuestSamples
  <2>2. up' = up \/ up' = Append(up, Input(guest, mask)) BY <2>1 DEF Sends
  <2>. QED BY <1>2, <1>3, <2>1, <1>7, SendsOK DEF GuestSamples, MaySend, Inv, Current
<1>8. CASE GuestReceives
  <2>. DEFINE l == Head(down)
              g == [guest EXCEPT !.lease = l]
  <2>1. l = down[1] /\ 1 \in DOMAIN down /\ l \in Lease
    BY <1>8, HeadTailProperties, LenProperties, EmptySeq DEF GuestReceives, Inv
  <2>2. DOMAIN g = DOMAIN guest /\ g.gen = guest.gen /\ g.lease = l BY DEF Inv
  <2>3. \A i \in DOMAIN host.leases : l.id = host.leases[i].id => ~l.old BY <2>1 DEF Inv, Current
  <2>4. (\E mask \in Mask : Sends(g, mask)) \/ up' = up BY <1>8 DEF GuestReceives
  <2>. HIDE DEF l, g
  <2>. QED BY <1>2, <1>3, <2>1, <2>2, <2>3, <2>4, SendsOK
<1>9. CASE GuestEnters \/ GuestLoses \/ Connect \/ GuestObserves
  BY <1>3, <1>9 DEF GuestEnters, GuestLoses, Connect, GuestObserves
<1>10. CASE GuestSynchronizes \/ SyncStops \/ Reassign
  BY <1>3, <1>10 DEF GuestSynchronizes, SyncStops, Reassign
<1>11. CASE Tick
  <2>1. DOMAIN up' = DOMAIN up BY <1>11 DEF Tick
  <2>2. Len(up) \in DOMAIN up /\ Len(up) \notin 1..(Len(up) - 1) BY <1>1
  <2>. QED BY <2>1, <2>2, <1>1
<1>12. CASE UNCHANGED vars BY <1>3, <1>12 DEF vars
<1>. QED BY <1>4, <1>5, <1>6, <1>7, <1>8, <1>9, <1>10, <1>11, <1>12 DEF Next

-----------------------------------------------------------------------------
(* A lease is honoured to its end: what is kept for it.                    *)

\* The host's assignments go forward, what it accepted is of its connection,
\* and no lease is of an assignment that is still to come.
Forward(h, link) ==
  /\ h.rev <= h.at /\ (h.pending # None => h.rev < h.pending.rev /\ h.pending.rev <= h.at)
  /\ link \in Nat /\ h.gen <= link /\ (h.accepted # 0 => h.accepted = h.gen)
  /\ \A i \in DOMAIN h.leases : h.leases[i].rev <= h.rev

\* The host has the lease of what a guest in control was granted, holds or sent
\* in this connection and for this assignment, with as long a term.
Has(h, x) == \E i \in DOMAIN h.leases : h.leases[i].id = x.id /\ h.leases[i].left = x.left
InForce(h, x) == x.old = FALSE /\ x.gen = h.gen /\ x.rev = h.rev /\ x.left > 0
Tracked(h, link, x) ==
  /\ x.rev \in Nat /\ x.rev <= h.rev /\ x.gen \in Nat /\ x.gen <= link
  /\ InForce(h, x) => Has(h, x)

AllTracked(h, link, sent, issued, held) ==
  /\ \A j \in DOMAIN sent : Tracked(h, link, sent[j])
  /\ \A j \in DOMAIN issued : Tracked(h, link, issued[j])
  /\ held # None => Tracked(h, link, held)

Kept == Forward(host, drawn.link) /\ AllTracked(host, drawn.link, up, down, guest.lease)

\* A host keeps its leases for as long as their assignment is in force.
Keeps(h, k) ==
  /\ h.rev \in Nat /\ k.rev \in Nat /\ h.rev <= k.rev /\ k.gen = h.gen
  /\ k.rev = h.rev => \A i \in DOMAIN h.leases : \E j \in DOMAIN k.leases : k.leases[j] = h.leases[i]

\* What was tracked is tracked by a host that keeps its leases.
LEMMA StillTracked ==
  ASSUME NEW h, NEW k, NEW link, NEW x, Keeps(h, k), Tracked(h, link, x)
  PROVE  Tracked(k, link, x)
<1>2. ASSUME InForce(k, x)
      PROVE  Has(k, x)
  <2>1. k.rev = h.rev /\ k.gen = h.gen BY <1>2 DEF Keeps, Tracked, InForce
  <2>2. PICK i \in DOMAIN h.leases : h.leases[i].id = x.id /\ h.leases[i].left = x.left
    BY <1>2, <2>1 DEF Tracked, InForce, Has
  <2>3. PICK j \in DOMAIN k.leases : k.leases[j] = h.leases[i] BY <2>1 DEF Keeps
  <2>. QED BY <2>2, <2>3 DEF Has
<1>. QED BY <1>2 DEF Tracked, Keeps

\* What the host issues from its leases is tracked.
LEMMA IssuedTracked ==
  ASSUME NEW h, NEW link, Assigned(h), Leased(h), Forward(h, link), NEW i \in DOMAIN h.leases
  PROVE  Tracked(h, link, h.leases[i])
<1>1. h.leases[i] \in Lease BY ElementOfSeq, LenProperties DEF Leased
<1>3. h.leases[i].rev \in Nat /\ h.leases[i].gen \in Nat BY <1>1 DEF Lease
<1>. QED BY <1>3 DEF Tracked, Has, Forward, Leased, Running

\* Keeping is carried on.
LEMMA KeepsOn ==
  ASSUME NEW a, NEW b, NEW c, Keeps(a, b), Keeps(b, c)
  PROVE  Keeps(a, c)
<1>2. ASSUME c.rev = a.rev, NEW i \in DOMAIN a.leases
      PROVE  \E j \in DOMAIN c.leases : c.leases[j] = a.leases[i]
  <2>1. b.rev = a.rev /\ c.rev = b.rev BY <1>2 DEF Keeps
  <2>2. PICK m \in DOMAIN b.leases : b.leases[m] = a.leases[i] BY <2>1 DEF Keeps
  <2>3. PICK j \in DOMAIN c.leases : c.leases[j] = b.leases[m] BY <2>1 DEF Keeps
  <2>. QED BY <2>2, <2>3
<1>. QED BY <1>2 DEF Keeps

\* A host that is the same in all this moves forward and keeps its leases.
LEMMA KeepsSame ==
  ASSUME NEW h, NEW k, NEW link, Assigned(h), Forward(h, link), k.at \in Nat, h.at <= k.at,
         k.rev = h.rev, k.pending = h.pending, k.leases = h.leases, k.gen = h.gen,
         k.accepted \in {h.accepted, h.gen, 0}
  PROVE  Forward(k, link) /\ Keeps(h, k)
BY DEF Forward, Keeps, Assigned

\* An assignment that takes effect goes forward, and ends leases only of those before.
LEMMA ApplyKeeps ==
  ASSUME NEW h, HostOK(h), NEW link, Forward(h, link)
  PROVE  Forward(ApplyAssignment(h), link) /\ Keeps(h, ApplyAssignment(h))
<1>1. CASE h.pending = None BY <1>1 DEF ApplyAssignment, Keeps, HostOK, Assigned
<1>2. CASE h.pending # None
  <2>. DEFINE k == ApplyAssignment(h)
  <2>1. /\ k.rev = h.pending.rev /\ k.pending = None /\ k.at = h.at
        /\ k.accepted \in {h.accepted, 0}
    BY <1>2 DEF ApplyAssignment, Revoke, HostOK, Assigned
  <2>2. k.leases = <<>> BY <1>2 DEF ApplyAssignment, Revoke, HostOK, Assigned, Forward
  <2>3. k.gen = h.gen BY ApplyOK
  <2>. HIDE DEF k
  <2>5. Forward(k, link) /\ Keeps(h, k)
    BY <2>1, <2>2, <2>3, <1>2 DEF Forward, Keeps, HostOK, Assigned
  <2>. QED BY <2>5 DEF k
<1>. QED BY <1>1, <1>2

\* A grant keeps every lease there is, and the new one is of this assignment.
LEMMA GrantKeeps ==
  ASSUME Inv, NEW h, HostOK(h), h.gen # 0, NEW link, Forward(h, link)
  PROVE  Forward(Grant(h), link) /\ Keeps(h, Grant(h))
<1>. DEFINE before == IF h.accepted # 0 THEN h.accepted
                      ELSE IF h.leases # <<>> THEN Last(h.leases).gen ELSE h.gen
            lease == [id |-> FreshId, gen |-> h.gen, rev |-> h.rev, left |-> LeaseTicks, old |-> FALSE]
            recent == h.leases # <<>> /\ LeaseTicks - Last(h.leases).left < RenewTicks
            k == [h EXCEPT !.leases = Append(h.leases, lease)]
<1>1. h.leases # <<>> => Last(h.leases).gen = h.gen
  BY LenProperties, EmptySeq DEF HostOK, Leased, Running, Last
<1>2. before = h.gen BY <1>1 DEF Forward
<1>3. Grant(h) = IF recent THEN h ELSE k BY <1>2 DEF Grant
<1>4. lease \in Lease /\ lease.rev = h.rev
  BY FreshIsFresh, LeaseAssumption DEF Lease, Terms, HostOK, Assigned, Leased
<1>5. /\ k.at = h.at /\ k.rev = h.rev /\ k.pending = h.pending /\ k.gen = h.gen
      /\ k.accepted = h.accepted /\ k.leases = Append(h.leases, lease)
  BY DEF HostOK, Assigned
<1>. HIDE DEF k, lease
<1>6. /\ DOMAIN k.leases = 1..(Len(h.leases) + 1) /\ DOMAIN h.leases = 1..Len(h.leases)
      /\ Len(h.leases) \in Nat
      /\ \A i \in 1..Len(h.leases) : k.leases[i] = h.leases[i]
      /\ k.leases[Len(h.leases) + 1] = lease
  BY <1>4, <1>5, AppendProperties, LenProperties DEF HostOK, Leased
<1>7. h.rev \in Nat BY DEF HostOK, Assigned
<1>8. Forward(k, link) BY <1>4, <1>6, <1>7, <1>5 DEF Forward
<1>9. Keeps(h, k) BY <1>5, <1>6, <1>7 DEF Keeps
<1>10. Keeps(h, h) BY <1>7 DEF Keeps
<1>. QED BY <1>3, <1>8, <1>9, <1>10

\* What is renewed is kept, and what is issued is tracked.
LEMMA RenewKeeps ==
  ASSUME Inv, Kept, NEW h, HostOK(h), h.leases = host.leases, Forward(h, drawn.link), Keeps(host, h)
  PROVE  /\ Forward(Renewed(h), drawn.link) /\ Keeps(h, Renewed(h))
         /\ \A j \in DOMAIN Leasing(h) : Tracked(Renewed(h), drawn.link, Leasing(h)[j])
<1>. DEFINE r == Renewed(h)
<1>1. \A j \in DOMAIN down : Tracked(h, drawn.link, down[j]) BY StillTracked DEF Kept, AllTracked
<1>2. CASE ~Due(h) BY <1>1, <1>2 DEF Renewed, Leasing, Keeps
<1>3. CASE Due(h)
  <2>. DEFINE g == Grant(h)
  <2>1. HostOK(g) /\ DOMAIN g = DOMAIN h /\ g.leases # <<>> BY <1>3, GrantOK DEF Due
  <2>2. Forward(g, drawn.link) /\ Keeps(h, g) BY <1>3, GrantKeeps DEF Due
  <2>. HIDE DEF g
  <2>3. r = [g EXCEPT !.since = 0] BY <1>3 DEF Renewed, g
  <2>4. /\ r.at = g.at /\ r.rev = g.rev /\ r.pending = g.pending /\ r.leases = g.leases
        /\ r.gen = g.gen /\ r.accepted = g.accepted
    BY <2>1, <2>3 DEF HostOK, Assigned
  <2>5. HostOK(r) BY RenewOK
  <2>6. Leasing(h) = Append(down, Last(r.leases)) BY <1>3 DEF Leasing, r
  <2>. HIDE DEF r
  <2>7. Forward(r, drawn.link) /\ Keeps(h, r)
    BY <2>1, <2>2, <2>4, KeepsSame, KeepsOn DEF HostOK, Assigned
  <2>8. Len(r.leases) \in DOMAIN r.leases /\ Last(r.leases) = r.leases[Len(r.leases)]
        /\ r.leases \in Seq(Lease)
    BY <2>1, <2>4, <2>5, EmptySeq, LenProperties DEF HostOK, Leased, Last
  <2>9. Tracked(r, drawn.link, Last(r.leases)) /\ Last(r.leases) \in Lease
    BY <2>5, <2>7, <2>8, IssuedTracked, ElementOfSeq, LenProperties DEF HostOK
  <2>11. \A j \in DOMAIN Leasing(h) : \/ j \in DOMAIN down /\ Leasing(h)[j] = down[j]
                                      \/ Leasing(h)[j] = Last(r.leases)
    BY <2>6, <2>9, AppendProperties, LenProperties DEF Inv
  <2>. QED BY <2>7, <2>9, <1>1, StillTracked, <2>11 DEF r
<1>. QED BY <1>2, <1>3


\* What is marked as old is tracked wherever the host goes.
LEMMA OldTracked ==
  ASSUME NEW h, NEW k, NEW link, NEW x \in Lease \cup Packet, Tracked(h, link, x),
         h.rev \in Nat, k.rev \in Nat, h.rev <= k.rev
  PROVE  Tracked(k, link, [x EXCEPT !.old = TRUE])
<1>. DEFINE y == [x EXCEPT !.old = TRUE]
<1>1. y.old = TRUE /\ y.rev = x.rev /\ y.gen = x.gen BY DEF Lease, Packet
<1>. HIDE DEF y
<1>2. Tracked(k, link, y) BY <1>1 DEF Tracked, InForce
<1>. QED BY <1>2 DEF y

\* What is outdated is tracked.
LEMMA OutdatedTracked ==
  ASSUME NEW h, NEW k, NEW link, h.rev \in Nat, k.rev \in Nat, h.rev <= k.rev,
         NEW s \in Seq(Lease) \cup Seq(Packet), \A j \in DOMAIN s : Tracked(h, link, s[j])
  PROVE  \A j \in DOMAIN Outdated(s) : Tracked(k, link, Outdated(s)[j])
BY ElementOfSeq, LenProperties, OldTracked DEF Outdated

\* A step after which the host has its leases, and only issues some of them.
LEMMA HostKeeps ==
  ASSUME Kept, Forward(host', drawn.link), Keeps(host, host'), drawn'.link = drawn.link,
         guest'.lease = guest.lease, \A j \in DOMAIN up' : \E i \in DOMAIN up : up'[j] = up[i],
         down' = down \/ \A j \in DOMAIN down' : Tracked(host', drawn.link, down'[j])
  PROVE  Kept'
BY StillTracked DEF Kept, AllTracked

\* A step that ends the guest's control.
LEMMA ControlGoes ==
  ASSUME Inv, Kept, LosesControl(guest), Forward(host', drawn.link), host'.rev \in Nat,
         host.rev <= host'.rev, drawn'.link = drawn.link
  PROVE  Kept'
<1>1. host.rev \in Nat BY DEF Inv, HostOK, Assigned
<1>3. \A j \in DOMAIN down' : Tracked(host', drawn.link, down'[j])
  BY <1>1, OutdatedTracked DEF Inv, Kept, AllTracked, LosesControl
<1>4. ASSUME guest'.lease # None
      PROVE  Tracked(host', drawn.link, guest'.lease)
  BY <1>4, <1>1, OldTracked DEF LosesControl, Inv, Kept, AllTracked
<1>. QED BY <1>1, OutdatedTracked, <1>3, <1>4 DEF Kept, AllTracked, Inv, LosesControl

\* Revoked input goes forward.
LEMMA RevokeForward ==
  ASSUME NEW h, HostOK(h), NEW link, Forward(h, link)
  PROVE  /\ Forward(Revoke(h), link) /\ Revoke(h).rev = h.rev
         /\ Forward(Isolated(h), link) /\ Isolated(h).rev = h.rev /\ Isolated(h).gen = h.gen
<1>1. Forward(Revoke(h), link) /\ Revoke(h).rev = h.rev BY RevokeOK DEF Forward
<1>. DEFINE k == Isolated(h)
<1>2. /\ k.at = h.at /\ k.rev = h.rev /\ k.pending = h.pending /\ k.gen = h.gen
      /\ k.leases = <<>> /\ k.accepted = 0
  BY DEF Isolated, Revoke, HostOK, Assigned
<1>. HIDE DEF k
<1>3. Forward(k, link) BY <1>2 DEF Forward
<1>. QED BY <1>1, <1>2, <1>3 DEF k

\* A host keeps its own leases.
LEMMA KeepsItself == ASSUME NEW h, HostOK(h) PROVE Keeps(h, h)
BY DEF Keeps, HostOK, Assigned

\* The steps of the host's clock and frames.
LEMMA FramesKept == Inv /\ Kept /\ (HostRenews \/ HostDispatch \/ HostCommit) => Kept'
<1>. SUFFICES ASSUME Inv, Kept, HostRenews \/ HostDispatch \/ HostCommit
              PROVE  Kept'
  OBVIOUS
<1>1. HostOK(host) /\ Forward(host, drawn.link) /\ Keeps(host, host) BY KeepsItself DEF Inv, Kept
<1>. DEFINE r == Renewed(host)
<1>2. /\ HostOK(r) /\ Forward(r, drawn.link) /\ Keeps(host, r)
      /\ \A j \in DOMAIN Leasing(host) : Tracked(r, drawn.link, Leasing(host)[j])
  BY <1>1, RenewKeeps, RenewOK
<1>3. CASE HostRenews BY <1>2, <1>3, HostKeeps DEF HostRenews
<1>4. CASE HostDispatch
  <2>. DEFINE h == ApplyAssignment(r)
              k == host'
  <2>1. HostOK(h) /\ Forward(h, drawn.link) /\ Keeps(r, h) BY <1>2, ApplyOK, ApplyKeeps
  <2>. HIDE DEF h
  <2>2. /\ k.at = h.at /\ k.rev = h.rev /\ k.pending = h.pending /\ k.leases = h.leases
        /\ k.gen = h.gen /\ k.accepted = h.accepted
    BY <1>4, <2>1 DEF HostDispatch, HostOK, Assigned, h
  <2>. HIDE DEF k, r
  <2>4. Forward(k, drawn.link) /\ Keeps(h, k) BY <2>1, <2>2, KeepsSame DEF HostOK, Assigned
  <2>5. Keeps(r, k) BY <2>1, <2>4, KeepsOn
  <2>6. \A j \in DOMAIN Leasing(host) : Tracked(k, drawn.link, Leasing(host)[j])
    BY <1>2, <2>5, StillTracked
  <2>7. Keeps(host, k) BY <1>2, <2>5, KeepsOn
  <2>. QED BY <1>4, <2>4, <2>6, <2>7, HostKeeps DEF k, HostDispatch
<1>5. CASE HostCommit
  <2>. DEFINE h == [host EXCEPT !.busy = FALSE]
              k == host'
  <2>1. /\ DOMAIN h = DOMAIN host /\ h.at = host.at /\ h.rev = host.rev /\ h.slot = host.slot
        /\ h.pending = host.pending /\ h.leases = host.leases /\ h.gen = host.gen
        /\ h.control = host.control /\ h.accepted = host.accepted
    BY <1>1 DEF HostOK, Assigned
  <2>2. k = ApplyAssignment(h) /\ UNCHANGED <<guest, up, down, drawn>> BY <1>5 DEF HostCommit
  <2>. HIDE DEF h, k
  <2>3. HostOK(h) /\ Forward(h, drawn.link) /\ Keeps(host, h)
    BY <1>1, <2>1, Untouched, KeepsSame DEF HostOK, Assigned
  <2>4. Forward(k, drawn.link) /\ Keeps(h, k) BY <2>2, <2>3, ApplyKeeps
  <2>5. Keeps(host, k) BY <2>3, <2>4, KeepsOn
  <2>. QED BY <2>2, <2>4, <2>5, HostKeeps DEF k
<1>. QED BY <1>3, <1>4, <1>5

\* A packet that the host takes.
LEMMA PacketKept == Inv /\ Kept /\ HostReceive => Kept'
<1>. SUFFICES ASSUME Inv, Kept, HostReceive
              PROVE  Kept'
  OBVIOUS
<1>1. HostOK(host) /\ Forward(host, drawn.link) /\ Keeps(host, host) /\ host.rev \in Nat
  BY KeepsItself DEF Inv, Kept, HostOK, Assigned
<1>2. /\ Tail(up) \in Seq(Packet)
      /\ \A j \in DOMAIN Tail(up) : \E i \in DOMAIN up : Tail(up)[j] = up[i]
  BY HeadTailProperties, LenProperties, EmptySeq DEF HostReceive, Inv
<1>. DEFINE read == host.gen = Head(up).gen
<1>3. CASE read /\ ~Owns(host.slot)
  <2>. DEFINE k == host'
  <2>1. k = Isolated(host) /\ up' = Outdated(Tail(up)) /\ UNCHANGED <<down, guest>>
    BY <1>3 DEF HostReceive
  <2>2. Open \/ UNCHANGED <<sync, toHost, drawn>> BY <1>3 DEF HostReceive
  <2>3. drawn'.link = drawn.link BY <2>2, OpenOK
  <2>4. host.leases = <<>> BY <1>1, <1>3 DEF HostOK, Leased
  <2>5. Forward(k, drawn.link) /\ k.rev = host.rev /\ k.gen = host.gen BY <1>1, <2>1, RevokeForward
  <2>. HIDE DEF k
  <2>6. Keeps(host, k) BY <1>1, <2>4, <2>5 DEF Keeps
  <2>8. \A j \in DOMAIN up' : Tracked(k, drawn.link, up'[j])
    <3>1. host.rev <= k.rev /\ k.rev \in Nat BY <1>1, <2>5
    <3>2. \A j \in DOMAIN Outdated(Tail(up)) : Tracked(k, drawn.link, Outdated(Tail(up))[j])
      BY <1>1, <1>2, <3>1, OutdatedTracked DEF Kept, AllTracked
    <3>. QED BY <2>1, <3>2
  <2>. QED BY <2>1, <2>3, <2>5, <2>8, <2>6, StillTracked DEF Kept, AllTracked, k
<1>4. CASE ~(read /\ ~Owns(host.slot))
  <2>1. up' = Tail(up) /\ UNCHANGED <<down, guest, drawn>> BY <1>4 DEF HostReceive
  <2>. DEFINE k == host'
  <2>3. /\ k.at = host.at /\ k.rev = host.rev /\ k.pending = host.pending
        /\ k.leases = host.leases /\ k.gen = host.gen /\ k.accepted \in {host.accepted, host.gen}
    BY <1>1, <1>4 DEF Accepted, HostOK, Assigned, HostReceive
  <2>. HIDE DEF k
  <2>4. Forward(k, drawn.link) /\ Keeps(host, k) BY <1>1, <2>3, KeepsSame DEF HostOK, Assigned
  <2>. QED BY <1>2, <2>1, <2>4, HostKeeps DEF k
<1>. QED BY <1>3, <1>4

\* The next view of the room.
LEMMA EntersKept == Inv /\ Kept /\ HostEnters => Kept'
<1>. SUFFICES ASSUME Inv, Kept, HostEnters
              PROVE  Kept'
  OBVIOUS
<1>. DEFINE at == host.at + 1
            e == [host EXCEPT !.at = at]
            asked == [e EXCEPT !.pending = [rev |-> at, slot |-> course[at]]]
            c == Configure(e, at, course[at])
            h == [c EXCEPT !.since = RenewTicks]
<1>1. HostOK(host) /\ Forward(host, drawn.link) /\ host.at \in Nat /\ host.rev \in Nat
  BY DEF Inv, Kept, HostOK, Assigned
<1>2. /\ DOMAIN asked = DOMAIN host /\ asked.at = at /\ asked.rev = host.rev
      /\ asked.slot = host.slot /\ asked.leases = host.leases /\ asked.gen = host.gen
      /\ asked.control = host.control /\ asked.accepted = host.accepted
      /\ asked.pending.rev = at /\ asked.pending.slot = course[at]
  BY <1>1 DEF HostOK, Assigned
<1>3. at \in Nat /\ host.rev < at BY <1>1 DEF Forward
<1>4. c = IF e.busy THEN asked ELSE ApplyAssignment(asked) BY DEF Configure
<1>. HIDE DEF asked, e, at
<1>6. HostOK(asked) BY <1>1, <1>2, <1>3 DEF HostOK, Assigned, Leased, Controlled
<1>7. Forward(asked, drawn.link) /\ Keeps(host, asked) BY <1>1, <1>2, <1>3 DEF Forward, Keeps
<1>8. HostOK(c) /\ Forward(c, drawn.link) /\ Keeps(host, c)
  BY <1>4, <1>6, <1>7, ApplyOK, ApplyKeeps, KeepsOn
<1>. HIDE DEF c
<1>9. HostOK(h) /\ Forward(h, drawn.link) /\ Keeps(host, h)
  <2>1. /\ DOMAIN h = DOMAIN c /\ h.at = c.at /\ h.rev = c.rev /\ h.slot = c.slot
        /\ h.pending = c.pending /\ h.leases = c.leases /\ h.gen = c.gen
        /\ h.control = c.control /\ h.accepted = c.accepted
    BY <1>8 DEF HostOK, Assigned
  <2>. HIDE DEF h
  <2>2. HostOK(h) /\ Forward(h, drawn.link) /\ Keeps(c, h)
    BY <1>8, <2>1, Untouched, KeepsSame DEF HostOK, Assigned
  <2>. QED BY <1>8, <2>2, KeepsOn
<1>. HIDE DEF h
<1>10. CASE Isolate(h, guest) BY <1>10, OpenOK, <1>9, RevokeForward, ControlGoes DEF Isolate, Keeps
<1>11. CASE /\ host' = [h EXCEPT !.ready = h.ready /\ ~h.recovering]
            /\ UNCHANGED <<guest, up, down, sync, toHost, drawn, course, revision>>
  <2>. DEFINE k == host'
  <2>1. /\ k.at = h.at /\ k.rev = h.rev /\ k.pending = h.pending
        /\ k.leases = h.leases /\ k.gen = h.gen /\ k.accepted = h.accepted
    BY <1>9, <1>11 DEF HostOK, Assigned
  <2>. HIDE DEF k
  <2>2. Forward(k, drawn.link) /\ Keeps(h, k) BY <1>9, <2>1, KeepsSame DEF HostOK, Assigned
  <2>3. Keeps(host, k) BY <1>9, <2>2, KeepsOn
  <2>. QED BY <1>11, <2>2, <2>3, HostKeeps DEF k
<1>. QED BY <1>10, <1>11 DEF HostEnters, h, c, e, at

\* An event of the coordinator about the transfer.
LEMMA EventKept == Inv /\ Kept /\ HostEvent => Kept'
<1>. SUFFICES ASSUME Inv, Kept, HostEvent
              PROVE  Kept'
  OBVIOUS
<1>. DEFINE event == Head(toHost)
<1>1. HostOK(host) /\ Forward(host, drawn.link) /\ Keeps(host, host) /\ host.rev \in Nat
  BY KeepsItself DEF Inv, Kept, HostOK, Assigned
<1>2. UNCHANGED drawn BY DEF HostEvent
<1>3. CASE event = "capture"
  <2>. DEFINE r == Revoke(host)
              k == host'
  <2>1. k = [r EXCEPT !.ready = FALSE, !.outgoing = r.outgoing \/ host.gen # 0] /\ LosesControl(guest)
    BY <1>3 DEF HostEvent
  <2>2. HostOK(r) /\ Forward(r, drawn.link) /\ r.rev = host.rev BY <1>1, RevokeOK, RevokeForward
  <2>. HIDE DEF r
  <2>3. /\ k.at = r.at /\ k.rev = r.rev /\ k.pending = r.pending /\ k.leases = r.leases
        /\ k.gen = r.gen /\ k.accepted = r.accepted
    BY <2>1, <2>2 DEF HostOK, Assigned
  <2>. HIDE DEF k
  <2>4. Forward(k, drawn.link) /\ k.rev \in Nat /\ host.rev <= k.rev
    BY <1>1, <2>2, <2>3, KeepsSame DEF HostOK, Assigned
  <2>. QED BY <1>2, <2>1, <2>4, ControlGoes DEF k
<1>4. CASE event = "live" /\ host.outgoing /\ host.gen # 0
  <2>. DEFINE k == [host EXCEPT !.outgoing = FALSE, !.ready = TRUE, !.recovering = FALSE,
                                !.since = RenewTicks]
  <2>1. host' = Renewed(k) /\ down' = Leasing(k) /\ UNCHANGED <<guest, up>> BY <1>4 DEF HostEvent
  <2>2. /\ DOMAIN k = DOMAIN host /\ k.at = host.at /\ k.rev = host.rev /\ k.slot = host.slot
        /\ k.pending = host.pending /\ k.leases = host.leases /\ k.gen = host.gen
        /\ k.control = host.control /\ k.accepted = host.accepted
    BY <1>1 DEF HostOK, Assigned
  <2>. HIDE DEF k
  <2>3. HostOK(k) /\ Forward(k, drawn.link) /\ Keeps(host, k)
    BY <1>1, <2>2, Untouched, KeepsSame DEF HostOK, Assigned
  <2>4. /\ Forward(host', drawn.link) /\ Keeps(k, host')
        /\ \A j \in DOMAIN down' : Tracked(host', drawn.link, down'[j])
    BY <2>1, <2>2, <2>3, RenewKeeps
  <2>5. Keeps(host, host') BY <2>3, <2>4, KeepsOn
  <2>. QED BY <1>2, <2>1, <2>4, <2>5, HostKeeps
<1>5. CASE event # "capture" /\ ~(event = "live" /\ host.outgoing /\ host.gen # 0)
  <2>. DEFINE k == host'
  <2>1. (k = host \/ k = [host EXCEPT !.outgoing = FALSE]) /\ UNCHANGED <<down, guest, up>>
    BY <1>5 DEF HostEvent
  <2>. HIDE DEF k
  <2>3. Forward(k, drawn.link) /\ Keeps(host, k) BY <1>1, <2>1, KeepsSame DEF HostOK, Assigned
  <2>. QED BY <1>2, <2>1, <2>3, HostKeeps DEF k
<1>. QED BY <1>3, <1>4, <1>5

\* The guest is isolated, or the host loses its channel.
LEMMA GuestOutKept == Inv /\ Kept /\ (HostIsolates \/ HostLoses) => Kept'
<1>. SUFFICES ASSUME Inv, Kept, HostIsolates \/ HostLoses
              PROVE  Kept'
  OBVIOUS
<1>1. HostOK(host) /\ Forward(host, drawn.link) /\ host.rev \in Nat
  BY DEF Inv, Kept, HostOK, Assigned
<1>2. CASE HostIsolates BY <1>2, OpenOK, <1>1, RevokeForward, ControlGoes DEF HostIsolates, Isolate
<1>3. CASE HostLoses
  <2>. DEFINE k == host'
  <2>1. LosesControl(guest) /\ UNCHANGED drawn BY <1>3 DEF HostLoses
  <2>2. /\ k.at = host.at /\ k.rev = host.rev /\ k.pending = host.pending
        /\ k.leases = <<>> /\ k.gen = 0 /\ k.accepted = 0
    BY <1>1, <1>3 DEF HostLoses, Revoke, HostOK, Assigned
  <2>. HIDE DEF k
  <2>3. Forward(k, drawn.link) BY <1>1, <2>2 DEF Forward
  <2>. QED BY <1>1, <2>1, <2>2, <2>3, ControlGoes DEF k
<1>. QED BY <1>2, <1>3

\* What Append adds comes last.
LEMMA LastAdded ==
  ASSUME NEW S, NEW s \in Seq(S), NEW p \in S
  PROVE  \A j \in DOMAIN Append(s, p) :
           (j \in DOMAIN s /\ Append(s, p)[j] = s[j]) \/ Append(s, p)[j] = p
BY AppendProperties, LenProperties

\* What the guest sends under a lease is tracked as the lease is.
LEMMA SendsTracked ==
  ASSUME Inv, Kept, NEW g, NEW mask \in Mask, Sends(g, mask), g.lease \in Lease,
         g.gen = g.lease.gen \/ up' = up, Tracked(host, drawn.link, g.lease)
  PROVE  /\ \A j \in DOMAIN up' : Tracked(host, drawn.link, up'[j])
         /\ guest' \in {g, [g EXCEPT !.lease = None]}
<1>1. \A j \in DOMAIN up : Tracked(host, drawn.link, up[j]) BY DEF Kept, AllTracked
<1>2. CASE Len(up) >= MaxFlight BY <1>1, <1>2 DEF Sends
<1>3. CASE ~(Len(up) >= MaxFlight)
  <2>. DEFINE p == Input(g, mask)
  <2>1. guest' = g /\ up' = Append(up, p) BY <1>3 DEF Sends
  <2>2. CASE up' = up BY <1>1, <2>1, <2>2
  <2>3. CASE g.gen = g.lease.gen
    <3>1. /\ p.gen = g.lease.gen /\ p.id = g.lease.id /\ p.rev = g.lease.rev
          /\ p.left = g.lease.left /\ p.old = g.lease.old
      BY <2>3 DEF Input
    <3>2. p \in Packet BY <2>3, LeaseAssumption DEF Lease, Input, Packet, Terms
    <3>. HIDE DEF p
    <3>3. Tracked(host, drawn.link, p) BY <3>1 DEF Tracked, InForce, Has
    <3>. QED BY <1>1, <2>1, <3>3, <3>2, LastAdded DEF Inv
  <2>. QED BY <2>2, <2>3
<1>. QED BY <1>2, <1>3

\* What the guest samples, and what it is granted.
LEMMA SamplesKept == Inv /\ Kept /\ (GuestSamples \/ GuestReceives) => Kept'
<1>. SUFFICES ASSUME Inv, Kept, GuestSamples \/ GuestReceives
              PROVE  Kept'
  OBVIOUS
<1>1. CASE GuestSamples
  <2>1. PICK mask \in Mask : Sends(guest, mask) BY <1>1 DEF GuestSamples
  <2>2. /\ guest.lease # None /\ guest.lease.gen = guest.gen /\ UNCHANGED <<host, down, drawn>>
    BY <1>1 DEF GuestSamples, MaySend
  <2>4. /\ \A j \in DOMAIN up' : Tracked(host, drawn.link, up'[j])
        /\ guest' \in {guest, [guest EXCEPT !.lease = None]}
    BY <2>1, <2>2, SendsTracked DEF Inv, Kept, AllTracked
  <2>5. guest'.lease \in {guest.lease, None} BY <2>4 DEF Inv
  <2>. QED BY <2>2, <2>4, <2>5 DEF Kept, AllTracked
<1>2. CASE GuestReceives
  <2>. DEFINE l == Head(down)
              g == [guest EXCEPT !.lease = l]
  <2>1. UNCHANGED <<host, drawn>> /\ down' = Tail(down) BY <1>2 DEF GuestReceives
  <2>2. /\ l = down[1] /\ 1 \in DOMAIN down /\ l \in Lease
        /\ DOMAIN Tail(down) = 1..(Len(down) - 1) /\ DOMAIN down = 1..Len(down) /\ Len(down) \in Nat
        /\ \A i \in 1..(Len(down) - 1) : Tail(down)[i] = down[i + 1]
    BY <1>2, HeadTailProperties, LenProperties, EmptySeq DEF GuestReceives, Inv
  <2>4. Tracked(host, drawn.link, l) BY <2>2 DEF Kept, AllTracked
  <2>5. g.gen = guest.gen /\ g.lease = l /\ [g EXCEPT !.lease = None].lease = None BY DEF Inv
  <2>6. \/ l.gen = guest.gen /\ \E mask \in Mask : Sends(g, mask)
        \/ guest' \in {g, guest} /\ up' = up
    BY <1>2 DEF GuestReceives, Takes
  <2>. HIDE DEF g, l
  <2>7. /\ \A j \in DOMAIN up' : Tracked(host, drawn.link, up'[j])
        /\ guest' \in {g, guest, [g EXCEPT !.lease = None]}
    <3>1. CASE l.gen = guest.gen /\ \E mask \in Mask : Sends(g, mask)
      <4>1. PICK mask \in Mask : Sends(g, mask) BY <3>1
      <4>. QED BY <2>2, <2>4, <2>5, <3>1, <4>1, SendsTracked
    <3>2. CASE guest' \in {g, guest} /\ up' = up BY <3>2 DEF Kept, AllTracked
    <3>. QED BY <2>6, <3>1, <3>2
  <2>8. guest'.lease # None => Tracked(host, drawn.link, guest'.lease)
    BY <2>4, <2>5, <2>7 DEF Kept, AllTracked
  <2>. QED BY <2>1, <2>2, <2>7, <2>8 DEF Kept, AllTracked
<1>. QED BY <1>1, <1>2

\* The other steps of the guest at most drop its lease.
LEMMA GuestKept ==
  Inv /\ Kept /\ (GuestEnters \/ GuestLoses \/ GuestObserves \/ GuestSynchronizes \/ SyncStops \/ Reassign)
    => Kept'
<1>. SUFFICES ASSUME Inv, Kept,
                     GuestEnters \/ GuestLoses \/ GuestObserves \/ GuestSynchronizes \/ SyncStops \/ Reassign
              PROVE  Kept'
  OBVIOUS
<1>1. UNCHANGED <<host, up, down>>
  BY DEF GuestEnters, GuestLoses, GuestObserves, GuestSynchronizes, SyncStops, Reassign
<1>2. drawn'.link = drawn.link
  BY OpenOK DEF GuestEnters, GuestLoses, GuestObserves, GuestSynchronizes, SyncStops, Reassign
<1>3. guest'.lease \in {guest.lease, None}
  BY DEF GuestEnters, GuestLoses, GuestObserves, GuestSynchronizes, SyncStops, Reassign, Inv
<1>. QED BY <1>1, <1>2, <1>3 DEF Kept, AllTracked

\* A new connection: nothing there is was granted in it.
LEMMA ConnectKept == Inv /\ Kept /\ Connect => Kept'
<1>. SUFFICES ASSUME Inv, Kept, Connect
              PROVE  Kept'
  OBVIOUS
<1>. DEFINE k == host'
            m == drawn.link + 1
<1>1. /\ HostOK(host) /\ Forward(host, drawn.link) /\ host.gen = 0 /\ host.leases = <<>>
      /\ drawn.link \in Nat /\ host.rev \in Nat
  BY DEF Inv, Kept, Connect, HostOK, Assigned, Leased
<1>2. /\ k.at = host.at /\ k.rev = host.rev /\ k.pending = host.pending
      /\ k.leases = host.leases /\ k.accepted = host.accepted /\ k.gen = m
  BY <1>1 DEF Connect, HostOK, Assigned
<1>. HIDE DEF k
<1>4. Forward(k, m) BY <1>1, <1>2 DEF Forward
<1>5. ASSUME NEW x, Tracked(host, drawn.link, x)
      PROVE  Tracked(k, m, x)
  BY <1>1, <1>2, <1>5 DEF Tracked, InForce
<1>. QED BY <1>4, <1>5 DEF Kept, AllTracked, k, Connect, Inv

\* Time passes for a lease and for what is tracked by it.
LEMMA ShorterTracked ==
  ASSUME Inv, Kept, NEW k, k.rev = host.rev, k.gen = host.gen,
         k.leases = Unexpired([i \in DOMAIN host.leases |-> Shorter(host.leases[i])]),
         NEW x \in Lease \cup Packet, Tracked(host, drawn.link, x),
         NEW y, y.id = x.id, y.gen = x.gen, y.rev = x.rev, y.old = x.old, y.left = Less(x.left)
  PROVE  Tracked(k, drawn.link, y)
<1>2. ASSUME InForce(k, y)
      PROVE  Has(k, y)
  <2>1. x.left \in Nat /\ x.left > 1
    BY LeaseAssumption, <1>2 DEF Lease, Packet, Terms, InForce, Less
  <2>2. InForce(host, x) BY <1>2, <2>1 DEF InForce
  <2>3. PICK n \in DOMAIN host.leases : host.leases[n].id = x.id /\ host.leases[n].left = x.left
    BY <2>2 DEF Tracked, Has
  <2>4. host.leases[n] \in Lease BY TermBounds
  <2>5. \A i \in DOMAIN host.leases : host.leases[i].left > 1
          => \E j \in DOMAIN k.leases : k.leases[j] = Shorter(host.leases[i])
    <3>. DEFINE u == Unexpired([i \in DOMAIN host.leases |-> Shorter(host.leases[i])])
    <3>2. k.leases = u OBVIOUS
    <3>3. \A i \in DOMAIN host.leases : host.leases[i].left > 1 => \E j \in DOMAIN u : u[j] = Shorter(host.leases[i])
      BY ShorterOK DEF Inv, HostOK, Leased
    <3>. QED BY <3>2, <3>3
  <2>6. PICK j \in DOMAIN k.leases : k.leases[j] = Shorter(host.leases[n]) BY <2>1, <2>3, <2>5
  <2>7. k.leases[j].id = y.id /\ k.leases[j].left = y.left BY <2>3, <2>4, <2>6, ShorterIs
  <2>. QED BY <2>7 DEF Has
<1>. QED BY <1>2 DEF Tracked

\* Time passes.
LEMMA TickKept == Inv /\ Kept /\ Tick => Kept'
<1>. SUFFICES ASSUME Inv, Kept, Tick
              PROVE  Kept'
  OBVIOUS
<1>. DEFINE k == host'
            ls == Unexpired([i \in DOMAIN host.leases |-> Shorter(host.leases[i])])
<1>1. /\ k.at = host.at /\ k.rev = host.rev /\ k.pending = host.pending
      /\ k.leases = ls /\ k.accepted = host.accepted /\ k.gen = host.gen
  BY DEF Tick, Inv, HostOK, Assigned
<1>. HIDE DEF k
<1>2. \A i \in DOMAIN ls : \E n \in DOMAIN host.leases : ls[i].rev = host.leases[n].rev
  BY ShorterOK DEF Inv, HostOK, Leased
<1>. HIDE DEF ls
<1>3. Forward(k, drawn.link) BY <1>1, <1>2 DEF Kept, Forward
<1>. USE DEF ls
<1>4. \A j \in DOMAIN up' : Tracked(k, drawn.link, up'[j])
  <2>. SUFFICES ASSUME NEW j \in DOMAIN up
                PROVE  Tracked(k, drawn.link, up'[j])
    BY DEF Tick
  <2>1. up[j] \in Packet /\ Tracked(host, drawn.link, up[j])
    BY ElementOfSeq, LenProperties DEF Inv, Kept, AllTracked
  <2>3. /\ up'[j].id = up[j].id /\ up'[j].gen = up[j].gen /\ up'[j].rev = up[j].rev
        /\ up'[j].old = up[j].old /\ up'[j].left = Less(up[j].left)
    BY <2>1 DEF Packet, Tick
  <2>. QED BY <1>1, <2>1, <2>3, ShorterTracked
<1>5. \A j \in DOMAIN down' : Tracked(k, drawn.link, down'[j])
  <2>. SUFFICES ASSUME NEW j \in DOMAIN down
                PROVE  Tracked(k, drawn.link, down'[j])
    BY DEF Tick
  <2>1. down[j] \in Lease /\ Tracked(host, drawn.link, down[j])
    BY ElementOfSeq, LenProperties DEF Inv, Kept, AllTracked
  <2>2. down'[j] = Shorter(down[j]) BY DEF Tick
  <2>. QED BY <1>1, <2>1, <2>2, ShorterIs, ShorterTracked
<1>6. ASSUME guest'.lease # None
      PROVE  Tracked(k, drawn.link, guest'.lease)
  <2>1. guest.lease \in Lease /\ Tracked(host, drawn.link, guest.lease)
    BY <1>6 DEF Tick, Inv, Kept, AllTracked
  <2>2. guest'.lease = Shorter(guest.lease) BY <1>6 DEF Tick, Inv
  <2>. QED BY <1>1, <2>1, <2>2, ShorterIs, ShorterTracked
<1>7. UNCHANGED drawn BY DEF Tick
<1>. QED BY <1>3, <1>4, <1>5, <1>6, <1>7 DEF Kept, AllTracked, k

\* Every step keeps the leases, and what was sent under them, tracked.
LEMMA NextKept == Inv /\ Kept /\ [Next]_vars => Kept'
BY FramesKept, PacketKept, EntersKept, EventKept, GuestOutKept, SamplesKept, GuestKept, ConnectKept,
   TickKept DEF vars, Kept, Next

\* At the start there is no lease.
LEMMA KeptFirst == Init => Kept
BY DEF Init, Kept, Forward, AllTracked

\* Both invariants hold in every reachable state.
LEMMA LeasesTracked == Spec => [](Inv /\ Kept)
<1>1. Init => Inv /\ Kept BY Initially, KeptFirst
<1>2. (Inv /\ Kept) /\ [Next]_vars => (Inv /\ Kept)' BY NextInv, NextKept
<1>. QED BY <1>1, <1>2, PTL DEF Spec

\* A lease is honoured to its end: what a guest that did not lose control since
\* sent under a lease it was granted becomes what its controller holds, until the
\* term of that lease is over (game-scheduler.ts:46-60).
THEOREM LeasesAreHonoured == Spec => LeaseHonoured
<1>1. Inv /\ Kept /\ [Next]_vars =>
        [LET packet == Head(up) IN
         (/\ up # <<>> /\ up' = Tail(up) /\ ~packet.old
          /\ packet.rev = host.rev /\ packet.gen = host.gen /\ packet.left > 0)
         => host'.control # None /\ host'.control.held = packet.mask]_vars
  <2>. SUFFICES ASSUME Inv, Kept, [Next]_vars, up # <<>>, up' = Tail(up), ~Head(up).old,
                       Head(up).rev = host.rev, Head(up).gen = host.gen, Head(up).left > 0
                PROVE  host'.control # None /\ host'.control.held = Head(up).mask
    OBVIOUS
  <2>1. HostReceive BY OnlyReceived
  <2>2. Head(up) = up[1] /\ 1 \in DOMAIN up BY LenProperties, EmptySeq DEF Inv
  <2>3. Tracked(host, drawn.link, up[1]) /\ up[1] \in Packet
    BY <2>2, ElementOfSeq, LenProperties DEF Inv, Kept, AllTracked
  <2>4. InForce(host, up[1]) BY <2>2, <2>3 DEF Packet, InForce
  <2>5. PICK n \in DOMAIN host.leases : host.leases[n].id = up[1].id /\ host.leases[n].left = up[1].left
    BY <2>3, <2>4 DEF Tracked, Has
  <2>6. Owns(host.slot) /\ host.leases[n].gen = host.gen
    BY EmptySeq, LenProperties DEF Inv, HostOK, Leased, Running
  <2>7. Accepts(host, up[1]) BY <2>2, <2>5, <2>6 DEF Accepts, Valid
  <2>8. host' = Accepted(host, up[1]) BY <2>1, <2>2, <2>6, <2>7 DEF HostReceive
  <2>. QED BY <2>2, <2>7, <2>8, AcceptedOK
<1>. QED BY <1>1, LeasesTracked, PTL DEF Spec, LeaseHonoured

-----------------------------------------------------------------------------
(* A load of saved progress: what is to be kept.                           *)

\* What is on its way to a member: its chain, then what it has not looked at.
Road(k, m, c) == c.chain \o k.inbox[m]
LoadNotice == {"Hold", "Stage", "Receive", "Commit", "Rollback", "Finish"}
Marks == {"Hold", "Commit", "Rollback"}

\* Loads and barriers are numbered as they are drawn.
NoticeOK(n, e, x) ==
  x.id <= n /\ (x.type \in LoadNotice => x.id # 0) /\ (x.type = "Prepare" => x.epoch <= e)
RequestOK(n, e, x) ==
  /\ x.id <= n
  /\ x.type = "bind" => x.epoch <= e /\ x.use \in {"none", "bind"}
  /\ x.type # "bind" => x.id # 0 /\ x.use # "bind"
ClientOK(n, c) ==
  /\ c.attempt <= n /\ (c.incoming = "asked" => c.attempt # 0)
  /\ \A i \in DOMAIN c.chain : c.chain[i].type \notin {"Stop", "Receive"}
MachineOK(n, w) ==
  /\ w.native <= n /\ w.candidate <= n
  /\ w.rollback # Nil => w.rollback.op <= n /\ w.rollback.bytes <= n
  /\ w.preparing # Nil => /\ w.preparing.id <= n /\ w.preparing.id # 0
                          /\ w.preparing.type = "prepare" /\ w.preparing.use # "bind"
Numbered(n, e, road, c, w, q) ==
  /\ \A i \in DOMAIN road : NoticeOK(n, e, road[i])
  /\ \A i \in DOMAIN q : RequestOK(n, e, q[i])
  /\ ClientOK(n, c) /\ MachineOK(n, w)

\* A prepared state has the copy of the present one beside it.
Copied(w) ==
  /\ w.preparing = Nil /\ w.candidate # 0 => w.rollback # Nil
  /\ w.candidate # 0 /\ w.rollback # Nil => w.rollback.op = w.candidate /\ ~w.rollback.committed
  /\ w.preparing # Nil => w.candidate \in {0, w.preparing.id}

\* A hold comes before everything else of its attempt.
HoldFirst(k, m, road, attempt) ==
  \A i \in DOMAIN road : road[i].type = "Hold" =>
    /\ attempt # road[i].id
    /\ \A j \in DOMAIN road : j # i /\ road[j].type \in Marks => road[j].id # road[i].id
    /\ k.load # Nil /\ k.load.id = road[i].id => m \notin k.load.boundaries

\* What the load replaced can be put back, and nobody was told that it is over.
Undoable(k, w) ==
  k.load # Nil =>
    /\ w.native = k.load.id => w.rollback # Nil /\ w.rollback.op = k.load.id /\ w.rollback.committed
    /\ w.rollback # Nil => w.rollback.bytes # k.load.id
NotOver(k, road, q) ==
  k.load # Nil =>
    /\ \A i \in DOMAIN road : road[i].type = "Finish" => road[i].id # k.load.id
    /\ \A i \in DOMAIN q : q[i].type = "finish" => q[i].id # k.load.id

Lacks(road, type) == \A i \in DOMAIN road : road[i].type # type
NoCommit(q, i) == \A j \in DOMAIN q : i < j => q[j].type # "commit"
NoUndo(q, i) == \A j \in DOMAIN q : i < j => ~(q[j].type = "rollback" /\ q[j].use = "chain")
Uncommitted(w) == w.rollback # Nil => ~w.rollback.committed
AtPoint(k, w) == w.native = k.point /\ Uncommitted(w)

\* Nothing a member still has to read makes it replace its state.
Quiet(box, road, attempt) ==
  /\ box = <<>>
  /\ \A i \in DOMAIN road : road[i].type = "Commit" => road[i].id # attempt

\* A barrier is the last a member hears of, and it answers for the state it keeps.
Barred(k, m, road, attempt, w, q) ==
  k.status \in {"starting", "playing"} =>
    /\ \A i, j \in DOMAIN road :
         road[i].type = "Prepare" /\ road[i].epoch = k.epoch => ~(i < j)
    /\ \A i \in DOMAIN q : q[i].type = "bind" /\ q[i].epoch = k.epoch =>
         Quiet(k.inbox[m], road, attempt) /\ NoCommit(q, i)
    /\ m \in k.acks => Quiet(k.inbox[m], road, attempt) /\ NoCommit(q, 0) /\ AtPoint(k, w)

\* Until a member has reported its boundary, the hold is the last it hears of.
Freezes(k, m, road, q) ==
  k.load # Nil /\ k.load.phase = "freezing" /\ m \notin k.load.boundaries =>
    /\ \A i, j \in DOMAIN road :
         road[i].type = "Hold" /\ road[i].id = k.load.id => ~(i < j)
    /\ \A i \in DOMAIN q : q[i].type = "hash" /\ q[i].use = "chain" /\ q[i].id = k.load.id =>
         road = <<>> /\ NoCommit(q, i) /\ NoUndo(q, i)

\* A member that reported it commits before it rolls back, and never after.
Undoes(k, m, road, w, q) ==
  k.load # Nil /\ m \in k.load.boundaries =>
    /\ k.load.phase \in {"freezing", "staging"} => Lacks(road, "Commit") /\ NoCommit(q, 0)
    /\ k.load.phase # "rolling_back" => Lacks(road, "Rollback") /\ NoUndo(q, 0)
    /\ k.load.phase = "rolling_back" =>
         /\ \A i, j \in DOMAIN road : road[i].type = "Rollback" /\ i < j => road[j].type # "Commit"
         /\ \A i \in DOMAIN q : q[i].type = "rollback" /\ q[i].use = "chain" =>
              NoCommit(q, i) /\ Lacks(road, "Commit")
         /\ m \in k.load.rolledBack => NoCommit(q, 0) /\ Lacks(road, "Commit") /\ AtPoint(k, w)

\* What the coordinator knows of a load and of a barrier.
Phased(k, n) ==
  /\ k.point <= n
  /\ k.load # Nil =>
       /\ k.load.id = n /\ n # 0
       /\ k.load.phase # "rolling_back" => k.load.rolledBack = {}
       /\ k.load.phase \in {"staging", "committing"} => k.load.boundaries = Member
       /\ k.status \in {"paused", "resume_ready"}
  /\ k.status = "playing" => k.acks = Member

Typed(c, w, q) == c \in Client /\ w \in Machine /\ q \in Seq(Request)
\* What concerns the order of what a member reads and asks its machine.
InOrder(k, m, road, attempt, w, q) ==
  /\ HoldFirst(k, m, road, attempt) /\ NotOver(k, road, q) /\ Barred(k, m, road, attempt, w, q)
  /\ Freezes(k, m, road, q) /\ Undoes(k, m, road, w, q)
Fits(k, n, m, c, w, q) ==
  /\ Typed(c, w, q) /\ Numbered(n, k.epoch, Road(k, m, c), c, w, q)
  /\ Copied(w) /\ Awaits(c, w, q) /\ Undoable(k, w)
  /\ InOrder(k, m, Road(k, m, c), c.attempt, w, q)

World(k, n, cs, ws, qs) ==
  /\ k \in Coordinator /\ Phased(k, n)
  /\ cs \in [Member -> Client] /\ ws \in [Member -> Machine] /\ qs \in [Member -> Seq(Request)]
  /\ \A m \in Member : Fits(k, n, m, cs[m], ws[m], qs[m])

LoadInv ==
  /\ linked \subseteq Guest
  /\ spent \in [load : Nat, resume : Nat, fault : Nat, stuck : BOOLEAN]
  /\ World(coord, spent.load, client, worker, jobs)

-----------------------------------------------------------------------------
(* Queues.                                                                 *)

\* Some of what was there, in order.
Thins(new, old) ==
  \E p \in Nat : \A i \in DOMAIN new :
    (IF i < p THEN i ELSE i + 1) \in DOMAIN old /\ new[i] = old[IF i < p THEN i ELSE i + 1]
\* Some of the requests, fewer of them waited for, and cancellations and imports.
Eased(new, old) ==
  \E d \in {0, 1} : \A i \in DOMAIN new :
    IF i + d \in DOMAIN old
    THEN /\ new[i].type = old[i + d].type /\ new[i].id = old[i + d].id /\ new[i].epoch = old[i + d].epoch
         /\ new[i].use \in {old[i + d].use, "none"}
    ELSE new[i].type \in {"rollback", "prepare"} /\ new[i].use # "chain"

\* Sequences are functions on their places.
LEMMA Rows ==
  ASSUME NEW S, NEW s \in Seq(S)
  PROVE  /\ Len(s) \in Nat /\ DOMAIN s = 1..Len(s) /\ \A i \in DOMAIN s : s[i] \in S
         /\ s = <<>> <=> Len(s) = 0
  BY EmptySeq, LenProperties, ElementOfSeq

\* What Append adds, and where.
LEMMA Appends ==
  ASSUME NEW S, NEW s \in Seq(S), NEW x \in S
  PROVE  /\ Append(s, x) \in Seq(S) /\ Len(Append(s, x)) = Len(s) + 1
         /\ DOMAIN Append(s, x) = 1..(Len(s) + 1)
         /\ \A i \in 1..Len(s) : Append(s, x)[i] = s[i]
         /\ Append(s, x)[Len(s) + 1] = x
  BY AppendProperties

\* What Tail leaves, and where.
LEMMA Tails ==
  ASSUME NEW S, NEW s \in Seq(S), s # <<>>
  PROVE  /\ Tail(s) \in Seq(S) /\ Len(Tail(s)) = Len(s) - 1 /\ Len(s) \in Nat \ {0}
         /\ DOMAIN Tail(s) = 1..(Len(s) - 1)
         /\ \A i \in 1..(Len(s) - 1) : Tail(s)[i] = s[i + 1]
         /\ Head(s) = s[1] /\ Head(s) \in S /\ 1 \in DOMAIN s
  BY HeadTailProperties, EmptySeq, LenProperties

\* One sequence after another, place by place.
LEMMA Roads ==
  ASSUME NEW S, NEW s \in Seq(S), NEW t \in Seq(S)
  PROVE  /\ s \o t \in Seq(S) /\ Len(s \o t) = Len(s) + Len(t)
         /\ DOMAIN (s \o t) = 1..(Len(s) + Len(t))
         /\ \A i \in 1..Len(s) : (s \o t)[i] = s[i]
         /\ \A i \in 1..Len(t) : (s \o t)[Len(s) + i] = t[i]
<1>1. Len(s) \in Nat /\ Len(t) \in Nat BY Rows
<1>2. s \o t \in Seq(S) /\ Len(s \o t) = Len(s) + Len(t) BY ConcatProperties
<1>3. \A i \in 1..(Len(s) + Len(t)) : (s \o t)[i] = IF i <= Len(s) THEN s[i] ELSE t[i - Len(s)]
  BY ConcatProperties, <1>2
<1>4. DOMAIN (s \o t) = 1..(Len(s) + Len(t)) BY <1>2, LenProperties
<1>5. ASSUME NEW i \in 1..Len(t) PROVE (s \o t)[Len(s) + i] = t[i] BY <1>1, <1>3
<1>6. \A i \in 1..Len(s) : (s \o t)[i] = s[i] BY <1>1, <1>3
<1> QED BY <1>2, <1>4, <1>5, <1>6

\* What is appended to the second part is appended to the whole.
LEMMA RoadAppended ==
  ASSUME NEW S, NEW s \in Seq(S), NEW t \in Seq(S), NEW x \in S
  PROVE  s \o Append(t, x) = Append(s \o t, x)
BY AppendIsConcat, Roads, ConcatAssociative

\* An event that goes from the inbox to the chain stays where it is on the road.
LEMMA RoadDelivered ==
  ASSUME NEW S, NEW s \in Seq(S), NEW t \in Seq(S), t # <<>>
  PROVE  Append(s, Head(t)) \o Tail(t) = s \o t
<1>1. Head(t) \in S /\ Tail(t) \in Seq(S) /\ <<Head(t)>> \in Seq(S) BY Tails
<1>2. Append(s, Head(t)) = s \o <<Head(t)>> BY <1>1, AppendIsConcat
<1>3. <<Head(t)>> \o Tail(t) = t
  <2>1. /\ Len(<<Head(t)>>) = 1 /\ <<Head(t)>>[1] = Head(t) OBVIOUS
  <2> DEFINE u == <<Head(t)>> \o Tail(t)
  <2>2. u \in Seq(S) /\ Len(u) = Len(t) BY <1>1, <2>1, Tails, Roads, SMTT(30)
  <2>3. ASSUME NEW i \in 1..Len(t) PROVE u[i] = t[i] BY <1>1, <2>1, Tails, Roads
  <2> QED BY <2>2, <2>3, SeqEqual
<1> QED BY <1>1, <1>2, <1>3, ConcatAssociative

\* Taking the first of the chain takes the first of the road.
LEMMA RoadHandled ==
  ASSUME NEW S, NEW s \in Seq(S), NEW t \in Seq(S), s # <<>>
  PROVE  Tail(s) \o t = Tail(s \o t) /\ s \o t # <<>> /\ Head(s \o t) = Head(s)
<1>1. /\ s \o t \in Seq(S) /\ Len(s \o t) = Len(s) + Len(t)
      /\ \A i \in 1..Len(s) : (s \o t)[i] = s[i]
      /\ \A i \in 1..Len(t) : (s \o t)[Len(s) + i] = t[i]
  BY Roads
<1>2. Len(s) \in Nat \ {0} /\ Len(t) \in Nat BY Tails, Rows
<1>3. s \o t # <<>> BY <1>1, <1>2, Rows
<1>4. Head(s \o t) = Head(s) BY <1>1, <1>2, <1>3, Tails
<1>5. /\ Tail(s) \in Seq(S) /\ Len(Tail(s)) = Len(s) - 1
      /\ \A i \in 1..(Len(s) - 1) : Tail(s)[i] = s[i + 1]
  BY Tails
<1>6. /\ Tail(s \o t) \in Seq(S) /\ Len(Tail(s \o t)) = Len(s) + Len(t) - 1
      /\ \A i \in 1..(Len(s) + Len(t) - 1) : Tail(s \o t)[i] = (s \o t)[i + 1]
  BY <1>1, <1>3, Tails
<1>7. /\ Tail(s) \o t \in Seq(S) /\ Len(Tail(s) \o t) = Len(Tail(s)) + Len(t)
      /\ \A i \in 1..Len(Tail(s)) : (Tail(s) \o t)[i] = Tail(s)[i]
      /\ \A i \in 1..Len(t) : (Tail(s) \o t)[Len(Tail(s)) + i] = t[i]
  BY <1>5, Roads
<1>8. ASSUME NEW i \in 1..(Len(s) + Len(t) - 1) PROVE (Tail(s) \o t)[i] = Tail(s \o t)[i]
  <2>1. CASE i \in 1..(Len(s) - 1) BY <1>1, <1>2, <1>5, <1>6, <1>7, <2>1
  <2>2. CASE i \notin 1..(Len(s) - 1)
    <3>1. PICK j \in 1..Len(t) : i = Len(s) - 1 + j
      <4>1. i - Len(s) + 1 \in 1..Len(t) /\ i = Len(s) - 1 + (i - Len(s) + 1) BY <2>2, <1>2
      <4> QED BY <4>1
    <3>2. (Tail(s) \o t)[i] = t[j] BY <3>1, <1>7, <1>5
    <3>3. Tail(s \o t)[i] = (s \o t)[Len(s) + j] BY <3>1, <1>6, <1>2
    <3> QED BY <3>2, <3>3, <1>1
  <2> QED BY <2>1, <2>2
<1>9. Len(Tail(s) \o t) = Len(s) + Len(t) - 1 BY <1>5, <1>7, <1>2
<1> QED BY <1>3, <1>4, <1>6, <1>7, <1>8, <1>9, SeqEqual

\* A road is thinner than itself.
LEMMA Same ==
  ASSUME NEW S, NEW s \in Seq(S)
  PROVE  Thins(s, s)
<1>1. Len(s) + 1 \in Nat /\ \A i \in DOMAIN s : i < Len(s) + 1 BY Rows
<1> QED BY <1>1 DEF Thins

\* The first of a road is taken.
LEMMA Handled ==
  ASSUME NEW S, NEW s \in Seq(S), s # <<>>
  PROVE  Thins(Tail(s), s)
<1>1. \A i \in DOMAIN Tail(s) : ~(i < 0) /\ i + 1 \in DOMAIN s /\ Tail(s)[i] = s[i + 1]
  BY Tails, Rows
<1> QED BY <1>1 DEF Thins

\* The first of the inbox is taken, and the chain stays.
LEMMA Skipped ==
  ASSUME NEW S, NEW s \in Seq(S), NEW t \in Seq(S), t # <<>>
  PROVE  Thins(s \o Tail(t), s \o t)
<1>1. /\ Len(s) \in Nat /\ Len(t) \in Nat \ {0}
      /\ Tail(t) \in Seq(S) /\ Len(Tail(t)) = Len(t) - 1
      /\ \A i \in 1..(Len(t) - 1) : Tail(t)[i] = t[i + 1]
  BY Tails, Rows
<1>2. /\ DOMAIN (s \o t) = 1..(Len(s) + Len(t))
      /\ \A i \in 1..Len(s) : (s \o t)[i] = s[i]
      /\ \A i \in 1..Len(t) : (s \o t)[Len(s) + i] = t[i]
  BY Roads
<1>3. /\ DOMAIN (s \o Tail(t)) = 1..(Len(s) + Len(Tail(t)))
      /\ \A i \in 1..Len(s) : (s \o Tail(t))[i] = s[i]
      /\ \A i \in 1..Len(Tail(t)) : (s \o Tail(t))[Len(s) + i] = Tail(t)[i]
  BY <1>1, Roads
<1>4. ASSUME NEW i \in DOMAIN (s \o Tail(t))
      PROVE  LET j == IF i < Len(s) + 1 THEN i ELSE i + 1
             IN j \in DOMAIN (s \o t) /\ (s \o Tail(t))[i] = (s \o t)[j]
  <2>1. CASE i < Len(s) + 1 BY <1>1, <1>2, <1>3, <2>1
  <2>2. CASE ~(i < Len(s) + 1)
    <3>1. PICK h \in 1..(Len(t) - 1) : i = Len(s) + h BY <1>1, <1>3, <2>2
    <3>2. (s \o Tail(t))[i] = t[h + 1] BY <3>1, <1>1, <1>3
    <3>4. (s \o t)[i + 1] = t[h + 1] /\ i + 1 \in DOMAIN (s \o t) BY <3>1, <1>1, <1>2
    <3> QED BY <2>2, <3>2, <3>4
  <2> QED BY <2>1, <2>2
<1>5. Len(s) + 1 \in Nat BY <1>1
<1> QED BY <1>4, <1>5 DEF Thins

\* The inbox is lost, and the chain stays.
LEMMA Cut ==
  ASSUME NEW S, NEW s \in Seq(S), NEW t \in Seq(S)
  PROVE  s \o <<>> = s /\ Thins(s, s \o t)
<1>1. s \o <<>> = s BY ConcatEmptySeq
<1>2. Len(s) \in Nat /\ Len(t) \in Nat /\ DOMAIN s = 1..Len(s) BY Rows
<1>3. \A i \in DOMAIN s : i < Len(s) + 1 /\ i \in DOMAIN (s \o t) /\ (s \o t)[i] = s[i]
  BY <1>2, Roads
<1> QED BY <1>1, <1>2, <1>3 DEF Thins

\* Nothing is thinner than nothing.
LEMMA ThinsToNothing ==
  ASSUME NEW S, NEW s \in Seq(S), Thins(s, <<>>)
  PROVE  s = <<>>
BY Rows DEF Thins
-----------------------------------------------------------------------------
(* Requests.                                                               *)

\* The same requests, some of them waited for no more.
Loosened(new, old) ==
  /\ Len(new) = Len(old) /\ DOMAIN new = DOMAIN old
  /\ \A i \in DOMAIN old :
       /\ new[i].type = old[i].type /\ new[i].id = old[i].id /\ new[i].epoch = old[i].epoch
       /\ new[i].use \in {old[i].use, "none"}

\* A function on the first n numbers is a sequence.
LEMMA SequenceOf ==
  ASSUME NEW S, NEW n \in Nat, NEW f \in [1..n -> S]
  PROVE  f \in Seq(S) /\ Len(f) = n
BY SeqDef, LenProperties

\* Forget keeps the requests, and waits for fewer of them.
LEMMA Forgets ==
  ASSUME NEW q \in Seq(Request), NEW uses
  PROVE  /\ Forget(q, uses) \in Seq(Request) /\ Len(Forget(q, uses)) = Len(q)
         /\ Loosened(Forget(q, uses), q)
         /\ \A i \in DOMAIN q : Forget(q, uses)[i].use = IF q[i].use \in uses THEN "none" ELSE q[i].use
<1> DEFINE f == Forget(q, uses)
<1>1. Len(q) \in Nat /\ DOMAIN q = 1..Len(q) /\ \A i \in DOMAIN q : q[i] \in Request BY Rows
<1>2. \A x \in Request : /\ [x EXCEPT !.use = "none"] \in Request
                         /\ [x EXCEPT !.use = "none"].type = x.type
                         /\ [x EXCEPT !.use = "none"].id = x.id
                         /\ [x EXCEPT !.use = "none"].epoch = x.epoch
                         /\ [x EXCEPT !.use = "none"].use = "none"
  BY DEF Request
<1>3. DOMAIN f = 1..Len(q) /\ \A i \in 1..Len(q) :
        f[i] = IF q[i].use \in uses THEN [q[i] EXCEPT !.use = "none"] ELSE q[i]
  BY <1>1 DEF Forget
<1>4. f = [i \in 1..Len(q) |-> f[i]] /\ \A i \in 1..Len(q) : f[i] \in Request
  BY <1>1, <1>2, <1>3 DEF Forget
<1> HIDE DEF f
<1>5. f \in [1..Len(q) -> Request] BY <1>4
<1>6. f \in Seq(Request) /\ Len(f) = Len(q) BY <1>1, <1>5, SequenceOf
<1>7. Loosened(f, q)
  <2>1. ASSUME NEW i \in DOMAIN q
        PROVE  /\ f[i].type = q[i].type /\ f[i].id = q[i].id /\ f[i].epoch = q[i].epoch
               /\ f[i].use \in {q[i].use, "none"}
    BY <1>1, <1>2, <1>3
  <2> QED BY <1>1, <1>3, <1>6, <2>1 DEF Loosened
<1> QED BY <1>6, <1>7, <1>1, <1>2, <1>3 DEF f

\* One request is waited for no more, the others as before.
LEMMA GivesUp ==
  ASSUME NEW q \in Seq(Request), NEW i \in DOMAIN q
  PROVE  LET new == [q EXCEPT ![i].use = "none"]
         IN /\ new \in Seq(Request) /\ Len(new) = Len(q) /\ Loosened(new, q)
            /\ new[i].use = "none" /\ \A j \in DOMAIN q : j # i => new[j] = q[j]
<1> DEFINE new == [q EXCEPT ![i].use = "none"]
<1>1. Len(q) \in Nat /\ DOMAIN q = 1..Len(q) /\ \A j \in DOMAIN q : q[j] \in Request BY Rows
<1>2. \A x \in Request : /\ [x EXCEPT !.use = "none"] \in Request
                         /\ [x EXCEPT !.use = "none"].type = x.type
                         /\ [x EXCEPT !.use = "none"].id = x.id
                         /\ [x EXCEPT !.use = "none"].epoch = x.epoch
                         /\ [x EXCEPT !.use = "none"].use = "none"
  BY DEF Request
<1>3. /\ DOMAIN new = 1..Len(q) /\ new[i] = [q[i] EXCEPT !.use = "none"]
      /\ \A j \in DOMAIN q : j # i => new[j] = q[j]
  BY <1>1
<1>4. new = [j \in 1..Len(q) |-> new[j]] /\ \A j \in 1..Len(q) : new[j] \in Request
  BY <1>1, <1>2, <1>3
<1> HIDE DEF new
<1>5. new \in Seq(Request) /\ Len(new) = Len(q) BY <1>1, <1>4, SequenceOf
<1>6. Loosened(new, q)
  <2>1. ASSUME NEW j \in DOMAIN q
        PROVE  /\ new[j].type = q[j].type /\ new[j].id = q[j].id /\ new[j].epoch = q[j].epoch
               /\ new[j].use \in {q[j].use, "none"}
    <3>1. q[j] \in Request BY <1>1
    <3>2. CASE j = i BY <1>2, <1>3, <3>1, <3>2
    <3>3. CASE j # i BY <1>3, <3>3
    <3> QED BY <3>2, <3>3
  <2> QED BY <1>1, <1>3, <1>5, <2>1 DEF Loosened
<1> QED BY <1>1, <1>2, <1>3, <1>5, <1>6 DEF new

\* Requests nobody waits for any more are fewer requests.
LEMMA EasedLoosened ==
  ASSUME NEW q \in Seq(Request), NEW new \in Seq(Request), Loosened(new, q)
  PROVE  Eased(new, q)
BY Rows DEF Eased, Loosened

\* The same requests.
LEMMA EasedSame ==
  ASSUME NEW q \in Seq(Request)
  PROVE  Eased(q, q)
  BY EasedLoosened DEF Loosened

\* The first request is taken.
LEMMA EasedTail ==
  ASSUME NEW q \in Seq(Request), q # <<>>
  PROVE  Eased(Tail(q), q)
BY Tails, Rows DEF Eased

\* A cancellation or an import is added.
LEMMA EasedAppend ==
  ASSUME NEW q \in Seq(Request), NEW left \in Seq(Request), Loosened(left, q),
         NEW x \in Request, x.type \in {"rollback", "prepare"}, x.use # "chain"
  PROVE  Eased(Append(left, x), q)
<1>3. Len(left) = Len(q) /\ DOMAIN left = DOMAIN q BY DEF Loosened
<1>4. ASSUME NEW i \in DOMAIN Append(left, x)
      PROVE  /\ i + 0 = i /\ i \in DOMAIN q => Append(left, x)[i] = left[i]
             /\ i \notin DOMAIN q => Append(left, x)[i] = x
  BY Rows, <1>3, Appends
<1> HIDE DEF Append
<1> QED BY <1>4 DEF Eased, Loosened

\* Requests are of their type.
LEMMA Jobs ==
  ASSUME NEW id \in Nat, NEW epoch \in Nat
  PROVE  /\ \A type \in {"hash", "prepare", "commit", "rollback", "finish"} :
              \A use \in {"none", "chain", "import"} :
                /\ Job(type, id, use) \in Request /\ Job(type, id, use).type = type
                /\ Job(type, id, use).id = id /\ Job(type, id, use).use = use
         /\ BindJob(id, epoch) \in Request /\ BindJob(id, epoch).type = "bind"
         /\ BindJob(id, epoch).id = id /\ BindJob(id, epoch).use = "bind"
         /\ BindJob(id, epoch).epoch = epoch
  BY DEF Job, BindJob, Request

\* clear leaves nothing that is waited for but the chain's request.
LEMMA Clears ==
  ASSUME NEW c \in Client, NEW q \in Seq(Request)
  PROVE  /\ Clearing(c, q) \in Seq(Request) /\ Eased(Clearing(c, q), q)
         /\ \A i \in DOMAIN Clearing(c, q) :
              IF i \in DOMAIN q
              THEN Clearing(c, q)[i].use = IF q[i].use \in {"import", "bind"} THEN "none" ELSE q[i].use
              ELSE c.attempt # 0 /\ Clearing(c, q)[i] = Job("rollback", c.attempt, "none")
         /\ DOMAIN q \subseteq DOMAIN Clearing(c, q)
<1> DEFINE left == Forget(q, {"import", "bind"})
           x == Job("rollback", c.attempt, "none")
<1>1. /\ left \in Seq(Request) /\ Len(left) = Len(q) /\ Loosened(left, q)
      /\ \A i \in DOMAIN q : left[i].use = IF q[i].use \in {"import", "bind"} THEN "none" ELSE q[i].use
  BY Forgets
<1>2. Len(q) \in Nat /\ DOMAIN q = 1..Len(q) /\ DOMAIN left = 1..Len(q) BY <1>1, Rows
<1>3. c.attempt \in Nat BY DEF Client
<1>4. x \in Request /\ x.type = "rollback" /\ x.use = "none" BY <1>3, Jobs
<1> HIDE DEF left, x
<1>5. CASE c.attempt = 0 BY <1>5, <1>1, <1>2, EasedLoosened DEF Clearing, left
<1>6. CASE c.attempt # 0
  <2>1. Clearing(c, q) = Append(left, x) BY <1>6 DEF Clearing, left, x
  <2>2. /\ Append(left, x) \in Seq(Request) /\ DOMAIN Append(left, x) = 1..(Len(q) + 1)
        /\ \A i \in 1..Len(q) : Append(left, x)[i] = left[i]
        /\ Append(left, x)[Len(q) + 1] = x
    BY <1>1, <1>4, Appends
  <2>3. Eased(Append(left, x), q) BY <1>1, <1>4, EasedAppend
  <2>4. DOMAIN q \subseteq DOMAIN Append(left, x) BY <2>2, <1>2
  <2>5. ASSUME NEW i \in DOMAIN Append(left, x)
        PROVE  IF i \in DOMAIN q
               THEN Append(left, x)[i].use = IF q[i].use \in {"import", "bind"} THEN "none" ELSE q[i].use
               ELSE Append(left, x)[i] = x
    BY <2>2, <1>1, <1>2
  <2> QED BY <1>6, <2>1, <2>2, <2>3, <2>4, <2>5 DEF x
<1> QED BY <1>5, <1>6
-----------------------------------------------------------------------------
(* Steps of a member that read and ask no more than there was.             *)

Unmoved(w, v) == Uncommitted(w) => Uncommitted(v) /\ v.native = w.native
Alike(k, k2) ==
  k2.load = k.load /\ k2.point = k.point /\ k2.status = k.status /\ k2.acks = k.acks /\ k2.epoch = k.epoch

\* Fewer requests hold no commit and no rollback that was not there.
LEMMA NoCommitEased ==
  ASSUME NEW q \in Seq(Request), NEW q2 \in Seq(Request), Eased(q2, q)
  PROVE  /\ NoCommit(q, 0) => NoCommit(q2, 0)
         /\ NoUndo(q, 0) => NoUndo(q2, 0)
<1>1. PICK d \in {0, 1} : \A i \in DOMAIN q2 :
        IF i + d \in DOMAIN q
        THEN /\ q2[i].type = q[i + d].type /\ q2[i].id = q[i + d].id /\ q2[i].epoch = q[i + d].epoch
             /\ q2[i].use \in {q[i + d].use, "none"}
        ELSE q2[i].type \in {"rollback", "prepare"} /\ q2[i].use # "chain"
  BY DEF Eased
<1>2. \A i \in DOMAIN q2 : i \in Nat \ {0} /\ 0 < i /\ 0 < i + d BY Rows
<1>3. ASSUME NoCommit(q, 0) PROVE NoCommit(q2, 0)
  <2> SUFFICES ASSUME NEW j \in DOMAIN q2 PROVE q2[j].type # "commit" BY DEF NoCommit
  <2>1. CASE j + d \in DOMAIN q BY <1>1, <1>2, <1>3, <2>1 DEF NoCommit
  <2>2. CASE j + d \notin DOMAIN q BY <1>1, <2>2
  <2> QED BY <2>1, <2>2
<1>4. ASSUME NoUndo(q, 0) PROVE NoUndo(q2, 0)
  <2> SUFFICES ASSUME NEW j \in DOMAIN q2 PROVE ~(q2[j].type = "rollback" /\ q2[j].use = "chain")
    BY DEF NoUndo
  <2>1. CASE j + d \in DOMAIN q BY <1>1, <1>2, <1>4, <2>1 DEF NoUndo
  <2>2. CASE j + d \notin DOMAIN q BY <1>1, <2>2
  <2> QED BY <2>1, <2>2
<1> QED BY <1>3, <1>4

\* Each request is one there was, with no more commits and rollbacks after it.
LEMMA EasedAt ==
  ASSUME NEW q \in Seq(Request), NEW q2 \in Seq(Request), Eased(q2, q),
         NEW i \in DOMAIN q2, q2[i].type \notin {"rollback", "prepare"} \/ q2[i].use = "chain"
  PROVE  \E j \in DOMAIN q :
           /\ q2[i].type = q[j].type /\ q2[i].id = q[j].id /\ q2[i].epoch = q[j].epoch
           /\ q2[i].use \in {q[j].use, "none"}
           /\ NoCommit(q, j) => NoCommit(q2, i)
           /\ NoUndo(q, j) => NoUndo(q2, i)
<1>1. PICK d \in {0, 1} : \A h \in DOMAIN q2 :
        IF h + d \in DOMAIN q
        THEN /\ q2[h].type = q[h + d].type /\ q2[h].id = q[h + d].id /\ q2[h].epoch = q[h + d].epoch
             /\ q2[h].use \in {q[h + d].use, "none"}
        ELSE q2[h].type \in {"rollback", "prepare"} /\ q2[h].use # "chain"
  BY DEF Eased
<1>2. \A h \in DOMAIN q2 : h \in Nat \ {0} /\ (i < h => i + d < h + d) BY Rows
<1>3. i + d \in DOMAIN q BY <1>1
<1>4. ASSUME NoCommit(q, i + d) PROVE NoCommit(q2, i)
  <2> SUFFICES ASSUME NEW j \in DOMAIN q2, i < j PROVE q2[j].type # "commit" BY DEF NoCommit
  <2>1. CASE j + d \in DOMAIN q BY <1>1, <1>2, <1>4, <2>1 DEF NoCommit
  <2>2. CASE j + d \notin DOMAIN q BY <1>1, <2>2
  <2> QED BY <2>1, <2>2
<1>5. ASSUME NoUndo(q, i + d) PROVE NoUndo(q2, i)
  <2> SUFFICES ASSUME NEW j \in DOMAIN q2, i < j PROVE ~(q2[j].type = "rollback" /\ q2[j].use = "chain")
    BY DEF NoUndo
  <2>1. CASE j + d \in DOMAIN q BY <1>1, <1>2, <1>5, <2>1 DEF NoUndo
  <2>2. CASE j + d \notin DOMAIN q BY <1>1, <2>2
  <2> QED BY <2>1, <2>2
<1> QED BY <1>1, <1>3, <1>4, <1>5

\* A place on the thinner road is one on the old one, in the same order.
Place(i, p) == IF i < p THEN i ELSE i + 1

\* A member that reads and asks no more than before is as well ordered as before.
LEMMA Eases ==
  ASSUME NEW k, NEW k2, NEW m, NEW road \in Seq(Notice), NEW road2 \in Seq(Notice),
         NEW a \in Nat, NEW a2 \in Nat, NEW w \in Machine, NEW v \in Machine,
         NEW q \in Seq(Request), NEW q2 \in Seq(Request),
         Alike(k, k2), k.inbox[m] = <<>> => k2.inbox[m] = <<>>,
         Thins(road2, road), Eased(q2, q),
         \/ a2 \in {a, 0}
         \/ k.inbox[m] # <<>> /\ \E i \in DOMAIN road : road[i].type = "Rollback" /\ road[i].id = a2,
         \A i \in DOMAIN road : road[i].type \in LoadNotice => road[i].id # 0,
         ~NoCommit(q, 0) \/ Unmoved(w, v),
         InOrder(k, m, road, a, w, q)
  PROVE  InOrder(k2, m, road2, a2, v, q2)
<1>1. PICK p \in Nat : \A i \in DOMAIN road2 :
        Place(i, p) \in DOMAIN road /\ road2[i] = road[Place(i, p)]
  BY DEF Thins, Place
<1>2. \A i, j \in DOMAIN road2 : /\ i < j => Place(i, p) < Place(j, p)
                                 /\ i # j => Place(i, p) # Place(j, p)
  BY Rows DEF Place
<1>3. HoldFirst(k2, m, road2, a2)
  <2> SUFFICES ASSUME NEW i \in DOMAIN road2, road2[i].type = "Hold"
               PROVE  /\ a2 # road2[i].id
                      /\ \A j \in DOMAIN road2 : j # i /\ road2[j].type \in Marks => road2[j].id # road2[i].id
                      /\ k2.load # Nil /\ k2.load.id = road2[i].id => m \notin k2.load.boundaries
    BY DEF HoldFirst
  <2>1. /\ Place(i, p) \in DOMAIN road /\ road[Place(i, p)].type = "Hold"
        /\ road[Place(i, p)].id = road2[i].id
    BY <1>1
  <2>2. HoldFirst(k, m, road, a) BY DEF InOrder
  <2>3. /\ a # road2[i].id
        /\ \A j \in DOMAIN road : j # Place(i, p) /\ road[j].type \in Marks => road[j].id # road2[i].id
        /\ k.load # Nil /\ k.load.id = road2[i].id => m \notin k.load.boundaries
    BY <2>1, <2>2 DEF HoldFirst
  <2>4. a2 # road2[i].id
    <3>1. CASE a2 \in {a, 0} BY <3>1, <2>1, <2>3 DEF LoadNotice
    <3>2. CASE \E h \in DOMAIN road : road[h].type = "Rollback" /\ road[h].id = a2
      <4>1. PICK h \in DOMAIN road : road[h].type = "Rollback" /\ road[h].id = a2 BY <3>2
      <4>2. h # Place(i, p) BY <4>1, <2>1
      <4> QED BY <4>1, <4>2, <2>3 DEF Marks
    <3> QED BY <3>1, <3>2
  <2> QED BY <2>3, <2>4, <1>1, <1>2 DEF Alike
<1>4. NotOver(k2, road2, q2)
  <2> SUFFICES ASSUME k.load # Nil
               PROVE  /\ \A i \in DOMAIN road2 : road2[i].type = "Finish" => road2[i].id # k.load.id
                      /\ \A i \in DOMAIN q2 : q2[i].type = "finish" => q2[i].id # k.load.id
    BY DEF NotOver, Alike
  <2>1. /\ \A i \in DOMAIN road : road[i].type = "Finish" => road[i].id # k.load.id
        /\ \A i \in DOMAIN q : q[i].type = "finish" => q[i].id # k.load.id
    BY DEF InOrder, NotOver
  <2>3. ASSUME NEW i \in DOMAIN q2, q2[i].type = "finish" PROVE q2[i].id # k.load.id
    <3>1. \E j \in DOMAIN q : q2[i].type = q[j].type /\ q2[i].id = q[j].id BY <2>3, EasedAt
    <3> QED BY <3>1, <2>1, <2>3
  <2> QED BY <1>1, <2>1, <2>3
<1>5. /\ Lacks(road, "Commit") => Lacks(road2, "Commit")
      /\ Lacks(road, "Rollback") => Lacks(road2, "Rollback")
  BY <1>1 DEF Lacks
<1>6. ASSUME Quiet(k.inbox[m], road, a) PROVE Quiet(k2.inbox[m], road2, a2)
  BY <1>6, <1>1 DEF Quiet, LoadNotice
<1>7. NoCommit(q, 0) /\ AtPoint(k, w) => AtPoint(k2, v) BY DEF AtPoint, Unmoved, Alike
<1>8. (NoCommit(q, 0) => NoCommit(q2, 0)) /\ (NoUndo(q, 0) => NoUndo(q2, 0)) BY NoCommitEased
<1>9. Barred(k2, m, road2, a2, v, q2)
  <2> SUFFICES ASSUME k.status \in {"starting", "playing"}
               PROVE  /\ \A i, j \in DOMAIN road2 :
                           road2[i].type = "Prepare" /\ road2[i].epoch = k.epoch => ~(i < j)
                      /\ \A i \in DOMAIN q2 : q2[i].type = "bind" /\ q2[i].epoch = k.epoch =>
                           Quiet(k2.inbox[m], road2, a2) /\ NoCommit(q2, i)
                      /\ m \in k.acks => Quiet(k2.inbox[m], road2, a2) /\ NoCommit(q2, 0) /\ AtPoint(k2, v)
    BY DEF Barred, Alike
  <2>1. /\ \A i, j \in DOMAIN road :
             road[i].type = "Prepare" /\ road[i].epoch = k.epoch => ~(i < j)
        /\ \A i \in DOMAIN q : q[i].type = "bind" /\ q[i].epoch = k.epoch =>
             Quiet(k.inbox[m], road, a) /\ NoCommit(q, i)
        /\ m \in k.acks => Quiet(k.inbox[m], road, a) /\ NoCommit(q, 0) /\ AtPoint(k, w)
    BY DEF InOrder, Barred
  <2>2. \A i, j \in DOMAIN road2 : road2[i].type = "Prepare" /\ road2[i].epoch = k.epoch => ~(i < j)
    BY <1>1, <1>2, <2>1
  <2>3. ASSUME NEW i \in DOMAIN q2, q2[i].type = "bind", q2[i].epoch = k.epoch
        PROVE  Quiet(k2.inbox[m], road2, a2) /\ NoCommit(q2, i)
    <3>1. PICK j \in DOMAIN q : /\ q2[i].type = q[j].type /\ q2[i].epoch = q[j].epoch
                                /\ NoCommit(q, j) => NoCommit(q2, i)
      BY <2>3, EasedAt
    <3> QED BY <3>1, <2>1, <2>3, <1>6
  <2> QED BY <2>1, <2>2, <2>3, <1>6, <1>7, <1>8
<1>10. Freezes(k2, m, road2, q2)
  <2> SUFFICES ASSUME k.load # Nil, k.load.phase = "freezing", m \notin k.load.boundaries
               PROVE  /\ \A i, j \in DOMAIN road2 :
                           road2[i].type = "Hold" /\ road2[i].id = k.load.id => ~(i < j)
                      /\ \A i \in DOMAIN q2 : q2[i].type = "hash" /\ q2[i].use = "chain" /\ q2[i].id = k.load.id =>
                           road2 = <<>> /\ NoCommit(q2, i) /\ NoUndo(q2, i)
    BY DEF Freezes, Alike
  <2>1. /\ \A i, j \in DOMAIN road :
             road[i].type = "Hold" /\ road[i].id = k.load.id => ~(i < j)
        /\ \A i \in DOMAIN q : q[i].type = "hash" /\ q[i].use = "chain" /\ q[i].id = k.load.id =>
             road = <<>> /\ NoCommit(q, i) /\ NoUndo(q, i)
    BY DEF InOrder, Freezes
  <2>3. ASSUME NEW i \in DOMAIN q2, q2[i].type = "hash", q2[i].use = "chain", q2[i].id = k.load.id
        PROVE  road2 = <<>> /\ NoCommit(q2, i) /\ NoUndo(q2, i)
    <3>1. PICK j \in DOMAIN q : /\ q2[i].type = q[j].type /\ q2[i].id = q[j].id
                                /\ q2[i].use \in {q[j].use, "none"}
                                /\ NoCommit(q, j) => NoCommit(q2, i)
                                /\ NoUndo(q, j) => NoUndo(q2, i)
      BY <2>3, EasedAt
    <3>2. q[j].use = "chain" BY <2>3, <3>1
    <3>3. road = <<>> /\ NoCommit(q, j) /\ NoUndo(q, j) BY <3>1, <3>2, <2>1, <2>3
    <3>4. road2 = <<>> BY <3>3, ThinsToNothing
    <3> QED BY <3>1, <3>3, <3>4
  <2> QED BY <1>1, <1>2, <2>1, <2>3
<1>11. Undoes(k2, m, road2, v, q2)
  <2> SUFFICES ASSUME k.load # Nil, m \in k.load.boundaries
               PROVE  /\ k.load.phase \in {"freezing", "staging"} => Lacks(road2, "Commit") /\ NoCommit(q2, 0)
                      /\ k.load.phase # "rolling_back" => Lacks(road2, "Rollback") /\ NoUndo(q2, 0)
                      /\ k.load.phase = "rolling_back" =>
                           /\ \A i, j \in DOMAIN road2 : road2[i].type = "Rollback" /\ i < j => road2[j].type # "Commit"
                           /\ \A i \in DOMAIN q2 : q2[i].type = "rollback" /\ q2[i].use = "chain" =>
                                NoCommit(q2, i) /\ Lacks(road2, "Commit")
                           /\ m \in k.load.rolledBack => NoCommit(q2, 0) /\ Lacks(road2, "Commit") /\ AtPoint(k2, v)
    BY DEF Undoes, Alike
  <2>1. /\ k.load.phase \in {"freezing", "staging"} => Lacks(road, "Commit") /\ NoCommit(q, 0)
        /\ k.load.phase # "rolling_back" => Lacks(road, "Rollback") /\ NoUndo(q, 0)
        /\ k.load.phase = "rolling_back" =>
             /\ \A i, j \in DOMAIN road : road[i].type = "Rollback" /\ i < j => road[j].type # "Commit"
             /\ \A i \in DOMAIN q : q[i].type = "rollback" /\ q[i].use = "chain" =>
                  NoCommit(q, i) /\ Lacks(road, "Commit")
             /\ m \in k.load.rolledBack => NoCommit(q, 0) /\ Lacks(road, "Commit") /\ AtPoint(k, w)
    BY DEF InOrder, Undoes
  <2>2. ASSUME k.load.phase = "rolling_back", NEW i \in DOMAIN q2, q2[i].type = "rollback", q2[i].use = "chain"
        PROVE  NoCommit(q2, i) /\ Lacks(road2, "Commit")
    <3>1. PICK j \in DOMAIN q : /\ q2[i].type = q[j].type
                                /\ q2[i].use \in {q[j].use, "none"}
                                /\ NoCommit(q, j) => NoCommit(q2, i)
      BY <2>2, EasedAt
    <3>2. q[j].use = "chain" BY <2>2, <3>1
    <3> QED BY <3>1, <3>2, <2>1, <2>2, <1>5
  <2>3. k.load.phase = "rolling_back" =>
          \A i, j \in DOMAIN road2 : road2[i].type = "Rollback" /\ i < j => road2[j].type # "Commit"
    BY <1>1, <1>2, <2>1
  <2> QED BY <2>1, <2>2, <2>3, <1>5, <1>7, <1>8
<1> QED BY <1>3, <1>4, <1>9, <1>10, <1>11 DEF InOrder
-----------------------------------------------------------------------------
(* One member's part of the world.                                         *)

\* What a member reads, asks and keeps is judged by the load and the barrier alone.
LEMMA Elsewhere ==
  ASSUME NEW k, NEW k2, NEW n, NEW x, NEW c, NEW w, NEW q,
         Fits(k, n, x, c, w, q), Alike(k, k2), k2.inbox[x] = k.inbox[x]
  PROVE  Fits(k2, n, x, c, w, q)
<1> DEFINE road == Road(k, x, c)
<1>1. Road(k2, x, c) = road /\ k2.inbox[x] = k.inbox[x] BY DEF Road
<1>2. /\ k2.load = k.load /\ k2.point = k.point /\ k2.status = k.status
      /\ k2.acks = k.acks /\ k2.epoch = k.epoch
  BY DEF Alike
<1>3. /\ Typed(c, w, q) /\ Numbered(n, k.epoch, road, c, w, q)
      /\ Copied(w) /\ Awaits(c, w, q) /\ Undoable(k, w)
      /\ HoldFirst(k, x, road, c.attempt) /\ NotOver(k, road, q) /\ Barred(k, x, road, c.attempt, w, q)
      /\ Freezes(k, x, road, q) /\ Undoes(k, x, road, w, q)
  BY DEF Fits, InOrder
<1> HIDE DEF road
<1>4. Undoable(k2, w) BY <1>2, <1>3 DEF Undoable
<1>5. HoldFirst(k2, x, road, c.attempt) BY <1>2, <1>3 DEF HoldFirst
<1>6. NotOver(k2, road, q) BY <1>2, <1>3 DEF NotOver
<1>7. AtPoint(k, w) <=> AtPoint(k2, w) BY <1>2 DEF AtPoint
<1>8. Barred(k2, x, road, c.attempt, w, q) BY <1>1, <1>2, <1>3, <1>7 DEF Barred
<1>9. Freezes(k2, x, road, q) BY <1>2, <1>3 DEF Freezes
<1>10. Undoes(k2, x, road, w, q) BY <1>2, <1>3, <1>7 DEF Undoes
<1> QED BY <1>1, <1>2, <1>3, <1>4, <1>5, <1>6, <1>8, <1>9, <1>10 DEF Fits, InOrder

\* One member moves, and the others stay as they were.
LEMMA Alone ==
  ASSUME NEW k \in Coordinator, NEW k2 \in Coordinator, NEW n, NEW cs, NEW ws, NEW qs,
         World(k, n, cs, ws, qs), NEW m \in Member, Alike(k, k2),
         \A x \in Member \ {m} : k2.inbox[x] = k.inbox[x],
         NEW c, NEW w, NEW q, Fits(k2, n, m, c, w, q)
  PROVE  World(k2, n, [cs EXCEPT ![m] = c], [ws EXCEPT ![m] = w], [qs EXCEPT ![m] = q])
<1>1. c \in Client /\ w \in Machine /\ q \in Seq(Request) BY DEF Fits, Typed
<1>2. /\ cs \in [Member -> Client] /\ ws \in [Member -> Machine] /\ qs \in [Member -> Seq(Request)]
      /\ \A x \in Member : Fits(k, n, x, cs[x], ws[x], qs[x])
  BY DEF World
<1>4. Phased(k2, n) BY DEF World, Phased, Alike
<1>5. ASSUME NEW x \in Member
      PROVE  Fits(k2, n, x, [cs EXCEPT ![m] = c][x], [ws EXCEPT ![m] = w][x], [qs EXCEPT ![m] = q][x])
  BY <1>2, Elsewhere
<1> QED BY <1>1, <1>2, <1>4, <1>5 DEF World

\* The roads of a member, as sequences of notices.
LEMMA OwnRoad ==
  ASSUME NEW k \in Coordinator, NEW m \in Member, NEW c \in Client
  PROVE  /\ k.inbox[m] \in Seq(Notice) /\ c.chain \in Seq(Notice) /\ Road(k, m, c) \in Seq(Notice)
BY Roads DEF Coordinator, Client, Road

\* What is left of a road is numbered as it was.
LEMMA ThinRoad ==
  ASSUME NEW n, NEW e, NEW road \in Seq(Notice), NEW road2 \in Seq(Notice), Thins(road2, road),
         \A i \in DOMAIN road : NoticeOK(n, e, road[i])
  PROVE  \A i \in DOMAIN road2 : NoticeOK(n, e, road2[i])
<1>1. PICK p \in Nat : \A i \in DOMAIN road2 :
        Place(i, p) \in DOMAIN road /\ road2[i] = road[Place(i, p)]
  BY DEF Thins, Place
<1> QED BY <1>1

\* What is left of the requests is numbered as it was.
LEMMA EasedOK ==
  ASSUME NEW n, NEW e, NEW q \in Seq(Request), \A i \in DOMAIN q : RequestOK(n, e, q[i])
  PROVE  /\ q # <<>> => RequestOK(n, e, Head(q)) /\ \A i \in DOMAIN Tail(q) : RequestOK(n, e, Tail(q)[i])
         /\ \A left \in Seq(Request) : Loosened(left, q) => \A i \in DOMAIN left : RequestOK(n, e, left[i])
         /\ \A x \in Request : RequestOK(n, e, x) =>
              \A i \in DOMAIN Append(q, x) : RequestOK(n, e, Append(q, x)[i])
<1>1. ASSUME q # <<>>
      PROVE  RequestOK(n, e, Head(q)) /\ \A i \in DOMAIN Tail(q) : RequestOK(n, e, Tail(q)[i])
  BY <1>1, Tails, Rows
<1>2. ASSUME NEW left \in Seq(Request), Loosened(left, q), NEW i \in DOMAIN left
      PROVE  RequestOK(n, e, left[i])
  BY <1>2 DEF Loosened, RequestOK
<1>3. ASSUME NEW x \in Request, RequestOK(n, e, x), NEW i \in DOMAIN Append(q, x)
      PROVE  RequestOK(n, e, Append(q, x)[i])
  BY <1>3, Appends, Rows
<1> QED BY <1>1, <1>2, <1>3

\* clear keeps the numbers.
LEMMA ClearedOK ==
  ASSUME NEW n \in Nat, NEW c \in Client, ClientOK(n, c)
  PROVE  /\ Cleared(c) \in Client /\ ClientOK(n, Cleared(c))
         /\ Cleared(c).attempt = 0 /\ Cleared(c).chain = c.chain /\ Cleared(c).handling = c.handling
<1>1. /\ Cleared(c) \in Client /\ Cleared(c).attempt = 0 /\ Cleared(c).chain = c.chain
      /\ Cleared(c).handling = c.handling /\ Cleared(c).incoming = "none"
  BY DEF Cleared, Client
<1>2. ClientOK(n, Cleared(c)) BY <1>1 DEF ClientOK
<1> QED BY <1>1, <1>2

\* clear adds no number.
LEMMA ClearingOK ==
  ASSUME NEW n \in Nat, NEW e, NEW c \in Client, ClientOK(n, c), NEW q \in Seq(Request),
         \A i \in DOMAIN q : RequestOK(n, e, q[i])
  PROVE  \A i \in DOMAIN Clearing(c, q) : RequestOK(n, e, Clearing(c, q)[i])
<1> DEFINE left == Forget(q, {"import", "bind"})
           x == Job("rollback", c.attempt, "none")
<1>1. left \in Seq(Request) /\ \A i \in DOMAIN left : RequestOK(n, e, left[i]) BY Forgets, EasedOK
<1>2. c.attempt \in Nat /\ x \in Request /\ x.type = "rollback" /\ x.id = c.attempt /\ x.use = "none"
  BY Jobs DEF Client
<1>3. c.attempt # 0 => RequestOK(n, e, x) BY <1>2 DEF RequestOK, ClientOK
<1> HIDE DEF left, x
<1>5. Clearing(c, q) = IF c.attempt = 0 THEN left ELSE Append(left, x) BY DEF Clearing, left, x
<1> QED BY <1>1, <1>2, <1>3, EasedOK, <1>5

-----------------------------------------------------------------------------
(* Who waits for an answer.                                                *)

Waits(q) == {i \in DOMAIN q : q[i].use = "chain"}
Prepares(w) == w.preparing # Nil /\ w.preparing.use = "chain"

\* The chain waits for what it waited for.
LEMMA AwaitsSame ==
  ASSUME NEW c \in Client, NEW d \in Client, NEW w, NEW v, NEW q, NEW q2, Awaits(c, w, q),
         d.handling = c.handling, Prepares(v) <=> Prepares(w), Waits(q2) = Waits(q)
  PROVE  Awaits(d, v, q2)
  BY DEF Awaits, Waits, Prepares

\* A chain that is not being handled waits for nothing.
LEMMA AwaitsNothing ==
  ASSUME NEW d \in Client, NEW v, NEW q2, ~d.handling, ~Prepares(v), Waits(q2) = {}
  PROVE  Awaits(d, v, q2)
  BY DEF Awaits, Waits, Prepares

\* An added request is waited for when it is of the chain.
LEMMA WaitsAppend ==
  ASSUME NEW q \in Seq(Request), NEW x \in Request
  PROVE  /\ x.use # "chain" => Waits(Append(q, x)) = Waits(q)
         /\ x.use = "chain" => Waits(Append(q, x)) = Waits(q) \cup {Len(q) + 1}
BY Appends, Rows DEF Waits

\* What is waited for after the first request is taken.
LEMMA WaitsTail ==
  ASSUME NEW q \in Seq(Request), q # <<>>
  PROVE  \A i \in Nat : i \in Waits(Tail(q)) <=> i # 0 /\ i + 1 \in Waits(q)
BY Tails, Rows DEF Waits

\* A request that is not waited for by the chain is taken.
LEMMA AwaitsTail ==
  ASSUME NEW c \in Client, NEW d \in Client, NEW w, NEW v, NEW q \in Seq(Request), q # <<>>,
         Awaits(c, w, q), Head(q).use # "chain",
         d.handling = c.handling, Prepares(v) <=> Prepares(w)
  PROVE  Awaits(d, v, Tail(q))
<1>1. 1 \notin Waits(q) /\ Waits(q) \subseteq Nat \ {0} /\ Waits(Tail(q)) \subseteq Nat \ {0}
  BY Tails, Rows DEF Waits
<1>2. \A i \in Nat : i \in Waits(Tail(q)) <=> i # 0 /\ i + 1 \in Waits(q) BY WaitsTail
<1>3. Waits(q) = {} <=> Waits(Tail(q)) = {}
  <2>1. ASSUME NEW i \in Waits(q) PROVE i - 1 \in Waits(Tail(q)) BY <1>1, <1>2
  <2> QED BY <2>1, <1>1, <1>2
<1>4. \A i, j \in Waits(Tail(q)) : i = j
  <2> SUFFICES ASSUME NEW i \in Waits(Tail(q)), NEW j \in Waits(Tail(q)) PROVE i = j OBVIOUS
  <2>1. i + 1 \in Waits(q) /\ j + 1 \in Waits(q) BY <1>1, <1>2
  <2>2. i + 1 = j + 1 BY <2>1 DEF Awaits, Waits
  <2> QED BY <2>2, <1>1
<1> QED BY <1>3, <1>4 DEF Awaits, Waits, Prepares

\* The chain's request is taken: nothing else is waited for.
LEMMA AwaitsTaken ==
  ASSUME NEW c \in Client, NEW w, NEW q \in Seq(Request), q # <<>>,
         Awaits(c, w, q), Head(q).use = "chain"
  PROVE  Waits(Tail(q)) = {} /\ ~Prepares(w) /\ c.handling
<1>1. 1 \in Waits(q) /\ Waits(Tail(q)) \subseteq Nat \ {0} BY Tails, Rows DEF Waits
<1>2. ASSUME NEW i \in Waits(Tail(q)) PROVE FALSE BY <1>1, WaitsTail DEF Awaits, Waits
<1>3. ~Prepares(w) BY <1>1 DEF Awaits, Waits, Prepares
<1>4. c.handling BY <1>1 DEF Awaits, Waits, Prepares
<1> QED BY <1>2, <1>3, <1>4

\* Forgetting the barrier and the import leaves the request of the chain.
LEMMA WaitsForgotten ==
  ASSUME NEW c \in Client, NEW q \in Seq(Request)
  PROVE  /\ \A uses \in SUBSET {"import", "bind"} : Waits(Forget(q, uses)) = Waits(q)
         /\ Waits(Clearing(c, q)) = Waits(q)
<1>1. ASSUME NEW uses \in SUBSET {"import", "bind"} PROVE Waits(Forget(q, uses)) = Waits(q)
  BY Forgets DEF Waits, Loosened
<1>2. Waits(Clearing(c, q)) = Waits(q)
  <2>1. c.attempt \in Nat BY DEF Client
  <2>2. Job("rollback", c.attempt, "none").use = "none" BY <2>1, Jobs
  <2> QED BY <2>2, Clears DEF Waits
<1> QED BY <1>1, <1>2

-----------------------------------------------------------------------------
(* The machine.                                                            *)

Sound(k, n, w) == w \in Machine /\ MachineOK(n, w) /\ Copied(w) /\ Undoable(k, w)

\* A candidate goes with the copy made for it: the state stays.
LEMMA ClearsCandidate ==
  ASSUME NEW k, NEW n \in Nat, NEW w, Sound(k, n, w)
  PROVE  LET v == ClearCandidate(w)
         IN /\ Sound(k, n, v) /\ Unmoved(w, v) /\ v.preparing = w.preparing /\ v.native = w.native
            /\ v.candidate = 0 /\ v.rollback \in {Nil, w.rollback}
<1> DEFINE v == ClearCandidate(w)
<1>1. w \in Machine /\ MachineOK(n, w) /\ Copied(w) /\ Undoable(k, w) BY DEF Sound
<1>2. /\ v.preparing = w.preparing /\ v.native = w.native /\ v.candidate = 0
      /\ v.rollback = IF w.rollback # Nil /\ ~w.rollback.committed /\ w.rollback.op = w.candidate
                      THEN Nil ELSE w.rollback
      /\ v \in Machine
  BY <1>1 DEF ClearCandidate, Machine
<1> HIDE DEF v
<1>3. MachineOK(n, v) BY <1>1, <1>2 DEF MachineOK
<1>4. Copied(v) BY <1>1, <1>2 DEF Copied
<1>5. Undoable(k, v) BY <1>1, <1>2 DEF Undoable
<1>6. Unmoved(w, v) BY <1>2 DEF Unmoved, Uncommitted
<1> QED BY <1>2, <1>3, <1>4, <1>5, <1>6 DEF Sound, v

\* The machine begins to prepare a state, when no other load is under way on it.
Preparing(w, job) == [ClearCandidate(w) EXCEPT !.candidate = job.id, !.preparing = job]

\* What is being prepared replaces the candidate there was.
LEMMA StartsToPrepare ==
  ASSUME NEW k, NEW n \in Nat, NEW w, Sound(k, n, w), NEW job \in Request, job.type = "prepare",
         RequestOK(n, k.epoch, job), ~Foreign(w, job.id), ~(w.rollback # Nil /\ w.rollback.committed)
  PROVE  /\ Sound(k, n, Preparing(w, job)) /\ Unmoved(w, Preparing(w, job))
         /\ Preparing(w, job).preparing = job
<1> DEFINE u == ClearCandidate(w)
           v == [u EXCEPT !.candidate = job.id, !.preparing = job]
<1>1. /\ Sound(k, n, u) /\ Unmoved(w, u) /\ u.native = w.native /\ u.rollback \in {Nil, w.rollback}
  BY ClearsCandidate
<1> HIDE DEF u
<1>2. u \in Machine /\ MachineOK(n, u) /\ Copied(u) /\ Undoable(k, u) BY <1>1 DEF Sound
<1>3. job.id \in Nat /\ job.id <= n /\ job.id # 0 /\ job.use # "bind" /\ job # Nil
  BY NilAssumption DEF Request, RequestOK
<1>4. /\ v.preparing = job /\ v.native = u.native /\ v.candidate = job.id /\ v.rollback = u.rollback
      /\ v \in Machine
  BY <1>2, <1>3 DEF Machine
<1> HIDE DEF v
<1>5. MachineOK(n, v) BY <1>2, <1>3, <1>4 DEF MachineOK
<1>6. Copied(v) BY <1>1, <1>3, <1>4 DEF Copied, Foreign
<1>7. Undoable(k, v) BY <1>2, <1>4 DEF Undoable
<1>8. Unmoved(w, v) BY <1>1, <1>4 DEF Unmoved, Uncommitted
<1>9. v = Preparing(w, job) BY DEF Preparing, u, v
<1> QED BY <1>4, <1>5, <1>6, <1>7, <1>8, <1>9 DEF Sound

\* The preparation is over: the candidate has a copy of the present state, or there is none.
LEMMA EndsPreparing ==
  ASSUME NEW k, NEW n \in Nat, NEW w, Sound(k, n, w), w.preparing # Nil
  PROVE  LET u == [w EXCEPT !.preparing = Nil]
             copy == [op |-> w.preparing.id, bytes |-> u.native, committed |-> FALSE]
             v == [u EXCEPT !.rollback = IF @ = Nil THEN copy ELSE @]
         IN /\ u.candidate = w.preparing.id => Sound(k, n, v) /\ Unmoved(w, v) /\ ~Prepares(v)
            /\ u.candidate # w.preparing.id => Sound(k, n, u)
            /\ Sound(k, n, ClearCandidate(u))
            /\ Unmoved(w, u) /\ Unmoved(w, ClearCandidate(u))
            /\ ~Prepares(u) /\ ~Prepares(ClearCandidate(u))
<1> DEFINE id == w.preparing.id
           u == [w EXCEPT !.preparing = Nil]
           copy == [op |-> id, bytes |-> u.native, committed |-> FALSE]
           v == [u EXCEPT !.rollback = IF @ = Nil THEN copy ELSE @]
           x == ClearCandidate(u)
<1>1. w \in Machine /\ MachineOK(n, w) /\ Copied(w) /\ Undoable(k, w) BY DEF Sound
<1>2. /\ u.preparing = Nil /\ u.native = w.native /\ u.candidate = w.candidate /\ u.rollback = w.rollback
      /\ u \in Machine
  BY <1>1 DEF Machine
<1>3. id \in Nat /\ id <= n /\ id # 0 BY <1>1 DEF MachineOK, Machine, Request
<1> HIDE DEF u
<1>4. /\ copy \in Copy /\ copy # Nil /\ copy.op = id /\ copy.bytes = w.native /\ ~copy.committed
  <2>1. w.native \in Nat /\ FALSE \in BOOLEAN BY <1>1 DEF Machine
  <2>2. copy \in Copy /\ copy.op = id /\ copy.bytes = w.native /\ ~copy.committed
    BY <1>2, <1>3, <2>1 DEF Copy
  <2> QED BY <2>2, NilAssumption
<1> HIDE DEF copy, id
<1>5. /\ v.preparing = Nil /\ v.native = w.native /\ v.candidate = w.candidate
      /\ v.rollback = IF w.rollback = Nil THEN copy ELSE w.rollback
  BY <1>2 DEF Machine
<1>5a. v \in Machine BY <1>2, <1>4 DEF Machine
<1> HIDE DEF v
<1>6. ASSUME u.candidate = id PROVE Sound(k, n, v)
  BY <1>1, <1>3, <1>4, <1>5, <1>2, <1>6, <1>5a DEF MachineOK, Machine, Copied, Undoable, Sound
<1>7. ASSUME u.candidate # id PROVE Sound(k, n, u)
  BY <1>1, <1>2, <1>7 DEF Copied, id, MachineOK, Undoable, Sound
<1>9. Sound(k, n, x) /\ Unmoved(w, x) /\ ~Prepares(x)
  <2>1. /\ x.preparing = Nil /\ x.native = w.native /\ x.candidate = 0
        /\ x.rollback = IF w.rollback # Nil /\ ~w.rollback.committed /\ w.rollback.op = w.candidate
                        THEN Nil ELSE w.rollback
        /\ x \in Machine
    BY <1>2 DEF ClearCandidate, Machine
  <2> HIDE DEF x
  <2>2. MachineOK(n, x) /\ Copied(x) /\ Undoable(k, x) BY <1>1, <2>1 DEF MachineOK, Copied, Undoable
  <2> QED BY <2>1, <2>2 DEF Sound, Unmoved, Uncommitted, Prepares
<1> QED BY <1>6, <1>7, <1>2, <1>4, <1>5, <1>9 DEF u, v, x, copy, id, Unmoved, Uncommitted, Prepares

\* A candidate is committed with its copy kept, or lost.
LEMMA Commits ==
  ASSUME NEW k, NEW n \in Nat, NEW w, Sound(k, n, w), w.preparing = Nil, NEW id \in Nat \ {0},
         id <= n, w.candidate = id
  PROVE  /\ Sound(k, n, Commit(w, id)) /\ ~Prepares(Commit(w, id))
         /\ Sound(k, n, [w EXCEPT !.candidate = 0]) /\ ~Prepares([w EXCEPT !.candidate = 0])
<1> DEFINE v == Commit(w, id)
           u == [w EXCEPT !.candidate = 0]
<1>1. w \in Machine /\ MachineOK(n, w) /\ Copied(w) /\ Undoable(k, w) BY DEF Sound
<1>2. w.rollback # Nil /\ w.rollback.op = id /\ ~w.rollback.committed BY <1>1 DEF Copied
<1>3. /\ u.preparing = Nil /\ u.native = w.native /\ u.candidate = 0 /\ u.rollback = w.rollback
      /\ u \in Machine
  BY <1>1 DEF Machine
<1>4. MachineOK(n, u) /\ Copied(u) /\ Undoable(k, u) BY <1>1, <1>3 DEF MachineOK, Copied, Undoable
<1> HIDE DEF u
<1> DEFINE kept == [w.rollback EXCEPT !.committed = TRUE]
<1>5. w.rollback \in Copy BY <1>1, <1>2 DEF Machine
<1>6. kept \in Copy /\ kept.op = id /\ kept.bytes = w.rollback.bytes /\ kept.committed /\ kept # Nil
  BY <1>2, <1>5, NilAssumption DEF Copy
<1>7. v = [w EXCEPT !.candidate = 0, !.native = id, !.rollback = kept] BY DEF Commit
<1> HIDE DEF kept, v
<1>8. /\ v.preparing = Nil /\ v.native = id /\ v.candidate = 0 /\ v.rollback = kept /\ v \in Machine
  BY <1>1, <1>6, <1>7 DEF Machine
<1>9. MachineOK(n, v) /\ Copied(v) BY <1>1, <1>2, <1>6, <1>8 DEF MachineOK, Copied
<1>10. Undoable(k, v) BY <1>1, <1>2, <1>6, <1>8 DEF Undoable
<1> QED BY <1>3, <1>4, <1>8, <1>9, <1>10 DEF Sound, Prepares, u, v

\* A load is undone: what it replaced is back, and no copy is left.
LEMMA RollsBack ==
  ASSUME NEW k, NEW n \in Nat, NEW w, Sound(k, n, w), NEW id, ~Foreign(w, id)
  PROVE  LET v == Rollback(w, id)
         IN Sound(k, n, v) /\ Unmoved(w, v) /\ v.preparing = w.preparing /\ v.rollback = Nil
<1> DEFINE own == IF w.candidate = id THEN ClearCandidate(w) ELSE w
           v == Rollback(w, id)
<1>2. /\ Sound(k, n, own) /\ Unmoved(w, own) /\ own.preparing = w.preparing /\ own.native = w.native
      /\ own.candidate = (IF w.candidate = id THEN 0 ELSE w.candidate) /\ own.rollback \in {Nil, w.rollback}
  BY ClearsCandidate DEF Unmoved
<1>3. v = IF own.rollback = Nil THEN own
          ELSE [own EXCEPT !.native = IF own.rollback.committed THEN own.rollback.bytes ELSE @,
                           !.rollback = Nil]
  BY DEF Rollback
<1> HIDE DEF own, v
<1>4. ASSUME own.rollback = Nil
      PROVE  Sound(k, n, v) /\ Unmoved(w, v) /\ v.preparing = w.preparing /\ v.rollback = Nil
  BY <1>2, <1>3, <1>4
<1>5. ASSUME own.rollback # Nil
      PROVE  Sound(k, n, v) /\ Unmoved(w, v) /\ v.preparing = w.preparing /\ v.rollback = Nil
  <2>1. own \in Machine /\ MachineOK(n, own) /\ Copied(own) /\ Undoable(k, own) /\ own.rollback \in Copy
    BY <1>2, <1>5 DEF Sound, Machine
  <2>2. /\ v.native = IF own.rollback.committed THEN own.rollback.bytes ELSE own.native
        /\ v.rollback = Nil /\ v.candidate = own.candidate /\ v.preparing = own.preparing
        /\ v \in Machine
    BY <1>3, <1>5, <2>1 DEF Machine, Copy
  <2>3. MachineOK(n, v) BY <2>1, <2>2, <1>5 DEF MachineOK
  <2>4. own.candidate = 0 BY <1>2, <1>5 DEF Copied, Foreign, Sound
  <2>5. Copied(v) BY <2>1, <2>2, <2>4 DEF Copied
  <2>6. Undoable(k, v) BY <2>1, <2>2, <1>5 DEF Undoable
  <2>7. Unmoved(w, v) BY <1>2, <1>5, <2>2 DEF Unmoved, Uncommitted
  <2> QED BY <1>2, <2>2, <2>3, <2>5, <2>6, <2>7 DEF Sound
<1> QED BY <1>4, <1>5 DEF v

\* A load is over: its copy is given up.
LEMMA Finishes ==
  ASSUME NEW k, NEW n \in Nat, NEW w, Sound(k, n, w), NEW id, w.rollback # Nil, ~Foreign(w, id),
         w.rollback.committed, k.load # Nil => id # k.load.id
  PROVE  LET v == [w EXCEPT !.rollback = Nil]
         IN Sound(k, n, v) /\ Unmoved(w, v) /\ v.preparing = w.preparing
<1> DEFINE v == [w EXCEPT !.rollback = Nil]
<1>1. w \in Machine /\ MachineOK(n, w) /\ Copied(w) /\ Undoable(k, w) BY DEF Sound
<1>2. /\ v.native = w.native /\ v.rollback = Nil /\ v.candidate = w.candidate /\ v.preparing = w.preparing
      /\ v \in Machine
  BY <1>1 DEF Machine
<1> HIDE DEF v
<1>3. MachineOK(n, v) /\ Copied(v) BY <1>1, <1>2 DEF MachineOK, Copied
<1>4. Undoable(k, v) BY <1>1, <1>2 DEF Undoable, Foreign
<1>5. Unmoved(w, v) BY <1>2 DEF Unmoved, Uncommitted
<1> QED BY <1>2, <1>3, <1>4, <1>5 DEF Sound, v

-----------------------------------------------------------------------------
(* What the coordinator sends.                                             *)

\* A member may be told this next, whatever it still has to read.
MayHear(k, n, x, road, attempt, q, e) ==
  /\ e \in Notice /\ NoticeOK(n, k.epoch, e)
  /\ e.type = "Hold" => /\ attempt # e.id
                        /\ \A i \in DOMAIN road : road[i].type \in Marks => road[i].id # e.id
                        /\ k.load # Nil /\ k.load.id = e.id => x \notin k.load.boundaries
  /\ e.type \in Marks => \A i \in DOMAIN road : road[i].type = "Hold" => road[i].id # e.id
  /\ k.load # Nil /\ e.type = "Finish" => e.id # k.load.id
  /\ k.status \in {"starting", "playing"} =>
       /\ \A i \in DOMAIN road : road[i].type = "Prepare" => road[i].epoch # k.epoch
       /\ \A i \in DOMAIN q : q[i].type = "bind" => q[i].epoch # k.epoch
       /\ x \notin k.acks
  /\ k.load # Nil /\ k.load.phase = "freezing" /\ x \notin k.load.boundaries =>
       /\ \A i \in DOMAIN road : road[i].type = "Hold" => road[i].id # k.load.id
       /\ \A i \in DOMAIN q : q[i].type = "hash" => q[i].id # k.load.id
  /\ k.load # Nil /\ x \in k.load.boundaries =>
       /\ k.load.phase \in {"freezing", "staging", "rolling_back"} => e.type # "Commit"
       /\ k.load.phase # "rolling_back" => e.type # "Rollback"

\* A member that is told what it may hear still fits.
LEMMA Told ==
  ASSUME NEW k \in Coordinator, NEW k2 \in Coordinator, NEW n, NEW x \in Member, NEW c, NEW w, NEW q, NEW e,
         Fits(k, n, x, c, w, q), Alike(k, k2), k2.inbox[x] = Append(k.inbox[x], e),
         MayHear(k, n, x, Road(k, x, c), c.attempt, q, e)
  PROVE  Fits(k2, n, x, c, w, q)
<1> DEFINE road == Road(k, x, c)
           longer == Append(road, e)
<1>1. c \in Client /\ w \in Machine /\ q \in Seq(Request) /\ e \in Notice
  BY DEF Fits, Typed, MayHear
<1>2. k.inbox[x] \in Seq(Notice) /\ c.chain \in Seq(Notice) /\ road \in Seq(Notice) BY <1>1, OwnRoad
<1>3. Road(k2, x, c) = longer
  <2>1. c.chain \o Append(k.inbox[x], e) = Append(c.chain \o k.inbox[x], e)
    <3>1. \A s, t \in Seq(Notice) : \A y \in Notice : s \o Append(t, y) = Append(s \o t, y)
      BY RoadAppended
    <3> QED BY <1>1, <1>2, <3>1, Zenon
  <2> QED BY <2>1 DEF Road
<1>5. /\ k2.load = k.load /\ k2.point = k.point /\ k2.status = k.status
      /\ k2.acks = k.acks /\ k2.epoch = k.epoch
  BY DEF Alike
<1>6. /\ Typed(c, w, q) /\ Numbered(n, k.epoch, road, c, w, q)
      /\ Copied(w) /\ Awaits(c, w, q) /\ Undoable(k, w)
      /\ HoldFirst(k, x, road, c.attempt) /\ NotOver(k, road, q) /\ Barred(k, x, road, c.attempt, w, q)
      /\ Freezes(k, x, road, q) /\ Undoes(k, x, road, w, q)
  BY DEF Fits, InOrder
<1>7. MayHear(k, n, x, road, c.attempt, q, e) OBVIOUS
<1> DEFINE last == Len(road) + 1
<1>8. /\ last \in DOMAIN longer /\ last \notin DOMAIN road /\ longer[last] = e
      /\ \A i \in DOMAIN longer : i = last \/ (i \in DOMAIN road /\ longer[i] = road[i] /\ i < last)
      /\ \A i \in DOMAIN road : i \in DOMAIN longer
      /\ \A i \in DOMAIN longer : ~(last < i)
  BY <1>1, <1>2, Appends, Rows
<1> HIDE DEF road, longer, last
<1>9. Numbered(n, k2.epoch, longer, c, w, q) BY <1>5, <1>6, <1>7, <1>8 DEF Numbered, MayHear
<1>10. Undoable(k2, w) BY <1>5, <1>6 DEF Undoable
<1>11. HoldFirst(k2, x, longer, c.attempt)
  <2> SUFFICES ASSUME NEW i \in DOMAIN longer, longer[i].type = "Hold"
               PROVE  /\ c.attempt # longer[i].id
                      /\ \A j \in DOMAIN longer : j # i /\ longer[j].type \in Marks => longer[j].id # longer[i].id
                      /\ k.load # Nil /\ k.load.id = longer[i].id => x \notin k.load.boundaries
    BY <1>5 DEF HoldFirst
  <2>1. CASE i = last BY <2>1, <1>7, <1>8 DEF MayHear
  <2>2. CASE i # last BY <2>2, <1>6, <1>7, <1>8 DEF MayHear, HoldFirst
  <2> QED BY <2>1, <2>2
<1>12. NotOver(k2, longer, q) BY <1>5, <1>6, <1>7, <1>8 DEF NotOver, MayHear
<1>13. Barred(k2, x, longer, c.attempt, w, q)
  <2> SUFFICES ASSUME k.status \in {"starting", "playing"}
               PROVE  /\ \A i, j \in DOMAIN longer :
                           longer[i].type = "Prepare" /\ longer[i].epoch = k.epoch => ~(i < j)
                      /\ \A i \in DOMAIN q : ~(q[i].type = "bind" /\ q[i].epoch = k.epoch)
                      /\ x \notin k.acks
    BY <1>5 DEF Barred
  <2> QED BY <1>7, <1>8 DEF MayHear
<1>14. Freezes(k2, x, longer, q)
  <2> SUFFICES ASSUME k.load # Nil, k.load.phase = "freezing", x \notin k.load.boundaries
               PROVE  /\ \A i, j \in DOMAIN longer :
                           longer[i].type = "Hold" /\ longer[i].id = k.load.id => ~(i < j)
                      /\ \A i \in DOMAIN q : q[i].type = "hash" => q[i].id # k.load.id
    BY <1>5 DEF Freezes
  <2> QED BY <1>7, <1>8 DEF MayHear
<1>15. AtPoint(k, w) <=> AtPoint(k2, w) BY <1>5 DEF AtPoint
<1>16. Undoes(k2, x, longer, w, q)
  <2> SUFFICES ASSUME k.load # Nil, x \in k.load.boundaries
               PROVE  /\ k.load.phase \in {"freezing", "staging"} => Lacks(longer, "Commit") /\ NoCommit(q, 0)
                      /\ k.load.phase # "rolling_back" => Lacks(longer, "Rollback") /\ NoUndo(q, 0)
                      /\ k.load.phase = "rolling_back" =>
                           /\ \A i, j \in DOMAIN longer : longer[i].type = "Rollback" /\ i < j => longer[j].type # "Commit"
                           /\ \A i \in DOMAIN q : q[i].type = "rollback" /\ q[i].use = "chain" =>
                                NoCommit(q, i) /\ Lacks(longer, "Commit")
                           /\ x \in k.load.rolledBack => NoCommit(q, 0) /\ Lacks(longer, "Commit") /\ AtPoint(k, w)
    BY <1>5, <1>15 DEF Undoes
  <2>1. /\ k.load.phase \in {"freezing", "staging"} => Lacks(road, "Commit") /\ NoCommit(q, 0)
        /\ k.load.phase # "rolling_back" => Lacks(road, "Rollback") /\ NoUndo(q, 0)
        /\ k.load.phase = "rolling_back" =>
             /\ \A i, j \in DOMAIN road : road[i].type = "Rollback" /\ i < j => road[j].type # "Commit"
             /\ \A i \in DOMAIN q : q[i].type = "rollback" /\ q[i].use = "chain" =>
                  NoCommit(q, i) /\ Lacks(road, "Commit")
             /\ x \in k.load.rolledBack => NoCommit(q, 0) /\ Lacks(road, "Commit") /\ AtPoint(k, w)
    BY <1>6 DEF Undoes
  <2>3. e.type # "Rollback" /\ Lacks(road, "Rollback") => Lacks(longer, "Rollback")
    BY <1>8 DEF Lacks
  <2>4. /\ k.load.phase \in {"freezing", "staging", "rolling_back"} => e.type # "Commit"
        /\ k.load.phase # "rolling_back" => e.type # "Rollback"
    BY <1>7 DEF MayHear
  <2>5. k.load.phase = "rolling_back" =>
          \A i, j \in DOMAIN longer : longer[i].type = "Rollback" /\ i < j => longer[j].type # "Commit"
    BY <2>1, <2>4, <1>8
  <2> QED BY <2>1, <1>8, <2>3, <2>4, <2>5 DEF Lacks
<1> QED BY <1>3, <1>6, <1>9, <1>10, <1>11, <1>12, <1>13, <1>14, <1>16 DEF Fits, InOrder, longer

\* Nothing but the inboxes changes when something is sent.
LEMMA Sent ==
  ASSUME NEW k \in Coordinator, NEW members, NEW e \in Notice
  PROVE  LET k2 == SendTo(k, members, e)
         IN /\ k2 \in Coordinator /\ Alike(k, k2) /\ k2.connected = k.connected /\ k2.transport = k.transport
            /\ \A x \in Member : k2.inbox[x] = IF x \in members \cap k.connected
                                               THEN Append(k.inbox[x], e) ELSE k.inbox[x]
<1> DEFINE box == [m \in Member |-> IF m \in members \cap k.connected THEN Append(k.inbox[m], e) ELSE k.inbox[m]]
           k2 == [k EXCEPT !.inbox = box]
<1>1. SendTo(k, members, e) = k2 BY DEF SendTo, Coordinator
<1>2. k.inbox \in [Member -> Seq(Notice)] BY DEF Coordinator
<1>4. box \in [Member -> Seq(Notice)] BY <1>2, Appends
<1> HIDE DEF box
<1>5. k2 \in Coordinator BY <1>4 DEF Coordinator
<1>6. /\ k2.load = k.load /\ k2.point = k.point /\ k2.status = k.status /\ k2.acks = k.acks /\ k2.epoch = k.epoch
      /\ k2.connected = k.connected /\ k2.transport = k.transport /\ k2.inbox = box
  BY DEF Coordinator
<1> QED BY <1>1, <1>5, <1>6 DEF Alike, box

\* Everybody who is told may hear it.
LEMMA Notifies ==
  ASSUME NEW k, NEW n, NEW cs, NEW ws, NEW qs, World(k, n, cs, ws, qs), NEW members, NEW e \in Notice,
         \A x \in Member \cap members : MayHear(k, n, x, Road(k, x, cs[x]), cs[x].attempt, qs[x], e)
  PROVE  LET k2 == SendTo(k, members, e)
         IN World(k2, n, cs, ws, qs) /\ Alike(k, k2) /\ k2.connected = k.connected /\ k2.transport = k.transport
<1> DEFINE k2 == SendTo(k, members, e)
<1>1. /\ k \in Coordinator /\ Phased(k, n)
      /\ cs \in [Member -> Client] /\ ws \in [Member -> Machine] /\ qs \in [Member -> Seq(Request)]
      /\ \A m \in Member : Fits(k, n, m, cs[m], ws[m], qs[m])
  BY DEF World
<1>2. /\ k2 \in Coordinator /\ Alike(k, k2) /\ k2.connected = k.connected /\ k2.transport = k.transport
      /\ \A x \in Member : k2.inbox[x] = IF x \in members \cap k.connected
                                         THEN Append(k.inbox[x], e) ELSE k.inbox[x]
  BY <1>1, Sent
<1> HIDE DEF k2
<1>3. Phased(k2, n) BY <1>1, <1>2 DEF Phased, Alike
<1>4. ASSUME NEW x \in Member PROVE Fits(k2, n, x, cs[x], ws[x], qs[x])
  BY <1>1, <1>2, Told, Elsewhere
<1> QED BY <1>1, <1>2, <1>3, <1>4 DEF World, k2

-----------------------------------------------------------------------------
(* What the coordinator does.                                              *)

Off(k) == k.status \notin {"starting", "playing"}
\* A load that is over undone is undone wherever it counts.
Undone(k, k2, ws) ==
  k.load # Nil /\ k2.load = Nil /\ k2.status = "paused" =>
    \A x \in k.load.boundaries \cap (k.load.rolledBack \cup {Host}) : ws[x].native = k.point

\* The invariant, part by part.
LEMMA WorldIs ==
  ASSUME NEW k, NEW n, NEW cs, NEW ws, NEW qs, World(k, n, cs, ws, qs)
  PROVE  /\ k \in Coordinator /\ Phased(k, n)
         /\ cs \in [Member -> Client] /\ ws \in [Member -> Machine] /\ qs \in [Member -> Seq(Request)]
         /\ \A x \in Member :
              /\ Fits(k, n, x, cs[x], ws[x], qs[x])
              /\ Typed(cs[x], ws[x], qs[x])
              /\ Numbered(n, k.epoch, Road(k, x, cs[x]), cs[x], ws[x], qs[x])
              /\ Undoable(k, ws[x]) /\ Copied(ws[x]) /\ Awaits(cs[x], ws[x], qs[x])
              /\ InOrder(k, x, Road(k, x, cs[x]), cs[x].attempt, ws[x], qs[x])
              /\ HoldFirst(k, x, Road(k, x, cs[x]), cs[x].attempt)
              /\ NotOver(k, Road(k, x, cs[x]), qs[x])
              /\ Barred(k, x, Road(k, x, cs[x]), cs[x].attempt, ws[x], qs[x])
              /\ Freezes(k, x, Road(k, x, cs[x]), qs[x])
              /\ Undoes(k, x, Road(k, x, cs[x]), ws[x], qs[x])
  BY DEF World, Fits, InOrder

\* The same member under another coordinator, part by part.
LEMMA Judged ==
  ASSUME NEW k, NEW k2, NEW n, NEW n2, NEW x, NEW c, NEW w, NEW q,
         Fits(k, n, x, c, w, q), k2.inbox[x] = k.inbox[x],
         Numbered(n2, k2.epoch, Road(k, x, c), c, w, q), Undoable(k2, w),
         HoldFirst(k2, x, Road(k, x, c), c.attempt), NotOver(k2, Road(k, x, c), q),
         Barred(k2, x, Road(k, x, c), c.attempt, w, q), Freezes(k2, x, Road(k, x, c), q),
         Undoes(k2, x, Road(k, x, c), w, q)
  PROVE  Fits(k2, n2, x, c, w, q)
BY DEF Road, Fits, InOrder

\* Numbers of earlier loads and barriers stay in bounds.
LEMMA NumberedGrows ==
  ASSUME NEW n \in Nat, NEW n2 \in Nat, n <= n2, NEW e \in Nat, NEW e2 \in Nat, e <= e2,
         NEW road \in Seq(Notice), NEW c \in Client, NEW w \in Machine, NEW q \in Seq(Request),
         Numbered(n, e, road, c, w, q)
  PROVE  Numbered(n2, e2, road, c, w, q)
<1>1. \A i \in DOMAIN road : NoticeOK(n2, e2, road[i])
  <2> SUFFICES ASSUME NEW i \in DOMAIN road PROVE NoticeOK(n2, e2, road[i]) OBVIOUS
  <2>1. road[i] \in Notice /\ NoticeOK(n, e, road[i]) BY Rows DEF Numbered
  <2> QED BY <2>1 DEF NoticeOK, Notice
<1>2. \A i \in DOMAIN q : RequestOK(n2, e2, q[i])
  <2> SUFFICES ASSUME NEW i \in DOMAIN q PROVE RequestOK(n2, e2, q[i]) OBVIOUS
  <2>1. q[i] \in Request /\ RequestOK(n, e, q[i]) BY Rows DEF Numbered
  <2> QED BY <2>1 DEF RequestOK, Request
<1>3. ClientOK(n2, c) BY DEF Numbered, ClientOK, Client
<1>4. MachineOK(n2, w) BY DEF Machine, Copy, Request, Numbered, MachineOK
<1> QED BY <1>1, <1>2, <1>3, <1>4 DEF Numbered

\* With no load and no barrier there is nothing to keep.
LEMMA Idles ==
  ASSUME NEW k, NEW n \in Nat, NEW cs, NEW ws, NEW qs, World(k, n, cs, ws, qs),
         NEW k2 \in Coordinator, k2.load = Nil, Off(k2), k.epoch <= k2.epoch, k2.point <= n,
         \A x \in Member : k2.inbox[x] = k.inbox[x]
  PROVE  World(k2, n, cs, ws, qs)
<1>1. Phased(k2, n) BY DEF Phased, Off
<1>2. ASSUME NEW x \in Member PROVE Fits(k2, n, x, cs[x], ws[x], qs[x])
  <2>1. Fits(k, n, x, cs[x], ws[x], qs[x]) /\ k \in Coordinator BY WorldIs
  <2>2. /\ cs[x] \in Client /\ ws[x] \in Machine /\ qs[x] \in Seq(Request)
        /\ Numbered(n, k.epoch, Road(k, x, cs[x]), cs[x], ws[x], qs[x])
        /\ HoldFirst(k, x, Road(k, x, cs[x]), cs[x].attempt)
    BY WorldIs DEF Typed
  <2>3. k.epoch \in Nat /\ k2.epoch \in Nat /\ Road(k, x, cs[x]) \in Seq(Notice)
    BY <2>1, <2>2, OwnRoad DEF Coordinator
  <2>4. Numbered(n, k2.epoch, Road(k, x, cs[x]), cs[x], ws[x], qs[x]) BY <2>2, <2>3, NumberedGrows
  <2>5. HoldFirst(k2, x, Road(k, x, cs[x]), cs[x].attempt) BY <2>2 DEF HoldFirst
  <2>7. Barred(k2, x, Road(k, x, cs[x]), cs[x].attempt, ws[x], qs[x]) BY DEF Barred, Off
  <2> QED BY <2>1, <2>4, <2>5, <2>7, Judged DEF Undoable, NotOver, Freezes, Undoes
<1> QED BY <1>1, <1>2, WorldIs DEF World

\* Events are of their type.
LEMMA Events ==
  ASSUME NEW id \in Nat, NEW type \in {"Stop", "Hold", "Stage", "Receive", "Commit", "Rollback", "Finish"}
  PROVE  Event(type, id) \in Notice /\ Event(type, id).type = type /\ Event(type, id).id = id
  BY DEF Event, Notice

\* With no load and no barrier, a stop or a finish disturbs nobody.
LEMMA IdleSends ==
  ASSUME NEW k, NEW n \in Nat, NEW cs, NEW ws, NEW qs, World(k, n, cs, ws, qs), k.load = Nil, Off(k),
         NEW members, NEW type \in {"Stop", "Finish"}, NEW id \in Nat, id <= n, type = "Finish" => id # 0
  PROVE  LET k2 == SendTo(k, members, Event(type, id))
         IN World(k2, n, cs, ws, qs) /\ Alike(k, k2) /\ k2.connected = k.connected /\ k2.transport = k.transport
<1> DEFINE e == Event(type, id)
<1>1. e \in Notice /\ e.type = type /\ e.id = id BY Events
<1>2. NoticeOK(n, k.epoch, e) BY <1>1 DEF NoticeOK, LoadNotice
<1> HIDE DEF e
<1>3. ASSUME NEW x \in Member PROVE MayHear(k, n, x, Road(k, x, cs[x]), cs[x].attempt, qs[x], e)
  BY <1>1, <1>2 DEF MayHear, Off, Marks
<1> QED BY <1>1, <1>3, Notifies DEF e

\* A rollback is over only with everybody asked that is there.
LEMMA FinishesRollback ==
  ASSUME NEW k, NEW n \in Nat, NEW cs, NEW ws, NEW qs, World(k, n, cs, ws, qs), NEW timedOut
  PROVE  LET k2 == FinishRollback(k, timedOut)
         IN /\ World(k2, n, cs, ws, qs) /\ Undone(k, k2, ws)
            /\ k.load # Nil /\ k2.load = Nil => Host \in k.load.rolledBack
            /\ k2.connected = k.connected
<1> DEFINE k1 == [k EXCEPT !.load = Nil, !.status = "paused"]
           k2 == FinishRollback(k, timedOut)
           stays == \/ k.load = Nil \/ (k.load.phase # "rolling_back") \/ Host \notin k.load.rolledBack
                    \/ ~timedOut /\ k.connected \ k.load.rolledBack # {}
<1>1. k \in Coordinator BY WorldIs
<1>2. ASSUME stays PROVE k2 = k BY <1>2 DEF FinishRollback
<1>3. ASSUME ~stays
      PROVE  /\ World(k2, n, cs, ws, qs) /\ k2.load = Nil /\ Undone(k, k2, ws) /\ Host \in k.load.rolledBack
             /\ k2.connected = k.connected
  <2>1. k.load # Nil /\ k.load.phase = "rolling_back" /\ Host \in k.load.rolledBack
        /\ k2 = SendTo(k1, Member, Event("Stop", 0))
    BY <1>3 DEF FinishRollback
  <2>2. /\ k1 \in Coordinator /\ k1.load = Nil /\ Off(k1) /\ k1.epoch = k.epoch /\ k1.point = k.point
        /\ k1.inbox = k.inbox /\ k1.connected = k.connected
    BY <1>1 DEF Coordinator, Off
  <2> HIDE DEF k1, k2
  <2>3. k.epoch \in Nat /\ k.point <= n BY <1>1, WorldIs DEF Coordinator, Phased
  <2>4. World(k1, n, cs, ws, qs) BY <2>2, <2>3, Idles
  <2>6. ASSUME NEW x \in k.load.boundaries \cap (k.load.rolledBack \cup {Host}) PROVE ws[x].native = k.point
    <3>1. x \in k.load.boundaries \cap k.load.rolledBack BY <2>1
    <3>2. x \in Member BY <1>1, <2>1, <3>1 DEF Coordinator, Proposal
    <3>3. Undoes(k, x, Road(k, x, cs[x]), ws[x], qs[x]) BY <3>2, WorldIs
    <3> QED BY <2>1, <3>1, <3>3 DEF Undoes, AtPoint
  <2> QED BY <2>1, <2>2, <2>4, IdleSends, <2>6 DEF Undone, Alike
<1> HIDE DEF k2
<1>4. CASE stays BY <1>2, <1>4 DEF Undone, k2
<1>5. CASE ~stays BY <1>3, <1>5 DEF k2
<1> QED BY <1>4, <1>5

\* A load goes from phase to phase: what each member does is judged anew.
LEMMA Proceeds ==
  ASSUME NEW k, NEW n \in Nat, NEW cs, NEW ws, NEW qs, World(k, n, cs, ws, qs), k.load # Nil,
         NEW k2 \in Coordinator, k2.load # Nil, k2.load.id = k.load.id,
         k2.epoch = k.epoch, k2.point = k.point, k2.status \in {k.status, "paused"},
         k2.inbox = k.inbox,
         k2.load.phase # "rolling_back" => k2.load.rolledBack = {},
         k2.load.phase \in {"staging", "committing"} => k2.load.boundaries = Member,
         \A x \in Member :
           /\ x \in k2.load.boundaries \ k.load.boundaries => Road(k, x, cs[x]) = <<>>
           /\ k2.load.phase = "freezing" /\ x \notin k2.load.boundaries =>
                k.load.phase = "freezing" /\ x \notin k.load.boundaries
           /\ Undoes(k2, x, Road(k, x, cs[x]), ws[x], qs[x])
  PROVE  World(k2, n, cs, ws, qs)
<1>1. k \in Coordinator /\ Phased(k, n) BY WorldIs
<1>2. k2.status \in {"paused", "resume_ready"} /\ Off(k2) BY <1>1 DEF Phased, Off
<1>3. Phased(k2, n) BY <1>1, <1>2 DEF Phased
<1>4. ASSUME NEW x \in Member PROVE Fits(k2, n, x, cs[x], ws[x], qs[x])
  <2> DEFINE road == Road(k, x, cs[x])
  <2>1. /\ Fits(k, n, x, cs[x], ws[x], qs[x]) /\ Undoable(k, ws[x])
        /\ Numbered(n, k.epoch, road, cs[x], ws[x], qs[x])
        /\ HoldFirst(k, x, road, cs[x].attempt) /\ NotOver(k, road, qs[x]) /\ Freezes(k, x, road, qs[x])
    BY WorldIs
  <2>2. /\ x \in k2.load.boundaries \ k.load.boundaries => road = <<>>
        /\ k2.load.phase = "freezing" /\ x \notin k2.load.boundaries =>
             k.load.phase = "freezing" /\ x \notin k.load.boundaries
        /\ Undoes(k2, x, road, ws[x], qs[x])
    OBVIOUS
  <2>3. road \in Seq(Notice) BY <1>1, OwnRoad, WorldIs
  <2>4. k2.inbox[x] = k.inbox[x] OBVIOUS
  <2> HIDE DEF road
  <2>5. Undoable(k2, ws[x]) /\ NotOver(k2, road, qs[x]) BY <2>1 DEF Undoable, NotOver
  <2>6. HoldFirst(k2, x, road, cs[x].attempt) BY <2>3, Rows, <2>1, <2>2 DEF HoldFirst
  <2>7. Barred(k2, x, road, cs[x].attempt, ws[x], qs[x]) BY <1>2 DEF Barred, Off
  <2>8. Freezes(k2, x, road, qs[x]) BY <2>1, <2>2 DEF Freezes
  <2>9. Numbered(n, k2.epoch, road, cs[x], ws[x], qs[x]) BY <2>1
  <2> QED BY <2>1, <2>2, <2>4, <2>5, <2>6, <2>7, <2>8, <2>9, Judged DEF road
<1> QED BY <1>3, <1>4, WorldIs DEF World

\* A load is given up: everybody that reported is told to go back.
LEMMA Aborts ==
  ASSUME NEW k, NEW n \in Nat, NEW cs, NEW ws, NEW qs, World(k, n, cs, ws, qs)
  PROVE  LET k2 == AbortLoad(k)
         IN World(k2, n, cs, ws, qs) /\ Undone(k, k2, ws) /\ k2.connected = k.connected
<1> DEFINE p == [k.load EXCEPT !.phase = "rolling_back", !.rolledBack = Member \ k.load.boundaries]
           k1 == [k EXCEPT !.load = p, !.status = "paused"]
           kr == SendTo(k1, k.load.boundaries, Event("Rollback", k.load.id))
           k2 == AbortLoad(k)
<1>1. k \in Coordinator /\ Phased(k, n) BY WorldIs
<1>2. ASSUME k.load = Nil \/ k.load.phase = "rolling_back" PROVE k2 = k /\ Undone(k, k2, ws)
  BY <1>2 DEF AbortLoad, Undone
<1>3. ASSUME k.load # Nil, k.load.phase # "rolling_back"
      PROVE  World(k2, n, cs, ws, qs) /\ Undone(k, k2, ws) /\ k2.connected = k.connected
  <2>1. k.load \in Proposal BY <1>1, <1>3 DEF Coordinator
  <2>2. /\ p \in Proposal /\ p.id = k.load.id /\ p.phase = "rolling_back" /\ p.boundaries = k.load.boundaries
        /\ p.rolledBack = Member \ k.load.boundaries
    BY <2>1 DEF Proposal
  <2>2a. p # Nil BY <2>2, NilAssumption
  <2>4. k2 = FinishRollback(kr, FALSE) BY <1>3, <1>1, <2>1 DEF AbortLoad, Coordinator, Proposal
  <2> HIDE DEF p
  <2>5. /\ k1 \in Coordinator /\ k1.load = p /\ k1.status = "paused" /\ k1.epoch = k.epoch
        /\ k1.point = k.point /\ k1.inbox = k.inbox /\ k1.connected = k.connected
    BY <1>1, <2>2 DEF Coordinator
  <2> HIDE DEF k1, k2
  <2>6. ASSUME NEW x \in Member PROVE Undoes(k1, x, Road(k, x, cs[x]), ws[x], qs[x])
    <3>1. Undoes(k, x, Road(k, x, cs[x]), ws[x], qs[x]) BY WorldIs
    <3>3. qs[x] \in Seq(Request) BY WorldIs DEF Typed
    <3>4. \A i \in DOMAIN qs[x] : 0 < i BY <3>3, Rows
    <3> QED BY <1>3, <2>2, <2>2a, <2>5, <3>1, <3>4 DEF Undoes, Lacks, NoUndo
  <2>7. World(k1, n, cs, ws, qs) BY <1>3, <2>2, <2>2a, <2>5, <2>6, Proceeds
  <2> DEFINE e == Event("Rollback", k.load.id)
  <2>8. e \in Notice /\ e.type = "Rollback" /\ e.id = k.load.id BY <2>1, Events DEF Proposal
  <2>8a. k.load.id = n BY <1>1, <1>3 DEF Phased
  <2>9. k.load.boundaries \subseteq Member BY <2>1 DEF Proposal
  <2> HIDE DEF e
  <2>10. ASSUME k.load.id # 0 PROVE World(kr, n, cs, ws, qs) /\ Alike(k1, kr) /\ kr.connected = k1.connected
    <3>1. NoticeOK(n, k1.epoch, e) BY <2>8, <2>8a, <2>10 DEF NoticeOK
    <3>2. ASSUME NEW x \in k.load.boundaries
          PROVE  MayHear(k1, n, x, Road(k1, x, cs[x]), cs[x].attempt, qs[x], e)
      <4>1. x \in Member /\ HoldFirst(k1, x, Road(k1, x, cs[x]), cs[x].attempt)
        BY <2>7, <2>9, WorldIs
      <4>2. \A i \in DOMAIN Road(k1, x, cs[x]) :
              Road(k1, x, cs[x])[i].type = "Hold" => Road(k1, x, cs[x])[i].id # e.id
        BY <2>2, <2>2a, <2>5, <2>8, <3>2, <4>1 DEF HoldFirst
      <4> QED BY <2>2, <2>2a, <2>5, <2>8, <3>1, <4>2 DEF MayHear
    <3>4. LET ke == SendTo(k1, k.load.boundaries, e)
          IN World(ke, n, cs, ws, qs) /\ Alike(k1, ke) /\ ke.connected = k1.connected
      BY <2>7, <2>8, <3>2, Notifies
    <3> QED BY <3>4 DEF e
  <2>11. k.load.id # 0 BY <1>1, <1>3 DEF Phased
  <2> HIDE DEF kr
  <2>12. /\ World(k2, n, cs, ws, qs) /\ k2.connected = kr.connected
         /\ kr.load # Nil /\ k2.load = Nil => Host \in kr.load.rolledBack
    BY <2>4, <2>10, <2>11, FinishesRollback
  <2>13. Undone(k, k2, ws)
    BY <2>5, <2>10, <2>11, <2>2, <2>2a, <2>12, <1>1, <1>3 DEF Alike, Phased, Undone
  <2> QED BY <2>5, <2>10, <2>11, <2>12, <2>13
<1> HIDE DEF k2
<1>4. CASE k.load = Nil \/ k.load.phase = "rolling_back" BY <1>2, <1>4 DEF k2
<1>5. CASE ~(k.load = Nil \/ k.load.phase = "rolling_back") BY <1>3, <1>5 DEF k2
<1> QED BY <1>4, <1>5

\* The clock runs out on a load.
LEMMA Expires ==
  ASSUME NEW k, NEW n \in Nat, NEW cs, NEW ws, NEW qs, World(k, n, cs, ws, qs)
  PROVE  LET k2 == IF k.load.phase = "rolling_back" THEN FinishRollback(k, TRUE) ELSE AbortLoad(k)
         IN World(k2, n, cs, ws, qs) /\ Undone(k, k2, ws)
BY FinishesRollback, Aborts

\* A barrier is given up, or the load is.
LEMMA Stops ==
  ASSUME NEW k, NEW n \in Nat, NEW cs, NEW ws, NEW qs, World(k, n, cs, ws, qs)
  PROVE  LET k2 == Stop(k)
         IN World(k2, n, cs, ws, qs) /\ Undone(k, k2, ws) /\ k2.connected = k.connected
            /\ (k.load = Nil => k2.load = Nil)
<1> DEFINE k2 == Stop(k)
           k1 == [k EXCEPT !.status = "paused", !.acks = {}]
<1>1. k \in Coordinator /\ k.point <= n BY WorldIs DEF Phased
<1>2. ASSUME k.load # Nil
      PROVE  World(k2, n, cs, ws, qs) /\ Undone(k, k2, ws) /\ k2.connected = k.connected
  <2>1. k2 = AbortLoad(k) BY <1>2 DEF Stop
  <2> HIDE DEF k2
  <2> QED BY <2>1, Aborts
<1>3. ASSUME k.load = Nil
      PROVE  World(k2, n, cs, ws, qs) /\ Undone(k, k2, ws) /\ k2.connected = k.connected /\ k2.load = Nil
  <2>1. k2 = SendTo(k1, Member, Event("Stop", 0)) BY <1>3 DEF Stop
  <2>2. /\ k1 \in Coordinator /\ k1.load = Nil /\ Off(k1) /\ k1.epoch = k.epoch /\ k1.point = k.point
        /\ k1.inbox = k.inbox /\ k1.connected = k.connected
    BY <1>1, <1>3 DEF Coordinator, Off
  <2> HIDE DEF k1, k2
  <2>3. k.epoch <= k1.epoch BY <1>1, <2>2 DEF Coordinator
  <2>4. World(k1, n, cs, ws, qs) BY <1>1, <2>2, <2>3, Idles
  <2> QED BY <1>3, <2>2, <2>1, <2>4, IdleSends DEF Undone, Alike
<1> QED BY <1>2, <1>3

\* Somebody is missing: the load, or the barrier, is given up.
LEMMA Reconfigures ==
  ASSUME NEW k, NEW n \in Nat, NEW cs, NEW ws, NEW qs, World(k, n, cs, ws, qs)
  PROVE  LET k2 == Reconfigured(k) IN World(k2, n, cs, ws, qs) /\ Undone(k, k2, ws)
<1> DEFINE k2 == Reconfigured(k)
           stopped == IF k.status = "starting" THEN Stop(k) ELSE k
           frozen == [stopped EXCEPT !.status = "pausing"]
<1>1. k2 = IF Available(k) THEN k ELSE IF k.load # Nil THEN AbortLoad(k)
           ELSE IF Host \in k.connected THEN stopped ELSE frozen
  BY DEF Reconfigured
<1>2. World(k, n, cs, ws, qs) /\ Undone(k, k, ws) BY DEF Undone
<1>3. LET a == AbortLoad(k) IN World(a, n, cs, ws, qs) /\ Undone(k, a, ws) BY Aborts
<1>4. World(stopped, n, cs, ws, qs) /\ Undone(k, stopped, ws) /\ (k.load = Nil => stopped.load = Nil)
  BY Stops, <1>2
<1> HIDE DEF stopped
<1>5. ASSUME k.load = Nil PROVE World(frozen, n, cs, ws, qs) /\ Undone(k, frozen, ws)
  <2>1. stopped \in Coordinator /\ stopped.point <= n /\ stopped.load = Nil
    BY <1>4, <1>5, WorldIs DEF Phased
  <2>2. /\ frozen \in Coordinator /\ frozen.load = Nil /\ Off(frozen) /\ frozen.epoch = stopped.epoch
        /\ frozen.point = stopped.point /\ frozen.inbox = stopped.inbox
    BY <2>1 DEF Coordinator, Off
  <2> HIDE DEF frozen
  <2>3. stopped.epoch <= frozen.epoch BY <2>1, <2>2 DEF Coordinator
  <2>4. World(frozen, n, cs, ws, qs) BY <1>4, <2>1, <2>2, <2>3, Idles
  <2> QED BY <1>5, <2>4 DEF Undone
<1> HIDE DEF frozen, k2
<1>6. World(k2, n, cs, ws, qs) /\ Undone(k, k2, ws) BY <1>1, <1>2, <1>3, <1>4, <1>5
<1> QED BY <1>6 DEF k2

\* A member reports that it failed.
LEMMA Fails ==
  ASSUME NEW k, NEW n \in Nat, NEW cs, NEW ws, NEW qs, World(k, n, cs, ws, qs), NEW m, NEW id
  PROVE  LET k2 == Failed(k, m, id) IN World(k2, n, cs, ws, qs) /\ Undone(k, k2, ws)
BY Aborts DEF Undone, Failed

\* A member reports that it could not be bound.
LEMMA AbortsBarrier ==
  ASSUME NEW k, NEW n \in Nat, NEW cs, NEW ws, NEW qs, World(k, n, cs, ws, qs), NEW m, NEW epoch
  PROVE  LET k2 == Aborted(k, m, epoch) IN World(k2, n, cs, ws, qs) /\ Undone(k, k2, ws)
BY Stops DEF Undone, Aborted

\* A member reports its boundary, with nothing left to read.
LEMMA Bounds ==
  ASSUME NEW k, NEW n \in Nat, NEW cs, NEW ws, NEW qs, World(k, n, cs, ws, qs), NEW m \in Member, NEW id,
         k.load # Nil /\ k.load.id = id /\ k.load.phase = "freezing" /\ m \notin k.load.boundaries =>
           Road(k, m, cs[m]) = <<>> /\ NoCommit(qs[m], 0) /\ NoUndo(qs[m], 0)
  PROVE  LET k2 == Boundary(k, m, id) IN World(k2, n, cs, ws, qs) /\ Undone(k, k2, ws)
<1> DEFINE b == k.load.boundaries \cup {m}
           p == [k.load EXCEPT !.boundaries = b]
           r == [k EXCEPT !.load = p]
           p2 == [p EXCEPT !.phase = "staging"]
           s == [k EXCEPT !.load = p2, !.status = "paused"]
           k2 == Boundary(k, m, id)
<1>1. k \in Coordinator /\ Phased(k, n) BY WorldIs
<1>2. ASSUME ~In(k, m, id, "freezing") PROVE World(k2, n, cs, ws, qs) /\ Undone(k, k2, ws)
  <2>1. k2 = k BY <1>2 DEF Boundary
  <2> HIDE DEF k2
  <2> QED BY <2>1 DEF Undone
<1>3. ASSUME In(k, m, id, "freezing") PROVE World(k2, n, cs, ws, qs) /\ Undone(k, k2, ws)
  <2>1. k.load \in Proposal /\ k.load # Nil /\ k.load.id = id /\ k.load.phase = "freezing"
    BY <1>1, <1>3 DEF Coordinator, In
  <2>2. /\ p \in Proposal /\ p.id = k.load.id /\ p.phase = "freezing" /\ p.boundaries = b
        /\ p.rolledBack = k.load.rolledBack
        /\ p2 \in Proposal /\ p2.id = k.load.id /\ p2.phase = "staging" /\ p2.boundaries = b
        /\ p2.rolledBack = k.load.rolledBack
    BY <2>1 DEF Proposal
  <2>3. p # Nil /\ p2 # Nil BY <2>2, NilAssumption
  <2>4. k.load.rolledBack = {} BY <1>1, <2>1 DEF Phased
  <2>5. /\ r = [k EXCEPT !.load.boundaries = @ \cup {m}]
        /\ [r EXCEPT !.load.phase = "staging", !.status = "paused"] = s
        /\ r.load.boundaries = b
    BY <1>1, <2>1 DEF Coordinator, Proposal
  <2>6. k2 = IF b # Member THEN r
             ELSE SendTo(SendTo(s, {Host}, Event("Stage", id)), Guest, Event("Receive", id))
    <3>1. k2 = LET reported == [k EXCEPT !.load.boundaries = @ \cup {m}]
               IN IF reported.load.boundaries # Member THEN reported
                  ELSE SendTo(SendTo([reported EXCEPT !.load.phase = "staging", !.status = "paused"],
                                     {Host}, Event("Stage", id)), Guest, Event("Receive", id))
      BY <1>3 DEF Boundary
    <3> HIDE DEF p, p2, r, s, k2, b
    <3> QED BY <2>5, <3>1
  <2>7. /\ r \in Coordinator /\ r.load = p /\ r.status = k.status /\ r.epoch = k.epoch
        /\ r.point = k.point /\ r.inbox = k.inbox
        /\ s \in Coordinator /\ s.load = p2 /\ s.status = "paused" /\ s.epoch = k.epoch
        /\ s.point = k.point /\ s.inbox = k.inbox
    BY <1>1, <2>2 DEF Coordinator
  <2> HIDE DEF p, p2, r, s, k2
  <2>8. ASSUME NEW x \in Member
        PROVE  /\ Undoes(r, x, Road(k, x, cs[x]), ws[x], qs[x])
               /\ Undoes(s, x, Road(k, x, cs[x]), ws[x], qs[x])
               /\ x \in b \ k.load.boundaries => Road(k, x, cs[x]) = <<>>
    <3> DEFINE road == Road(k, x, cs[x])
    <3>1. Undoes(k, x, road, ws[x], qs[x]) /\ road \in Seq(Notice) BY <1>1, WorldIs, OwnRoad
    <3> HIDE DEF road
    <3>2. x \in b => /\ Lacks(road, "Commit") /\ NoCommit(qs[x], 0)
                     /\ Lacks(road, "Rollback") /\ NoUndo(qs[x], 0)
      BY <2>1, <3>1, Rows DEF Undoes, road, Lacks
    <3>3. Undoes(r, x, road, ws[x], qs[x]) BY <2>2, <2>7, <3>2 DEF Undoes
    <3>4. Undoes(s, x, road, ws[x], qs[x]) BY <2>2, <2>7, <3>2 DEF Undoes
    <3>5. x \in b \ k.load.boundaries => road = <<>> BY <2>1 DEF road
    <3> QED BY <3>3, <3>4, <3>5 DEF road
  <2> HIDE DEF b
  <2>9. ASSUME b # Member PROVE World(k2, n, cs, ws, qs) /\ Undone(k, k2, ws)
    BY <2>1, <2>2, <2>3, <2>4, <2>7, <2>8, Proceeds, <2>6, <2>9 DEF b, Undone
  <2>10. ASSUME b = Member PROVE World(k2, n, cs, ws, qs) /\ Undone(k, k2, ws)
    <3>1. World(s, n, cs, ws, qs) BY <2>1, <2>2, <2>3, <2>4, <2>7, <2>8, <2>10, Proceeds
    <3>2. k.load.id = n /\ n # 0 BY <1>1, <2>1 DEF Phased
    <3>3. ASSUME NEW j, World(j, n, cs, ws, qs), j.load = p2, j.status = "paused",
                 NEW members, NEW type \in {"Stage", "Receive"}
          PROVE  LET j2 == SendTo(j, members, Event(type, id))
                 IN World(j2, n, cs, ws, qs) /\ j2.load = p2 /\ j2.status = "paused"
      <4> DEFINE e == Event(type, id)
      <4>1. e \in Notice /\ e.type = type /\ e.id = id BY <2>1, <3>2, Events
      <4> HIDE DEF e
      <4>2. NoticeOK(n, j.epoch, e) BY <4>1, <2>1, <3>2 DEF NoticeOK
      <4>3. ASSUME NEW x \in Member
            PROVE  MayHear(j, n, x, Road(j, x, cs[x]), cs[x].attempt, qs[x], e)
        BY <2>2, <3>3, <4>1, <4>2 DEF MayHear, Marks
      <4> QED BY <3>3, <4>1, <4>3, Notifies DEF e, Alike
    <3> DEFINE t == SendTo(s, {Host}, Event("Stage", id))
               u == SendTo(t, Guest, Event("Receive", id))
    <3>4. World(t, n, cs, ws, qs) /\ t.load = p2 /\ t.status = "paused" BY <2>7, <3>1, <3>3
    <3> HIDE DEF t
    <3>5. World(u, n, cs, ws, qs) /\ u.load = p2 BY <3>3, <3>4
    <3>6. k2 = u BY <2>6, <2>10 DEF t
    <3> QED BY <2>3, <3>5, <3>6 DEF Undone
  <2> QED BY <2>9, <2>10
<1> QED BY <1>2, <1>3

\* Everybody has prepared the state: all are told to commit it.
LEMMA PreparesAll ==
  ASSUME NEW k, NEW n \in Nat, NEW cs, NEW ws, NEW qs, World(k, n, cs, ws, qs), NEW m \in Member, NEW id
  PROVE  LET k2 == Prepared(k, m, id) IN World(k2, n, cs, ws, qs) /\ Undone(k, k2, ws)
<1> DEFINE b == k.load.prepared \cup {m}
           p == [k.load EXCEPT !.prepared = b]
           r == [k EXCEPT !.load = p]
           p2 == [p EXCEPT !.phase = "committing"]
           s == [k EXCEPT !.load = p2]
           k2 == Prepared(k, m, id)
<1>1. k \in Coordinator /\ Phased(k, n) BY WorldIs
<1>2. ASSUME ~In(k, m, id, "staging") PROVE World(k2, n, cs, ws, qs) /\ Undone(k, k2, ws)
  <2>1. k2 = k BY <1>2 DEF Prepared
  <2> HIDE DEF k2
  <2> QED BY <2>1 DEF Undone
<1>3. ASSUME In(k, m, id, "staging") PROVE World(k2, n, cs, ws, qs) /\ Undone(k, k2, ws)
  <2>1. k.load \in Proposal /\ k.load # Nil /\ k.load.id = id /\ k.load.phase = "staging"
    BY <1>1, <1>3 DEF Coordinator, In
  <2>2. /\ p \in Proposal /\ p.id = k.load.id /\ p.phase = "staging" /\ p.boundaries = k.load.boundaries
        /\ p.rolledBack = k.load.rolledBack
        /\ p2 \in Proposal /\ p2.id = k.load.id /\ p2.phase = "committing" /\ p2.boundaries = k.load.boundaries
        /\ p2.rolledBack = k.load.rolledBack
    BY <2>1 DEF Proposal
  <2>3. p # Nil /\ p2 # Nil BY <2>2, NilAssumption
  <2>4. k.load.rolledBack = {} /\ k.load.boundaries = Member /\ Off(k) /\ k.load.id = n /\ n # 0
    BY <1>1, <2>1 DEF Phased, Off
  <2>6. k2 = IF b # Member THEN r ELSE SendTo(s, Member, Event("Commit", id))
    BY <1>3, <1>1, <2>1 DEF Prepared, Coordinator, Proposal
  <2>7. /\ r \in Coordinator /\ r.load = p /\ r.status = k.status /\ r.epoch = k.epoch
        /\ r.point = k.point /\ r.inbox = k.inbox
        /\ s \in Coordinator /\ s.load = p2 /\ s.status = k.status /\ s.epoch = k.epoch
        /\ s.point = k.point /\ s.inbox = k.inbox
    BY <1>1, <2>2 DEF Coordinator
  <2> HIDE DEF p, p2, r, s, k2, b
  <2>8. ASSUME NEW x \in Member
        PROVE  /\ Undoes(r, x, Road(k, x, cs[x]), ws[x], qs[x])
               /\ Undoes(s, x, Road(k, x, cs[x]), ws[x], qs[x])
    BY WorldIs, <2>1, <2>2, <2>7 DEF Undoes
  <2>9. ASSUME b # Member PROVE World(k2, n, cs, ws, qs) /\ Undone(k, k2, ws)
    BY <2>1, <2>2, <2>3, <2>4, <2>7, <2>8, Proceeds, <2>6, <2>9 DEF Undone
  <2>10. ASSUME b = Member PROVE World(k2, n, cs, ws, qs) /\ Undone(k, k2, ws)
    <3>1. World(s, n, cs, ws, qs) BY <2>1, <2>2, <2>3, <2>4, <2>7, <2>8, Proceeds
    <3> DEFINE e == Event("Commit", id)
    <3>2. e \in Notice /\ e.type = "Commit" /\ e.id = id BY <2>1, <2>4, Events
    <3> HIDE DEF e
    <3>3. NoticeOK(n, s.epoch, e)
      <4>1. e.id = n /\ n # 0 /\ e.type = "Commit" BY <2>1, <2>4, <3>2
      <4> QED BY <4>1 DEF NoticeOK
    <3>4. ASSUME NEW x \in Member
          PROVE  MayHear(s, n, x, Road(s, x, cs[x]), cs[x].attempt, qs[x], e)
      <4>1. HoldFirst(s, x, Road(s, x, cs[x]), cs[x].attempt) BY <3>1, WorldIs
      <4>2. \A i \in DOMAIN Road(s, x, cs[x]) :
              Road(s, x, cs[x])[i].type = "Hold" => Road(s, x, cs[x])[i].id # e.id
        BY <2>1, <2>2, <2>3, <2>4, <2>7, <3>2, <4>1 DEF HoldFirst
      <4> QED BY <2>2, <2>4, <2>7, <3>2, <3>3, <4>2 DEF MayHear, Off
    <3>6. k2 = SendTo(s, Member, e) BY <2>6, <2>10 DEF e
    <3>7. World(k2, n, cs, ws, qs) /\ k2.load = p2
      BY <2>7, <3>1, <3>2, <3>4, Notifies, <3>6 DEF Alike
    <3> QED BY <2>3, <3>7 DEF Undone
  <2> QED BY <2>9, <2>10
<1> QED BY <1>2, <1>3

\* Everybody has committed it: the load is over, and the next barrier is another one.
LEMMA CommitsAll ==
  ASSUME NEW k, NEW n \in Nat, NEW cs, NEW ws, NEW qs, World(k, n, cs, ws, qs), NEW m \in Member, NEW id
  PROVE  LET k2 == Committed(k, m, id) IN World(k2, n, cs, ws, qs) /\ Undone(k, k2, ws)
<1> DEFINE b == k.load.committed \cup {m}
           p == [k.load EXCEPT !.committed = b]
           r == [k EXCEPT !.load = p]
           s == [k EXCEPT !.load = Nil, !.point = id, !.epoch = k.epoch + 1, !.status = "resume_ready"]
           k2 == Committed(k, m, id)
<1>1. k \in Coordinator /\ Phased(k, n) BY WorldIs
<1>2. ASSUME ~In(k, m, id, "committing") PROVE World(k2, n, cs, ws, qs) /\ Undone(k, k2, ws)
  <2>1. k2 = k BY <1>2 DEF Committed
  <2> HIDE DEF k2
  <2> QED BY <2>1 DEF Undone
<1>3. ASSUME In(k, m, id, "committing") PROVE World(k2, n, cs, ws, qs) /\ Undone(k, k2, ws)
  <2>1. k.load \in Proposal /\ k.load # Nil /\ k.load.id = id /\ k.load.phase = "committing"
    BY <1>1, <1>3 DEF Coordinator, In
  <2>2. /\ p \in Proposal /\ p.id = k.load.id /\ p.phase = "committing" /\ p.boundaries = k.load.boundaries
        /\ p.rolledBack = k.load.rolledBack
    BY <2>1 DEF Proposal
  <2>3. p # Nil BY <2>2, NilAssumption
  <2>4. k.load.rolledBack = {} /\ k.load.boundaries = Member /\ k.load.id = n /\ n # 0
    BY <1>1, <2>1 DEF Phased
  <2>5. /\ r = [k EXCEPT !.load.committed = @ \cup {m}]
        /\ [r EXCEPT !.load = Nil, !.point = id, !.epoch = @ + 1, !.status = "resume_ready"] = s
        /\ r.load.committed = b
    BY <1>1, <2>1 DEF Coordinator, Proposal
  <2>6. k2 = IF b # Member THEN r ELSE SendTo(s, Member, Event("Finish", id))
    <3>1. k2 = LET reported == [k EXCEPT !.load.committed = @ \cup {m}]
               IN IF reported.load.committed # Member THEN reported
                  ELSE SendTo([reported EXCEPT !.load = Nil, !.point = id, !.epoch = @ + 1,
                                               !.status = "resume_ready"],
                              Member, Event("Finish", id))
      BY <1>3 DEF Committed
    <3> HIDE DEF p, r, s, k2, b
    <3> QED BY <2>5, <3>1
  <2>6a. k.epoch \in Nat /\ id \in Nat BY <1>1, <2>1 DEF Coordinator, Proposal
  <2>7. /\ r \in Coordinator /\ r.load = p /\ r.status = k.status /\ r.epoch = k.epoch
        /\ r.point = k.point /\ r.inbox = k.inbox
        /\ s \in Coordinator /\ s.load = Nil /\ s.status = "resume_ready" /\ s.epoch = k.epoch + 1
        /\ s.point = id /\ s.inbox = k.inbox
    <3>1. k.epoch + 1 \in Nat BY <2>6a
    <3>3. s \in Coordinator BY <1>1, <2>6a, <3>1 DEF Coordinator
    <3>4. /\ s.load = Nil /\ s.status = "resume_ready" /\ s.epoch = k.epoch + 1
          /\ s.point = id /\ s.inbox = k.inbox
      BY <1>1 DEF Coordinator
    <3> QED BY <1>1, <2>2, <3>3, <3>4 DEF Coordinator
  <2> HIDE DEF p, r, s, k2, b
  <2>8. ASSUME b # Member PROVE World(k2, n, cs, ws, qs) /\ Undone(k, k2, ws)
    <3>1. ASSUME NEW x \in Member PROVE Undoes(r, x, Road(k, x, cs[x]), ws[x], qs[x])
      BY WorldIs, <2>1, <2>2, <2>7 DEF Undoes
    <3>2. World(r, n, cs, ws, qs) BY <2>1, <2>2, <2>3, <2>4, <2>7, <3>1, Proceeds
    <3> QED BY <2>3, <2>6, <2>7, <2>8, <3>2 DEF Undone
  <2>9. ASSUME b = Member PROVE World(k2, n, cs, ws, qs) /\ Undone(k, k2, ws)
    <3>1. Off(s) /\ k.epoch <= s.epoch /\ s.point <= n BY <2>7, <2>1, <2>4, <2>6a DEF Off
    <3>2. World(s, n, cs, ws, qs) BY <2>7, <3>1, Idles
    <3>3. id <= n /\ id # 0 BY <2>1, <2>4
    <3>4. LET t == SendTo(s, Member, Event("Finish", id)) IN World(t, n, cs, ws, qs) /\ Alike(s, t)
      BY <2>6a, <2>7, <3>1, <3>2, <3>3, IdleSends
    <3> QED BY <2>6, <2>7, <2>9, <3>4 DEF Undone, Alike
  <2> QED BY <2>8, <2>9
<1> QED BY <1>2, <1>3

\* A member reports that it is back at the state of the session.
LEMMA ReportsUndone ==
  ASSUME NEW k, NEW n \in Nat, NEW cs, NEW ws, NEW qs, World(k, n, cs, ws, qs), NEW m \in Member, NEW id,
         k.load # Nil /\ m \in k.load.boundaries /\ k.load.phase = "rolling_back" =>
           NoCommit(qs[m], 0) /\ Lacks(Road(k, m, cs[m]), "Commit") /\ AtPoint(k, ws[m])
  PROVE  LET k2 == RolledBack(k, m, id) IN World(k2, n, cs, ws, qs) /\ Undone(k, k2, ws)
<1> DEFINE b == k.load.rolledBack \cup {m}
           p == [k.load EXCEPT !.rolledBack = b]
           r == [k EXCEPT !.load = p]
           k2 == RolledBack(k, m, id)
<1>1. k \in Coordinator /\ Phased(k, n) BY WorldIs
<1>2. ASSUME ~In(k, m, id, "rolling_back") \/ m \notin k.load.boundaries
      PROVE  World(k2, n, cs, ws, qs) /\ Undone(k, k2, ws)
  <2>1. k2 = k BY <1>2 DEF RolledBack
  <2> HIDE DEF k2
  <2> QED BY <2>1 DEF Undone
<1>3. ASSUME In(k, m, id, "rolling_back"), m \in k.load.boundaries
      PROVE  World(k2, n, cs, ws, qs) /\ Undone(k, k2, ws)
  <2>1. k.load \in Proposal /\ k.load # Nil /\ k.load.phase = "rolling_back"
    BY <1>1, <1>3 DEF Coordinator, In
  <2>2. /\ p \in Proposal /\ p.id = k.load.id /\ p.phase = "rolling_back" /\ p.boundaries = k.load.boundaries
        /\ p.rolledBack = b
    BY <2>1 DEF Proposal
  <2>3. p # Nil BY <2>2, NilAssumption
  <2>4. r = [k EXCEPT !.load.rolledBack = @ \cup {m}] BY <1>1, <2>1 DEF Coordinator, Proposal
  <2>5. k2 = FinishRollback(r, FALSE) BY <1>3, <2>4 DEF RolledBack
  <2>6. /\ r \in Coordinator /\ r.load = p /\ r.status = k.status /\ r.epoch = k.epoch
        /\ r.point = k.point /\ r.inbox = k.inbox
    BY <1>1, <2>2 DEF Coordinator
  <2> HIDE DEF p, r, k2
  <2>7. ASSUME NEW x \in Member PROVE Undoes(r, x, Road(k, x, cs[x]), ws[x], qs[x])
    <3>1. Undoes(k, x, Road(k, x, cs[x]), ws[x], qs[x]) BY WorldIs
    <3>2. AtPoint(r, ws[x]) <=> AtPoint(k, ws[x]) BY <2>6 DEF AtPoint
    <3>3. x = m => NoCommit(qs[x], 0) /\ Lacks(Road(k, x, cs[x]), "Commit") /\ AtPoint(k, ws[x])
      BY <1>3, <2>1
    <3>4. x # m => (x \in b <=> x \in k.load.rolledBack) OBVIOUS
    <3> HIDE DEF b
    <3> QED BY <2>1, <2>2, <2>6, <3>1, <3>2, <3>3, <3>4 DEF Undoes
  <2>8. World(r, n, cs, ws, qs) BY <2>1, <2>2, <2>3, <2>6, <2>7, Proceeds
  <2>10. Undone(r, k2, ws) => Undone(k, k2, ws) BY <2>1, <2>2, <2>3, <2>6 DEF Undone
  <2> QED BY <2>5, <2>8, FinishesRollback, <2>10
<1> QED BY <1>2, <1>3

\* A member acknowledges the barrier, at the state of the session.
LEMMA Acknowledges ==
  ASSUME NEW k, NEW n \in Nat, NEW cs, NEW ws, NEW qs, World(k, n, cs, ws, qs), NEW m \in Member,
         k.status = "starting", Quiet(k.inbox[m], Road(k, m, cs[m]), cs[m].attempt),
         NoCommit(qs[m], 0), AtPoint(k, ws[m])
  PROVE  LET k2 == Acknowledged(k, m) IN World(k2, n, cs, ws, qs) /\ Undone(k, k2, ws)
<1> DEFINE b == k.acks \cup {m}
           k2 == Acknowledged(k, m)
<1>1. k \in Coordinator /\ Phased(k, n) BY WorldIs
<1>2. k.load = Nil BY <1>1 DEF Phased
<1>3. /\ k2 \in Coordinator /\ k2.load = Nil /\ k2.point = k.point /\ k2.epoch = k.epoch /\ k2.inbox = k.inbox
      /\ k2.acks = b /\ k2.status = IF b = Member THEN "playing" ELSE k.status
  BY <1>1, <1>2 DEF Acknowledged, Coordinator
<1> HIDE DEF k2, b
<1>4. Phased(k2, n) BY <1>1, <1>3 DEF Phased
<1>5. ASSUME NEW x \in Member PROVE Fits(k2, n, x, cs[x], ws[x], qs[x])
  <2>1. /\ Fits(k, n, x, cs[x], ws[x], qs[x])
        /\ Numbered(n, k.epoch, Road(k, x, cs[x]), cs[x], ws[x], qs[x])
        /\ HoldFirst(k, x, Road(k, x, cs[x]), cs[x].attempt)
        /\ Barred(k, x, Road(k, x, cs[x]), cs[x].attempt, ws[x], qs[x])
    BY WorldIs
  <2>3. /\ Undoable(k2, ws[x]) /\ NotOver(k2, Road(k, x, cs[x]), qs[x])
        /\ Freezes(k2, x, Road(k, x, cs[x]), qs[x]) /\ Undoes(k2, x, Road(k, x, cs[x]), ws[x], qs[x])
    BY <1>3 DEF Undoable, NotOver, Freezes, Undoes
  <2>4. AtPoint(k2, ws[x]) <=> AtPoint(k, ws[x]) BY <1>3 DEF AtPoint
  <2>5. x \in b => x = m \/ x \in k.acks BY DEF b
  <2>6. k2.inbox[x] = k.inbox[x] BY <1>3
  <2>7. Barred(k2, x, Road(k, x, cs[x]), cs[x].attempt, ws[x], qs[x])
    BY <1>3, <2>1, <2>4, <2>5, <2>6 DEF Barred
  <2> QED BY <1>3, <2>1, <2>3, <2>6, <2>7, Judged DEF HoldFirst
<1>6. World(k2, n, cs, ws, qs) BY <1>3, <1>4, <1>5, WorldIs DEF World
<1> QED BY <1>2, <1>6 DEF Undone, k2

\* A barrier is drawn: nobody has heard of it yet.
LEMMA Resumes ==
  ASSUME NEW k, NEW n \in Nat, NEW cs, NEW ws, NEW qs, World(k, n, cs, ws, qs), k.load = Nil
  PROVE  LET k2 == SendTo([k EXCEPT !.status = "starting", !.acks = {}, !.epoch = @ + 1],
                          Member, Barrier(k.point, k.epoch + 1))
         IN World(k2, n, cs, ws, qs)
<1> DEFINE s == [k EXCEPT !.status = "starting", !.acks = {}, !.epoch = @ + 1]
           e == Barrier(k.point, k.epoch + 1)
<1>1. k \in Coordinator /\ Phased(k, n) BY WorldIs
<1>2. k.epoch \in Nat /\ k.point \in Nat /\ k.point <= n BY <1>1 DEF Coordinator, Phased
<1>3. /\ s \in Coordinator /\ s.load = Nil /\ s.point = k.point /\ s.epoch = k.epoch + 1 /\ s.inbox = k.inbox
      /\ s.acks = {} /\ s.status = "starting"
  <2>1. k.epoch + 1 \in Nat BY <1>2
  <2>2. s \in Coordinator BY <1>1, <2>1 DEF Coordinator
  <2> QED BY <1>1, <2>2 DEF Coordinator
<1>4. e \in Notice /\ e.type = "Prepare" /\ e.id = k.point /\ e.epoch = k.epoch + 1
  BY <1>2 DEF Barrier, Notice
<1> HIDE DEF s, e
<1>5. Phased(s, n) BY <1>2, <1>3 DEF Phased
<1>6. ASSUME NEW x \in Member
      PROVE  /\ Fits(s, n, x, cs[x], ws[x], qs[x])
             /\ \A i \in DOMAIN Road(k, x, cs[x]) :
                  Road(k, x, cs[x])[i].type = "Prepare" => Road(k, x, cs[x])[i].epoch # s.epoch
             /\ \A i \in DOMAIN qs[x] : qs[x][i].type = "bind" => qs[x][i].epoch # s.epoch
  <2> DEFINE road == Road(k, x, cs[x])
  <2>1. /\ Fits(k, n, x, cs[x], ws[x], qs[x])
        /\ Numbered(n, k.epoch, road, cs[x], ws[x], qs[x])
        /\ HoldFirst(k, x, road, cs[x].attempt)
        /\ cs[x] \in Client /\ ws[x] \in Machine /\ qs[x] \in Seq(Request)
    BY WorldIs DEF Typed
  <2>2. road \in Seq(Notice) BY <1>1, <2>1, OwnRoad
  <2> HIDE DEF road
  <2>3. \A i \in DOMAIN road : road[i].type = "Prepare" => road[i].epoch # s.epoch
    <3> SUFFICES ASSUME NEW i \in DOMAIN road, road[i].type = "Prepare" PROVE road[i].epoch # s.epoch
      OBVIOUS
    <3>1. road[i] \in Notice /\ road[i].epoch <= k.epoch BY <2>1, <2>2, Rows DEF Numbered, NoticeOK
    <3> QED BY <1>2, <1>3, <3>1 DEF Notice
  <2>4. \A i \in DOMAIN qs[x] : qs[x][i].type = "bind" => qs[x][i].epoch # s.epoch
    <3> SUFFICES ASSUME NEW i \in DOMAIN qs[x], qs[x][i].type = "bind" PROVE qs[x][i].epoch # s.epoch
      OBVIOUS
    <3>1. qs[x][i] \in Request /\ qs[x][i].epoch <= k.epoch BY <2>1, Rows DEF Numbered, RequestOK
    <3> QED BY <1>2, <1>3, <3>1 DEF Request
  <2>5. Numbered(n, s.epoch, road, cs[x], ws[x], qs[x]) BY <1>2, <1>3, <2>1, <2>2, NumberedGrows
  <2>6. HoldFirst(s, x, road, cs[x].attempt) BY <2>1, <1>3 DEF HoldFirst
  <2>8. Barred(s, x, road, cs[x].attempt, ws[x], qs[x]) BY <1>3, <2>3, <2>4 DEF Barred
  <2>9. Fits(s, n, x, cs[x], ws[x], qs[x])
    BY <1>3, <2>1, <2>5, <2>6, <2>8, Judged DEF road, Undoable, NotOver, Freezes, Undoes
  <2> QED BY <2>3, <2>4, <2>9 DEF road
<1>7. World(s, n, cs, ws, qs) BY <1>3, <1>5, <1>6, WorldIs DEF World
<1>8. ASSUME NEW x \in Member PROVE MayHear(s, n, x, Road(s, x, cs[x]), cs[x].attempt, qs[x], e)
  <2>1. Road(s, x, cs[x]) = Road(k, x, cs[x]) BY <1>3 DEF Road
  <2>2. NoticeOK(n, s.epoch, e) BY <1>2, <1>3, <1>4 DEF NoticeOK, LoadNotice
  <2> QED BY <1>3, <1>4, <1>6, <2>1, <2>2 DEF MayHear, Marks
<1>9. LET t == SendTo(s, Member, e) IN World(t, n, cs, ws, qs) BY <1>4, <1>7, <1>8, Notifies
<1> QED BY <1>9 DEF s, e

\* A load is proposed: its number is new to everybody.
LEMMA Proposes ==
  ASSUME NEW k, NEW n \in Nat, NEW cs, NEW ws, NEW qs, World(k, n, cs, ws, qs), k.load = Nil,
         k.status \in {"paused", "resume_ready"}
  PROVE  LET p == [id |-> n + 1, phase |-> "freezing", boundaries |-> {},
                   prepared |-> {}, committed |-> {}, rolledBack |-> {}]
             k2 == SendTo([k EXCEPT !.load = p], Member, Event("Hold", n + 1))
         IN World(k2, n + 1, cs, ws, qs)
<1> DEFINE p == [id |-> n + 1, phase |-> "freezing", boundaries |-> {},
                 prepared |-> {}, committed |-> {}, rolledBack |-> {}]
           s == [k EXCEPT !.load = p]
           e == Event("Hold", n + 1)
<1>1. k \in Coordinator /\ Phased(k, n) BY WorldIs
<1>2. k.epoch \in Nat /\ k.point \in Nat /\ k.point <= n /\ n + 1 \in Nat /\ n <= n + 1 /\ n + 1 # 0
  BY <1>1 DEF Coordinator, Phased
<1>3. /\ p \in Proposal /\ p.id = n + 1 /\ p.phase = "freezing" /\ p.boundaries = {} /\ p.rolledBack = {}
  BY DEF Proposal
<1>4. p # Nil BY <1>3, NilAssumption
<1> HIDE DEF p
<1>5. /\ s \in Coordinator /\ s.load = p /\ s.point = k.point /\ s.epoch = k.epoch /\ s.inbox = k.inbox
      /\ s.acks = k.acks /\ s.status = k.status
  BY <1>1, <1>3 DEF Coordinator
<1>6. e \in Notice /\ e.type = "Hold" /\ e.id = n + 1 BY <1>2, Events
<1> HIDE DEF s, e
<1>7. Phased(s, n + 1) BY <1>2, <1>3, <1>5 DEF Phased
<1>8. ASSUME NEW x \in Member
      PROVE  /\ Fits(s, n + 1, x, cs[x], ws[x], qs[x])
             /\ \A i \in DOMAIN Road(k, x, cs[x]) : Road(k, x, cs[x])[i].id # n + 1
             /\ \A i \in DOMAIN qs[x] : qs[x][i].id # n + 1
             /\ cs[x].attempt # n + 1
  <2> DEFINE road == Road(k, x, cs[x])
  <2>1. /\ Fits(k, n, x, cs[x], ws[x], qs[x])
        /\ Numbered(n, k.epoch, road, cs[x], ws[x], qs[x])
        /\ HoldFirst(k, x, road, cs[x].attempt)
        /\ cs[x] \in Client /\ ws[x] \in Machine /\ qs[x] \in Seq(Request)
    BY WorldIs DEF Typed
  <2>2. road \in Seq(Notice) BY <1>1, <2>1, OwnRoad
  <2> HIDE DEF road
  <2>3. \A i \in DOMAIN road : road[i].id # n + 1
    <3> SUFFICES ASSUME NEW i \in DOMAIN road PROVE road[i].id # n + 1 OBVIOUS
    <3>1. road[i] \in Notice /\ road[i].id <= n BY <2>1, <2>2, Rows DEF Numbered, NoticeOK
    <3> QED BY <3>1 DEF Notice
  <2>4. \A i \in DOMAIN qs[x] : qs[x][i].id # n + 1
    <3> SUFFICES ASSUME NEW i \in DOMAIN qs[x] PROVE qs[x][i].id # n + 1 OBVIOUS
    <3>1. qs[x][i] \in Request /\ qs[x][i].id <= n BY <2>1, Rows DEF Numbered, RequestOK
    <3> QED BY <3>1 DEF Request
  <2>5. cs[x].attempt # n + 1 BY <2>1 DEF Numbered, ClientOK, Client
  <2>6. Numbered(n + 1, s.epoch, road, cs[x], ws[x], qs[x]) BY <1>2, <1>5, <2>1, <2>2, NumberedGrows
  <2>7. HoldFirst(s, x, road, cs[x].attempt) BY <2>1, <1>3, <1>5 DEF HoldFirst
  <2>8. Undoable(s, ws[x]) BY <2>1, <1>3, <1>5 DEF Numbered, MachineOK, Machine, Copy, Undoable
  <2>9. NotOver(s, road, qs[x]) BY <1>3, <1>5, <2>3, <2>4 DEF NotOver
  <2>10. Freezes(s, x, road, qs[x]) BY <1>3, <1>5, <2>3, <2>4 DEF Freezes
  <2>11. Undoes(s, x, road, ws[x], qs[x]) BY <1>3, <1>5 DEF Undoes
  <2>12. Barred(s, x, road, cs[x].attempt, ws[x], qs[x]) BY <1>5 DEF Barred
  <2>13. s.inbox[x] = k.inbox[x] BY <1>5
  <2>14. Fits(s, n + 1, x, cs[x], ws[x], qs[x])
    BY <2>1, <2>6, <2>7, <2>8, <2>9, <2>10, <2>11, <2>12, <2>13, Judged DEF road
  <2> QED BY <2>3, <2>4, <2>5, <2>14 DEF road
<1>9. World(s, n + 1, cs, ws, qs) BY <1>5, <1>7, <1>8, WorldIs DEF World
<1>10. ASSUME NEW x \in Member PROVE MayHear(s, n + 1, x, Road(s, x, cs[x]), cs[x].attempt, qs[x], e)
  <2>1. Road(s, x, cs[x]) = Road(k, x, cs[x]) BY <1>5 DEF Road
  <2>2. NoticeOK(n + 1, s.epoch, e) BY <1>2, <1>6 DEF NoticeOK
  <2> QED BY <1>3, <1>5, <1>6, <1>8, <2>1, <2>2 DEF MayHear, Marks
<1> QED BY <1>6, <1>9, <1>10, Notifies DEF s, e, p

-----------------------------------------------------------------------------
(* What one member does.                                                   *)

\* A step of one member that reads, asks and replaces no more than it may.
LEMMA Steps ==
  ASSUME NEW k \in Coordinator, NEW k2 \in Coordinator, NEW n \in Nat, NEW m \in Member, NEW c, NEW w, NEW q,
         Fits(k, n, m, c, w, q), NEW d \in Client, NEW v, NEW q2 \in Seq(Request),
         Alike(k, k2), k.inbox[m] = <<>> => k2.inbox[m] = <<>>,
         Thins(Road(k2, m, d), Road(k, m, c)), Eased(q2, q),
         \/ d.attempt \in {c.attempt, 0}
         \/ /\ k.inbox[m] # <<>>
            /\ \E i \in DOMAIN Road(k, m, c) :
                 Road(k, m, c)[i].type = "Rollback" /\ Road(k, m, c)[i].id = d.attempt,
         ClientOK(n, d), Sound(k, n, v), \A i \in DOMAIN q2 : RequestOK(n, k.epoch, q2[i]),
         Awaits(d, v, q2), ~NoCommit(q, 0) \/ Unmoved(w, v)
  PROVE  Fits(k2, n, m, d, v, q2)
<1> DEFINE road == Road(k, m, c)
           road2 == Road(k2, m, d)
<1>1. c \in Client /\ w \in Machine /\ q \in Seq(Request) /\ v \in Machine BY DEF Fits, Typed, Sound
<1>2. road \in Seq(Notice) /\ road2 \in Seq(Notice) BY <1>1, OwnRoad
<1>3. /\ \A i \in DOMAIN road : NoticeOK(n, k.epoch, road[i])
      /\ InOrder(k, m, road, c.attempt, w, q)
  BY DEF Fits, Numbered
<1>4. \A i \in DOMAIN road2 : NoticeOK(n, k.epoch, road2[i])
  <2>1. Thins(road2, road) OBVIOUS
  <2> HIDE DEF road, road2
  <2> QED BY <1>2, <1>3, <2>1, ThinRoad
<1>5. k2.epoch = k.epoch /\ c.attempt \in Nat /\ d.attempt \in Nat BY <1>1 DEF Alike, Client
<1>6. Numbered(n, k2.epoch, road2, d, v, q2) BY <1>4, <1>5 DEF Numbered, Sound
<1>7. Undoable(k2, v) /\ Copied(v) /\ Typed(d, v, q2) BY <1>1 DEF Sound, Undoable, Alike, Typed
<1>9. InOrder(k2, m, road2, d.attempt, v, q2)
  <2>1. /\ Thins(road2, road)
        /\ \/ d.attempt \in {c.attempt, 0}
           \/ k.inbox[m] # <<>> /\ \E i \in DOMAIN road : road[i].type = "Rollback" /\ road[i].id = d.attempt
    OBVIOUS
  <2> HIDE DEF road, road2
  <2> QED BY <1>1, <1>2, <1>3, <1>5, <2>1, Eases DEF NoticeOK
<1> QED BY <1>6, <1>7, <1>9 DEF Fits

\* What a member may ask its machine for, with what it still has to read.
MayAsk(k, m, road, attempt, q, x) ==
  /\ k.load # Nil /\ x.type = "finish" => x.id # k.load.id
  /\ k.status \in {"starting", "playing"} =>
       /\ x.type = "bind" /\ x.epoch = k.epoch => Quiet(k.inbox[m], road, attempt)
       /\ x.type = "commit" => /\ \A i \in DOMAIN q : q[i].type = "bind" => q[i].epoch # k.epoch
                               /\ m \notin k.acks
  /\ k.load # Nil /\ k.load.phase = "freezing" /\ m \notin k.load.boundaries =>
       /\ x.type = "hash" /\ x.id = k.load.id => road = <<>>
       /\ x.type \in {"commit", "rollback"} =>
            \A i \in DOMAIN q : ~(q[i].type = "hash" /\ q[i].use = "chain" /\ q[i].id = k.load.id)
  /\ k.load # Nil /\ m \in k.load.boundaries =>
       /\ k.load.phase \in {"freezing", "staging"} => x.type # "commit"
       /\ k.load.phase # "rolling_back" => x.type # "rollback"
       /\ k.load.phase = "rolling_back" =>
            /\ x.type = "rollback" => Lacks(road, "Commit")
            /\ x.type = "commit" => /\ \A i \in DOMAIN q : ~(q[i].type = "rollback" /\ q[i].use = "chain")
                                    /\ m \notin k.load.rolledBack

\* A request that may be asked for is added at the end.
LEMMA Adds ==
  ASSUME NEW k, NEW m, NEW road, NEW attempt, NEW w, NEW q \in Seq(Request),
         NEW x \in Request, InOrder(k, m, road, attempt, w, q), MayAsk(k, m, road, attempt, q, x)
  PROVE  InOrder(k, m, road, attempt, w, Append(q, x))
<1> DEFINE more == Append(q, x)
           last == Len(q) + 1
<1>1. /\ last \in DOMAIN more /\ more[last] = x
      /\ \A i \in DOMAIN more : i = last \/ (i \in DOMAIN q /\ more[i] = q[i])
      /\ \A i \in DOMAIN more : ~(last < i) /\ 0 < i
  BY Appends, Rows
<1>2. /\ HoldFirst(k, m, road, attempt) /\ NotOver(k, road, q) /\ Barred(k, m, road, attempt, w, q)
      /\ Freezes(k, m, road, q) /\ Undoes(k, m, road, w, q)
  BY DEF InOrder
<1> HIDE DEF more, last
<1>3. \A i : /\ x.type # "commit" /\ NoCommit(q, i) => NoCommit(more, i)
             /\ x.type # "rollback" /\ NoUndo(q, i) => NoUndo(more, i)
  BY <1>1 DEF NoCommit, NoUndo
<1>4. NoCommit(more, last) /\ NoUndo(more, last) BY <1>1 DEF NoCommit, NoUndo
<1>5. NotOver(k, road, more) BY <1>1, <1>2 DEF NotOver, MayAsk
<1>6. Barred(k, m, road, attempt, w, more)
  <2> SUFFICES ASSUME k.status \in {"starting", "playing"}
               PROVE  /\ \A i, j \in DOMAIN road :
                           road[i].type = "Prepare" /\ road[i].epoch = k.epoch => ~(i < j)
                      /\ \A i \in DOMAIN more : more[i].type = "bind" /\ more[i].epoch = k.epoch =>
                           Quiet(k.inbox[m], road, attempt) /\ NoCommit(more, i)
                      /\ m \in k.acks => Quiet(k.inbox[m], road, attempt) /\ NoCommit(more, 0) /\ AtPoint(k, w)
    BY DEF Barred
  <2>1. /\ \A i, j \in DOMAIN road :
             road[i].type = "Prepare" /\ road[i].epoch = k.epoch => ~(i < j)
        /\ \A i \in DOMAIN q : q[i].type = "bind" /\ q[i].epoch = k.epoch =>
             Quiet(k.inbox[m], road, attempt) /\ NoCommit(q, i)
        /\ m \in k.acks => Quiet(k.inbox[m], road, attempt) /\ NoCommit(q, 0) /\ AtPoint(k, w)
    BY <1>2 DEF Barred
  <2>2. /\ x.type = "bind" /\ x.epoch = k.epoch => Quiet(k.inbox[m], road, attempt)
        /\ x.type = "commit" => /\ \A i \in DOMAIN q : q[i].type = "bind" => q[i].epoch # k.epoch
                                /\ m \notin k.acks
    BY DEF MayAsk
  <2>3. ASSUME NEW i \in DOMAIN more, more[i].type = "bind", more[i].epoch = k.epoch
        PROVE  Quiet(k.inbox[m], road, attempt) /\ NoCommit(more, i)
    BY <1>1, <1>4, <2>2, <2>3, <1>3, <2>1
  <2> QED BY <2>1, <2>2, <2>3, <1>3
<1>7. Freezes(k, m, road, more)
  <2> SUFFICES ASSUME k.load # Nil, k.load.phase = "freezing", m \notin k.load.boundaries
               PROVE  /\ \A i, j \in DOMAIN road :
                           road[i].type = "Hold" /\ road[i].id = k.load.id => ~(i < j)
                      /\ \A i \in DOMAIN more :
                           more[i].type = "hash" /\ more[i].use = "chain" /\ more[i].id = k.load.id =>
                             road = <<>> /\ NoCommit(more, i) /\ NoUndo(more, i)
    BY DEF Freezes
  <2>1. /\ \A i, j \in DOMAIN road :
             road[i].type = "Hold" /\ road[i].id = k.load.id => ~(i < j)
        /\ \A i \in DOMAIN q : q[i].type = "hash" /\ q[i].use = "chain" /\ q[i].id = k.load.id =>
             road = <<>> /\ NoCommit(q, i) /\ NoUndo(q, i)
    BY <1>2 DEF Freezes
  <2>3. ASSUME NEW i \in DOMAIN more, more[i].type = "hash", more[i].use = "chain", more[i].id = k.load.id
        PROVE  road = <<>> /\ NoCommit(more, i) /\ NoUndo(more, i)
    BY <1>1, <1>4, <2>3, <1>3, <2>1 DEF MayAsk
  <2> QED BY <2>1, <2>3
<1>8. Undoes(k, m, road, w, more)
  <2> SUFFICES ASSUME k.load # Nil, m \in k.load.boundaries
               PROVE  /\ k.load.phase \in {"freezing", "staging"} => Lacks(road, "Commit") /\ NoCommit(more, 0)
                      /\ k.load.phase # "rolling_back" => Lacks(road, "Rollback") /\ NoUndo(more, 0)
                      /\ k.load.phase = "rolling_back" =>
                           /\ \A i, j \in DOMAIN road : road[i].type = "Rollback" /\ i < j => road[j].type # "Commit"
                           /\ \A i \in DOMAIN more : more[i].type = "rollback" /\ more[i].use = "chain" =>
                                NoCommit(more, i) /\ Lacks(road, "Commit")
                           /\ m \in k.load.rolledBack => NoCommit(more, 0) /\ Lacks(road, "Commit") /\ AtPoint(k, w)
    BY DEF Undoes
  <2>1. /\ k.load.phase \in {"freezing", "staging"} => Lacks(road, "Commit") /\ NoCommit(q, 0)
        /\ k.load.phase # "rolling_back" => Lacks(road, "Rollback") /\ NoUndo(q, 0)
        /\ k.load.phase = "rolling_back" =>
             /\ \A i, j \in DOMAIN road : road[i].type = "Rollback" /\ i < j => road[j].type # "Commit"
             /\ \A i \in DOMAIN q : q[i].type = "rollback" /\ q[i].use = "chain" =>
                  NoCommit(q, i) /\ Lacks(road, "Commit")
             /\ m \in k.load.rolledBack => NoCommit(q, 0) /\ Lacks(road, "Commit") /\ AtPoint(k, w)
    BY <1>2 DEF Undoes
  <2>2. /\ k.load.phase \in {"freezing", "staging"} => x.type # "commit"
        /\ k.load.phase # "rolling_back" => x.type # "rollback"
        /\ k.load.phase = "rolling_back" =>
             /\ x.type = "rollback" => Lacks(road, "Commit")
             /\ x.type = "commit" => /\ \A i \in DOMAIN q : ~(q[i].type = "rollback" /\ q[i].use = "chain")
                                     /\ m \notin k.load.rolledBack
    BY DEF MayAsk
  <2>3. ASSUME k.load.phase = "rolling_back", NEW i \in DOMAIN more, more[i].type = "rollback", more[i].use = "chain"
        PROVE  NoCommit(more, i) /\ Lacks(road, "Commit")
    BY <1>1, <1>4, <2>2, <2>3, <1>3, <2>1
  <2> QED BY <2>1, <2>2, <2>3, <1>3
<1> QED BY <1>2, <1>5, <1>6, <1>7, <1>8 DEF InOrder, more

\* A member follows another load when nothing of it is left to be committed.
LEMMA Reattempts ==
  ASSUME NEW k, NEW m, NEW road, NEW a, NEW a2, NEW w, NEW q, InOrder(k, m, road, a, w, q),
         \A i \in DOMAIN road : road[i].type \in {"Hold", "Commit"} => road[i].id # a2
  PROVE  InOrder(k, m, road, a2, w, q)
BY DEF InOrder, HoldFirst, Quiet, Barred

\* A member takes what is next on its road, and asks its machine for something.
LEMMA AsksFor ==
  ASSUME NEW k \in Coordinator, NEW k2 \in Coordinator, NEW n \in Nat, NEW m \in Member, NEW c, NEW w, NEW q,
         Fits(k, n, m, c, w, q), NEW d \in Client, NEW left \in Seq(Request), NEW x \in Request,
         Alike(k, k2), k.inbox[m] = <<>> => k2.inbox[m] = <<>>,
         Thins(Road(k2, m, d), Road(k, m, c)), Loosened(left, q), Waits(left) = Waits(q),
         \/ d.attempt = c.attempt
         \/ \A i \in DOMAIN Road(k2, m, d) :
              Road(k2, m, d)[i].type \in {"Hold", "Commit"} => Road(k2, m, d)[i].id # d.attempt,
         ClientOK(n, d), RequestOK(n, k.epoch, x),
         d.handling = (c.handling \/ x.use = "chain"), x.use = "chain" => ~c.handling,
         MayAsk(k2, m, Road(k2, m, d), d.attempt, left, x)
  PROVE  Fits(k2, n, m, d, w, Append(left, x))
<1> DEFINE road == Road(k, m, c)
           road2 == Road(k2, m, d)
<1>1. c \in Client /\ w \in Machine /\ q \in Seq(Request) /\ Awaits(c, w, q) BY DEF Fits, Typed
<1>2. road \in Seq(Notice) /\ road2 \in Seq(Notice) BY <1>1, OwnRoad
<1>3. /\ \A i \in DOMAIN road : NoticeOK(n, k.epoch, road[i])
      /\ \A i \in DOMAIN q : RequestOK(n, k.epoch, q[i])
      /\ MachineOK(n, w) /\ Copied(w) /\ Undoable(k, w)
      /\ InOrder(k, m, road, c.attempt, w, q)
  BY DEF Fits, Numbered
<1>4. \A i \in DOMAIN road2 : NoticeOK(n, k.epoch, road2[i])
  <2>1. Thins(road2, road) OBVIOUS
  <2> HIDE DEF road, road2
  <2> QED BY <1>2, <1>3, <2>1, ThinRoad
<1>5. k2.epoch = k.epoch /\ c.attempt \in Nat /\ d.attempt \in Nat BY <1>1 DEF Alike, Client
<1>7. Append(left, x) \in Seq(Request) /\ \A i \in DOMAIN Append(left, x) : RequestOK(n, k.epoch, Append(left, x)[i])
  BY <1>1, <1>3, EasedOK, Appends
<1>8. Numbered(n, k2.epoch, road2, d, w, Append(left, x)) BY <1>3, <1>4, <1>5, <1>7 DEF Numbered
<1>9. Undoable(k2, w) /\ Typed(d, w, Append(left, x)) BY <1>1, <1>3, <1>7 DEF Undoable, Alike, Typed
<1>10. \A i \in DOMAIN road : road[i].type \in LoadNotice => road[i].id # 0 BY <1>3 DEF NoticeOK
<1>11. Eased(left, q) /\ Unmoved(w, w) BY <1>1, EasedLoosened DEF Unmoved
<1>12. InOrder(k2, m, road2, c.attempt, w, left)
  <2>1. Thins(road2, road) /\ c.attempt \in {c.attempt, 0} OBVIOUS
  <2> HIDE DEF road, road2
  <2> QED BY <1>1, <1>2, <1>3, <1>5, <1>10, <1>11, <2>1, Eases
<1>13. InOrder(k2, m, road2, d.attempt, w, left)
  <2>1. \/ d.attempt = c.attempt
        \/ \A i \in DOMAIN road2 : road2[i].type \in {"Hold", "Commit"} => road2[i].id # d.attempt
    OBVIOUS
  <2> HIDE DEF road, road2
  <2> QED BY <1>12, <2>1, Reattempts
<1>14. InOrder(k2, m, road2, d.attempt, w, Append(left, x))
  <2>1. MayAsk(k2, m, road2, d.attempt, left, x) OBVIOUS
  <2> HIDE DEF road, road2
  <2> QED BY <1>13, <2>1, Adds
<1>15. Awaits(d, w, Append(left, x))
  <2>1. CASE x.use # "chain" BY <2>1, WaitsAppend, <1>1, AwaitsSame DEF Client
  <2>2. CASE x.use = "chain"
    <3>1. Waits(q) = {} /\ ~Prepares(w) BY <2>2, <1>1 DEF Awaits, Waits, Prepares
    <3>2. Waits(Append(left, x)) = {Len(left) + 1} BY <2>2, <3>1, WaitsAppend
    <3>3. d.handling BY <2>2
    <3> QED BY <3>1, <3>2, <3>3 DEF Awaits, Waits, Prepares
  <2> QED BY <2>1, <2>2
<1> QED BY <1>3, <1>8, <1>9, <1>14, <1>15 DEF Fits

-----------------------------------------------------------------------------
(* What arrives, and what is done about it.                                *)

Good == LoadInv' /\ Undone(coord, coord', worker')

\* What is read next is on the road, and what is left of the road after it.
LEMMA Heads ==
  ASSUME NEW k \in Coordinator, NEW m \in Member, NEW c \in Client
  PROVE  /\ k.inbox[m] # <<>> =>
              \E i \in DOMAIN Road(k, m, c) :
                /\ Road(k, m, c)[i] = Head(k.inbox[m])
                /\ (\A j \in DOMAIN Road(k, m, c) : ~(i < j)) => Tail(k.inbox[m]) = <<>>
         /\ c.chain # <<>> =>
              /\ 1 \in DOMAIN Road(k, m, c) /\ Road(k, m, c)[1] = Head(c.chain) /\ Road(k, m, c) # <<>>
              /\ Road(k, m, [c EXCEPT !.chain = Tail(@)]) = Tail(Road(k, m, c))
              /\ (\A j \in DOMAIN Road(k, m, c) : ~(1 < j)) =>
                   Tail(Road(k, m, c)) = <<>> /\ k.inbox[m] = <<>>
<1> DEFINE s == c.chain
           t == k.inbox[m]
           road == Road(k, m, c)
<1>1. s \in Seq(Notice) /\ t \in Seq(Notice) /\ road \in Seq(Notice) /\ road = s \o t
  BY OwnRoad DEF Road
<1>2. Road(k, m, [c EXCEPT !.chain = Tail(@)]) = Tail(s) \o t BY DEF Road, Client
<1> HIDE DEF s, t, road
<1>3. /\ DOMAIN road = 1..(Len(s) + Len(t)) /\ Len(road) = Len(s) + Len(t)
      /\ \A i \in 1..Len(s) : road[i] = s[i]
      /\ \A i \in 1..Len(t) : road[Len(s) + i] = t[i]
      /\ Len(s) \in Nat /\ Len(t) \in Nat
  BY <1>1, Roads, Rows
<1>4. ASSUME t # <<>>
      PROVE  \E i \in DOMAIN road : /\ road[i] = Head(t)
                                    /\ (\A j \in DOMAIN road : ~(i < j)) => Tail(t) = <<>>
  <2>1. Head(t) = t[1] /\ Len(t) # 0 /\ Tail(t) \in Seq(Notice) /\ Len(Tail(t)) = Len(t) - 1
    BY <1>1, <1>4, Tails
  <2>2. Len(s) + 1 \in DOMAIN road /\ road[Len(s) + 1] = Head(t) BY <1>3, <2>1
  <2>3. ASSUME \A j \in DOMAIN road : ~(Len(s) + 1 < j) PROVE Tail(t) = <<>>
    BY <1>3, <2>3, <2>1, Rows
  <2> QED BY <2>2, <2>3
<1>5. ASSUME s # <<>>
      PROVE  /\ 1 \in DOMAIN road /\ road[1] = Head(s) /\ road # <<>> /\ Tail(s) \o t = Tail(road)
             /\ (\A j \in DOMAIN road : ~(1 < j)) => Tail(road) = <<>> /\ t = <<>>
  <2>1. Head(s) = s[1] /\ Len(s) # 0 BY <1>1, <1>5, Tails
  <2>2. 1 \in DOMAIN road /\ road[1] = Head(s) BY <1>3, <2>1
  <2>3. Tail(s) \o t = Tail(road) /\ road # <<>> BY <1>1, <1>5, RoadHandled
  <2>4. ASSUME \A j \in DOMAIN road : ~(1 < j) PROVE Tail(road) = <<>> /\ t = <<>>
    <3>1. Len(s) = 1 /\ Len(t) = 0
      <4>1. CASE Len(s) + Len(t) > 1 BY <1>3, <4>1, <2>4
      <4>2. CASE ~(Len(s) + Len(t) > 1)
        <5>1. Len(s) >= 1 /\ Len(t) >= 0 /\ Len(s) + Len(t) <= 1 BY <1>3, <2>1, <4>2
        <5> QED BY <1>3, <5>1
      <4> QED BY <4>1, <4>2
    <3>2. t = <<>> BY <3>1, <1>1, Rows
    <3>3. Tail(road) \in Seq(Notice) /\ Len(Tail(road)) = Len(road) - 1 BY <1>1, <2>3, Tails
    <3>4. Len(Tail(road)) = 0 BY <3>1, <3>3, <1>3
    <3> QED BY <3>2, <3>3, <3>4, Rows
  <2> QED BY <2>2, <2>3, <2>4
<1> QED BY <1>2, <1>4, <1>5 DEF s, t, road

\* What the chain reads next, for the client that took it.
LEMMA ChainHeads ==
  ASSUME NEW k \in Coordinator, NEW m \in Member, NEW c \in Client, c.chain # <<>>,
         NEW d, d = [c EXCEPT !.chain = Tail(@)]
  PROVE  /\ 1 \in DOMAIN Road(k, m, c) /\ Road(k, m, c)[1] = Head(c.chain) /\ Road(k, m, c) # <<>>
         /\ Road(k, m, d) = Tail(Road(k, m, c))
         /\ (\A j \in DOMAIN Road(k, m, c) : ~(1 < j)) =>
              Tail(Road(k, m, c)) = <<>> /\ k.inbox[m] = <<>>
  BY Heads

WithBox(k, m, box) == [k EXCEPT !.inbox[m] = box]

\* One inbox changes.
LEMMA Inboxes ==
  ASSUME NEW k \in Coordinator, NEW m \in Member, NEW box \in Seq(Notice)
  PROVE  /\ WithBox(k, m, box) \in Coordinator /\ Alike(k, WithBox(k, m, box))
         /\ WithBox(k, m, box).inbox[m] = box
         /\ \A x \in Member \ {m} : WithBox(k, m, box).inbox[x] = k.inbox[x]
         /\ WithBox(k, m, box).connected = k.connected /\ WithBox(k, m, box).transport = k.transport
<1> DEFINE k2 == WithBox(k, m, box)
<1>1. k.inbox \in [Member -> Seq(Notice)] BY DEF Coordinator
<1>2. [k.inbox EXCEPT ![m] = box] \in [Member -> Seq(Notice)] BY <1>1
<1>3. k2 = [k EXCEPT !.inbox = [k.inbox EXCEPT ![m] = box]] BY DEF WithBox
<1> HIDE DEF k2
<1>4. k2 \in Coordinator BY <1>2, <1>3 DEF Coordinator
<1> QED BY <1>1, <1>4, <1>3 DEF k2, Coordinator, Alike

\* What the invariant says of a member.
LEMMA Members ==
  ASSUME LoadInv, NEW m \in Member
  PROVE  /\ spent.load \in Nat /\ coord \in Coordinator /\ linked \subseteq Guest
         /\ spent \in [load : Nat, resume : Nat, fault : Nat, stuck : BOOLEAN]
         /\ client \in [Member -> Client] /\ worker \in [Member -> Machine] /\ jobs \in [Member -> Seq(Request)]
         /\ World(coord, spent.load, client, worker, jobs) /\ Phased(coord, spent.load)
         /\ Fits(coord, spent.load, m, client[m], worker[m], jobs[m])
         /\ client[m] \in Client /\ worker[m] \in Machine /\ jobs[m] \in Seq(Request)
         /\ Sound(coord, spent.load, worker[m])
         /\ ClientOK(spent.load, client[m]) /\ Awaits(client[m], worker[m], jobs[m])
         /\ \A i \in DOMAIN jobs[m] : RequestOK(spent.load, coord.epoch, jobs[m][i])
         /\ \A i \in DOMAIN Road(coord, m, client[m]) :
              NoticeOK(spent.load, coord.epoch, Road(coord, m, client[m])[i])
         /\ coord.inbox[m] \in Seq(Notice) /\ client[m].chain \in Seq(Notice)
         /\ Road(coord, m, client[m]) \in Seq(Notice)
         /\ HoldFirst(coord, m, Road(coord, m, client[m]), client[m].attempt)
         /\ NotOver(coord, Road(coord, m, client[m]), jobs[m])
         /\ Barred(coord, m, Road(coord, m, client[m]), client[m].attempt, worker[m], jobs[m])
         /\ Freezes(coord, m, Road(coord, m, client[m]), jobs[m])
         /\ Undoes(coord, m, Road(coord, m, client[m]), worker[m], jobs[m])
<1>1. World(coord, spent.load, client, worker, jobs) /\ linked \subseteq Guest
      /\ spent \in [load : Nat, resume : Nat, fault : Nat, stuck : BOOLEAN]
  BY DEF LoadInv
<1>2. spent.load \in Nat BY <1>1
<1>3. Typed(client[m], worker[m], jobs[m])
      /\ Numbered(spent.load, coord.epoch, Road(coord, m, client[m]), client[m], worker[m], jobs[m])
      /\ Copied(worker[m]) /\ Undoable(coord, worker[m]) /\ coord \in Coordinator
  BY <1>1, WorldIs
<1>4. client[m] \in Client /\ worker[m] \in Machine /\ jobs[m] \in Seq(Request) BY <1>3 DEF Typed
<1>5. Sound(coord, spent.load, worker[m]) BY <1>3, <1>4 DEF Sound, Numbered
<1>6. /\ ClientOK(spent.load, client[m])
      /\ \A i \in DOMAIN jobs[m] : RequestOK(spent.load, coord.epoch, jobs[m][i])
      /\ \A i \in DOMAIN Road(coord, m, client[m]) :
           NoticeOK(spent.load, coord.epoch, Road(coord, m, client[m])[i])
  BY <1>3 DEF Numbered
<1>7. coord.inbox[m] \in Seq(Notice) /\ client[m].chain \in Seq(Notice)
      /\ Road(coord, m, client[m]) \in Seq(Notice)
  BY <1>3, <1>4, OwnRoad
<1> QED BY <1>1, <1>2, <1>3, <1>4, <1>5, <1>6, <1>7, WorldIs

\* A member's own step, with what the coordinator knows unchanged.
LEMMA OwnStep ==
  ASSUME LoadInv, NEW m \in Member, NEW k2 \in Coordinator, Alike(coord, k2),
         \A x \in Member \ {m} : k2.inbox[x] = coord.inbox[x],
         NEW d, NEW v, NEW q2, Fits(k2, spent.load, m, d, v, q2),
         client' = [client EXCEPT ![m] = d], worker' = [worker EXCEPT ![m] = v],
         jobs' = [jobs EXCEPT ![m] = q2]
  PROVE  /\ World(k2, spent.load, client', worker', jobs')
         /\ client'[m] = d /\ worker'[m] = v /\ jobs'[m] = q2
BY Members, Alone

\* A member can be bound to the barrier it reads when it follows no load.
LEMMA MayBind ==
  ASSUME NEW k, NEW m, NEW road, NEW attempt, NEW q, NEW x,
         x.type = "bind",
         k.status \in {"starting", "playing"} /\ x.epoch = k.epoch => Quiet(k.inbox[m], road, attempt)
  PROVE  MayAsk(k, m, road, attempt, q, x)
  BY DEF MayAsk

\* A barrier is read: the machine is asked to be bound to it.
LEMMA BindsTo ==
  ASSUME LoadInv, NEW m \in Member, NEW k2 \in Coordinator, Alike(coord, k2),
         \A x \in Member \ {m} : k2.inbox[x] = coord.inbox[x],
         coord.inbox[m] = <<>> => k2.inbox[m] = <<>>,
         NEW c \in Client, ClientOK(spent.load, c), c.handling = client[m].handling,
         c.attempt = 0, client[m].attempt = 0,
         Thins(Road(k2, m, c), Road(coord, m, client[m])),
         NEW event \in Notice, event.id <= spent.load, event.epoch <= coord.epoch,
         coord.status \in {"starting", "playing"} /\ event.epoch = coord.epoch => k2.inbox[m] = <<>>,
         Binds(m, c, event), worker' = worker
  PROVE  World(k2, spent.load, client', worker', jobs')
<1> DEFINE d == [c EXCEPT !.incoming = "none"]
           q == jobs[m]
           left == Forget(q, {"import", "bind"})
           x == BindJob(event.id, event.epoch)
<1>1. /\ coord \in Coordinator /\ client \in [Member -> Client] /\ jobs \in [Member -> Seq(Request)]
      /\ worker \in [Member -> Machine] /\ q \in Seq(Request) /\ client[m] \in Client
      /\ Fits(coord, spent.load, m, client[m], worker[m], q) /\ spent.load \in Nat
      /\ \A i \in DOMAIN Road(coord, m, client[m]) :
           NoticeOK(spent.load, coord.epoch, Road(coord, m, client[m])[i])
  BY Members
<1>2. /\ client' = [client EXCEPT ![m] = d] /\ jobs' = [jobs EXCEPT ![m] = Append(left, x)]
      /\ worker' = [worker EXCEPT ![m] = worker[m]]
  BY <1>1 DEF Binds
<1>3. /\ d \in Client /\ d.attempt = 0 /\ d.chain = c.chain /\ d.handling = c.handling /\ d.incoming = "none"
  BY DEF Client
<1>4. ClientOK(spent.load, d) BY <1>3 DEF ClientOK
<1>5. event.id \in Nat /\ event.epoch \in Nat BY DEF Notice
<1>6. x \in Request /\ x.type = "bind" /\ x.id = event.id /\ x.use = "bind" /\ x.epoch = event.epoch
  BY <1>5, Jobs
<1>7. RequestOK(spent.load, coord.epoch, x) BY <1>6 DEF RequestOK
<1>8. left \in Seq(Request) /\ Loosened(left, q) /\ Waits(left) = Waits(q)
  BY <1>1, Forgets, WaitsForgotten
<1>9. Road(k2, m, d) = Road(k2, m, c) BY <1>3 DEF Road
<1>10. k2.epoch = coord.epoch /\ k2.status = coord.status BY DEF Alike
<1> DEFINE road2 == Road(k2, m, d)
<1>11. \A i \in DOMAIN road2 : road2[i].type = "Commit" => road2[i].id # 0
  <2>1. \A i \in DOMAIN Road(k2, m, c) : NoticeOK(spent.load, coord.epoch, Road(k2, m, c)[i])
    BY <1>1, OwnRoad, ThinRoad
  <2> QED BY <1>9, <2>1 DEF NoticeOK, LoadNotice
<1>12. k2.status \in {"starting", "playing"} /\ x.epoch = k2.epoch => Quiet(k2.inbox[m], road2, d.attempt)
  <2> HIDE DEF road2
  <2> QED BY <1>3, <1>6, <1>10, <1>11 DEF Quiet
<1>13. MayAsk(k2, m, Road(k2, m, d), d.attempt, left, x) BY <1>6, <1>12, MayBind
<1> HIDE DEF d, x, left
<1>14. Fits(k2, spent.load, m, d, worker[m], Append(left, x))
  BY <1>1, <1>3, <1>6, <1>9, <1>4, <1>7, <1>8, <1>13, AsksFor DEF Client
<1> QED BY <1>2, <1>14, OwnStep

\* Deliver: an event goes from the inbox to the chain, or is handled at once.
LEMMA DeliverKept ==
  ASSUME LoadInv, NEW m \in Member, Deliver(m)
  PROVE  Good
<1> DEFINE k2 == [coord EXCEPT !.inbox[m] = Tail(@)]
           event == Head(coord.inbox[m])
           c == client[m]
           q == jobs[m]
           w == worker[m]
           chained == [c EXCEPT !.chain = Append(@, event)]
<1>1. /\ coord \in Coordinator /\ client \in [Member -> Client] /\ jobs \in [Member -> Seq(Request)]
      /\ worker \in [Member -> Machine] /\ q \in Seq(Request) /\ c \in Client /\ w \in Machine
      /\ spent.load \in Nat /\ linked \subseteq Guest
      /\ spent \in [load : Nat, resume : Nat, fault : Nat, stuck : BOOLEAN]
      /\ coord.inbox[m] \in Seq(Notice) /\ c.chain \in Seq(Notice)
  BY Members
<1>1a. /\ Fits(coord, spent.load, m, c, w, q) /\ Sound(coord, spent.load, w)
       /\ ClientOK(spent.load, c) /\ Awaits(c, w, q)
       /\ \A i \in DOMAIN q : RequestOK(spent.load, coord.epoch, q[i])
       /\ \A i \in DOMAIN Road(coord, m, c) : NoticeOK(spent.load, coord.epoch, Road(coord, m, c)[i])
       /\ Barred(coord, m, Road(coord, m, c), c.attempt, w, q)
  BY Members
<1>1b. c = client[m] /\ q = jobs[m] /\ w = worker[m] OBVIOUS
<1>2. coord.inbox[m] # <<>> /\ coord' = k2 /\ linked' = linked /\ worker' = worker /\ spent' = spent
  BY DEF Deliver
<1>3. event \in Notice /\ Tail(coord.inbox[m]) \in Seq(Notice) BY <1>1, <1>2, Tails
<1>4. /\ k2 \in Coordinator /\ Alike(coord, k2) /\ k2.inbox[m] = Tail(coord.inbox[m])
      /\ \A x \in Member \ {m} : k2.inbox[x] = coord.inbox[x]
  <2> DEFINE box == Tail(coord.inbox[m])
  <2>1. k2 = WithBox(coord, m, box) /\ box \in Seq(Notice) BY <1>3 DEF WithBox
  <2> HIDE DEF k2, box
  <2>2. /\ WithBox(coord, m, box) \in Coordinator /\ Alike(coord, WithBox(coord, m, box))
        /\ WithBox(coord, m, box).inbox[m] = box
        /\ \A x \in Member \ {m} : WithBox(coord, m, box).inbox[x] = coord.inbox[x]
    BY <1>1, <2>1, Inboxes
  <2> QED BY <2>1, <2>2 DEF box
<1> HIDE DEF c, q, w
<1>5. PICK i \in DOMAIN Road(coord, m, c) :
        /\ Road(coord, m, c)[i] = event
        /\ (\A j \in DOMAIN Road(coord, m, c) : ~(i < j)) => Tail(coord.inbox[m]) = <<>>
  BY <1>1, <1>2, Heads
<1> HIDE DEF event
<1>6. NoticeOK(spent.load, coord.epoch, event) BY <1>1a, <1>5
<1>7. /\ chained \in Client /\ chained.chain = Append(c.chain, event) /\ chained.attempt = c.attempt
      /\ chained.handling = c.handling /\ chained.incoming = c.incoming
  BY <1>1, <1>3, Appends DEF Client
<1> HIDE DEF chained, k2
<1>8. Road(k2, m, chained) = Road(coord, m, c)
  <2>1. \A s, t \in Seq(Notice) : t # <<>> => Append(s, Head(t)) \o Tail(t) = s \o t
    BY RoadDelivered
  <2>2. Append(c.chain, Head(coord.inbox[m])) \o Tail(coord.inbox[m]) = c.chain \o coord.inbox[m]
    BY <1>1, <1>2, <2>1, Zenon
  <2> QED BY <1>4, <1>7, <2>2 DEF Road, event
<1>9. \A d \in Client : d.chain = c.chain => Thins(Road(k2, m, d), Road(coord, m, c))
  BY <1>1, <1>2, <1>4, Skipped DEF Road
<1>10. event.type \notin {"Stop", "Receive"} => ClientOK(spent.load, chained)
  BY <1>1, <1>3, Appends, Rows, <1>1a, <1>7 DEF ClientOK
<1>11. worker' = [worker EXCEPT ![m] = w] /\ Unmoved(w, w) BY <1>1, <1>1b, <1>2 DEF Unmoved
<1>12. Thins(Road(coord, m, c), Road(coord, m, c)) /\ Eased(q, q) BY <1>1, OwnRoad, Same, EasedSame
<1>13. World(k2, spent.load, client', worker', jobs')
  <2>1. CASE event.type = "Stop"
    <3>1. client' = [client EXCEPT ![m] = Cleared(c)] /\ jobs' = [jobs EXCEPT ![m] = Clearing(c, q)]
      BY <2>1 DEF Deliver, Clear, event, c, q
    <3>2. /\ Cleared(c) \in Client /\ ClientOK(spent.load, Cleared(c))
          /\ Cleared(c).attempt = 0 /\ Cleared(c).chain = c.chain /\ Cleared(c).handling = c.handling
          /\ \A j \in DOMAIN Clearing(c, q) : RequestOK(spent.load, coord.epoch, Clearing(c, q)[j])
      BY <1>1, <1>1a, ClearedOK, ClearingOK
    <3>3. Clearing(c, q) \in Seq(Request) /\ Eased(Clearing(c, q), q) /\ Waits(Clearing(c, q)) = Waits(q)
      BY <1>1, Clears, WaitsForgotten
    <3>4. Awaits(Cleared(c), w, Clearing(c, q)) BY <1>1, <1>1a, <3>2, <3>3, AwaitsSame
    <3>5. coord.inbox[m] = <<>> => k2.inbox[m] = <<>> BY <1>2
    <3>6. Thins(Road(k2, m, Cleared(c)), Road(coord, m, c)) /\ Cleared(c).attempt \in {c.attempt, 0}
      BY <1>9, <3>2
    <3>7. Fits(k2, spent.load, m, Cleared(c), w, Clearing(c, q))
      BY <1>1, <1>1a, <1>4, <1>11, <3>2, <3>3, <3>4, <3>5, <3>6, Steps
    <3> QED BY <1>4, <1>11, <3>1, <3>7, OwnStep
  <2>2. CASE event.type = "Prepare" /\ c.attempt = 0
    <3>1. Binds(m, c, event) BY <2>2 DEF Deliver, event, c
    <3>2. event.id <= spent.load /\ event.epoch <= coord.epoch BY <1>6, <2>2 DEF NoticeOK
    <3>3. coord.status \in {"starting", "playing"} /\ event.epoch = coord.epoch => k2.inbox[m] = <<>>
      BY <1>1a, <1>4, <1>5, <2>2 DEF Barred
    <3>4. coord.inbox[m] = <<>> => k2.inbox[m] = <<>> BY <1>2
    <3> QED BY <1>1, <1>1a, <1>2, <1>3, <1>4, <1>1b, <1>9, <2>2, <3>1, <3>2, <3>3, <3>4, BindsTo
  <2>3. CASE event.type = "Receive"
    <3> DEFINE d == [c EXCEPT !.incoming = IF c.attempt = event.id THEN "asked" ELSE @]
    <3>2. client' = [client EXCEPT ![m] = d] /\ jobs' = [jobs EXCEPT ![m] = q]
      BY <1>1, <1>1b, <2>3 DEF Deliver, event, c
    <3>3. /\ d \in Client /\ d.attempt = c.attempt /\ d.chain = c.chain /\ d.handling = c.handling
          /\ d.incoming = IF c.attempt = event.id THEN "asked" ELSE c.incoming
      BY <1>1 DEF Client
    <3> HIDE DEF d
    <3>4. event.id # 0 BY <1>6, <2>3 DEF NoticeOK, LoadNotice
    <3>5. ClientOK(spent.load, d) BY <1>1a, <3>3, <3>4 DEF ClientOK
    <3>6. Awaits(d, w, q) BY <1>1, <1>1a, <3>3, AwaitsSame
    <3>7. coord.inbox[m] = <<>> => k2.inbox[m] = <<>> BY <1>2
    <3>8. Thins(Road(k2, m, d), Road(coord, m, c)) /\ d.attempt \in {c.attempt, 0} BY <1>9, <3>3
    <3>9. Fits(k2, spent.load, m, d, w, q)
      BY <1>1, <1>1a, <1>4, <1>11, <1>12, <3>3, <3>5, <3>6, <3>7, <3>8, Steps
    <3> QED BY <1>4, <1>11, <3>2, <3>9, OwnStep
  <2>4. CASE event.type = "Rollback"
    <3> DEFINE d == [chained EXCEPT !.attempt = IF @ = 0 THEN event.id ELSE @, !.incoming = "none"]
               q2 == Forget(q, {"import"})
    <3>1. client' = [client EXCEPT ![m] = d] /\ jobs' = [jobs EXCEPT ![m] = q2]
      BY <2>4 DEF Deliver, event, chained, c, q
    <3>2. /\ d \in Client /\ d.attempt = (IF c.attempt = 0 THEN event.id ELSE c.attempt)
          /\ d.chain = chained.chain /\ d.handling = c.handling /\ d.incoming = "none"
      BY <1>3, <1>7 DEF Client, Notice
    <3>3. Road(k2, m, d) = Road(coord, m, c) BY <1>8, <3>2 DEF Road
    <3>4. /\ q2 \in Seq(Request) /\ Loosened(q2, q) /\ Eased(q2, q) /\ Waits(q2) = Waits(q)
      BY <1>1, Forgets, WaitsForgotten, EasedLoosened
    <3>5. \A j \in DOMAIN q2 : RequestOK(spent.load, coord.epoch, q2[j])
      BY <1>1, <1>1a, <3>4, EasedOK
    <3> HIDE DEF d, q2
    <3>6. ClientOK(spent.load, d) BY <1>6, <1>10, <2>4, <1>7, <3>2 DEF NoticeOK, ClientOK
    <3>7. Awaits(d, w, q2) BY <1>1, <1>1a, <3>2, <3>4, AwaitsSame
    <3>8. coord.inbox[m] = <<>> => k2.inbox[m] = <<>> BY <1>2
    <3>9. \/ d.attempt \in {c.attempt, 0}
          \/ /\ coord.inbox[m] # <<>>
             /\ \E j \in DOMAIN Road(coord, m, c) :
                  Road(coord, m, c)[j].type = "Rollback" /\ Road(coord, m, c)[j].id = d.attempt
      BY <1>2, <1>5, <2>4, <3>2
    <3>10. Fits(k2, spent.load, m, d, w, q2)
      BY <1>1, <1>1a, <1>4, <1>11, <1>12, <3>2, <3>3, <3>4, <3>5, <3>6, <3>7, <3>8, <3>9, Steps
    <3> QED BY <1>4, <1>11, <3>1, <3>10, OwnStep
  <2>5. CASE event.type \notin {"Stop", "Receive", "Rollback"} /\ ~(event.type = "Prepare" /\ c.attempt = 0)
    <3>1. client' = [client EXCEPT ![m] = chained] /\ jobs' = jobs
      BY <2>5 DEF Deliver, event, chained, c, q
    <3>2. jobs' = [jobs EXCEPT ![m] = q] BY <1>1, <1>1b, <3>1
    <3>3. ClientOK(spent.load, chained) BY <1>10, <2>5
    <3>4. Awaits(chained, w, q) BY <1>1, <1>1a, <1>7, AwaitsSame
    <3>5. coord.inbox[m] = <<>> => k2.inbox[m] = <<>> BY <1>2
    <3>6. chained.attempt \in {c.attempt, 0} BY <1>7
    <3>7. Fits(k2, spent.load, m, chained, w, q)
      BY <1>1, <1>1a, <1>4, <1>7, <1>8, <1>11, <1>12, <3>3, <3>4, <3>5, <3>6, Steps
    <3> QED BY <1>4, <1>11, <3>1, <3>2, <3>7, OwnStep
  <2> QED BY <2>1, <2>2, <2>3, <2>4, <2>5
<1>14. Undone(coord, coord', worker') BY <1>2, <1>4 DEF Undone, Alike
<1> QED BY <1>1, <1>2, <1>13, <1>14 DEF Good, LoadInv

\* The request a member makes on an event of the load it follows.
AskedBy(event) ==
  CASE event.type = "Stage" -> "prepare" [] event.type = "Commit" -> "commit"
    [] event.type = "Rollback" -> "rollback" [] event.type = "Finish" -> "finish"

\* The next event of the load a member follows may be acted upon.
LEMMA MayAskNext ==
  ASSUME NEW k, NEW m, NEW road \in Seq(Notice), NEW attempt, NEW w, NEW q, road # <<>>,
         InOrder(k, m, road, attempt, w, q),
         Head(road).type \in {"Stage", "Commit", "Rollback", "Finish"}, Head(road).id = attempt,
         NEW x, x.type = AskedBy(Head(road)), x.id = attempt
  PROVE  MayAsk(k, m, Tail(road), attempt, q, x)
<1> DEFINE event == Head(road)
<1>1. /\ HoldFirst(k, m, road, attempt) /\ NotOver(k, road, q) /\ Barred(k, m, road, attempt, w, q)
      /\ Freezes(k, m, road, q) /\ Undoes(k, m, road, w, q)
  BY DEF InOrder
<1>2. /\ 1 \in DOMAIN road /\ road[1] = event
      /\ \A j \in DOMAIN Tail(road) : j + 1 \in DOMAIN road /\ Tail(road)[j] = road[j + 1] /\ 1 < j + 1
  BY Tails, Rows
<1>3. /\ event.type \in {"Stage", "Commit", "Rollback", "Finish"} /\ event.id = attempt
      /\ x.type = "prepare" <=> event.type = "Stage"
      /\ x.type = "commit" <=> event.type = "Commit"
      /\ x.type = "rollback" <=> event.type = "Rollback"
      /\ x.type = "finish" <=> event.type = "Finish"
      /\ x.type \in {"prepare", "commit", "rollback", "finish"}
  BY DEF AskedBy
<1> HIDE DEF event
<1>5. ASSUME x.type = "commit" PROVE ~Quiet(k.inbox[m], road, attempt) /\ ~Lacks(road, "Commit")
  BY <1>2, <1>3, <1>5 DEF Quiet, Lacks
<1>6. ASSUME k.status \in {"starting", "playing"}, x.type = "commit"
      PROVE  /\ \A i \in DOMAIN q : q[i].type = "bind" => q[i].epoch # k.epoch
             /\ m \notin k.acks
  BY <1>1, <1>5, <1>6 DEF Barred
<1>7. ASSUME k.load # Nil, k.load.phase = "freezing", m \notin k.load.boundaries
      PROVE  \A i \in DOMAIN q : ~(q[i].type = "hash" /\ q[i].use = "chain" /\ q[i].id = k.load.id)
  BY <1>1, <1>7 DEF Freezes
<1>8. ASSUME k.load # Nil, m \in k.load.boundaries
      PROVE  /\ k.load.phase \in {"freezing", "staging"} => x.type # "commit"
             /\ k.load.phase # "rolling_back" => x.type # "rollback"
             /\ k.load.phase = "rolling_back" =>
                  /\ x.type = "rollback" => Lacks(Tail(road), "Commit")
                  /\ x.type = "commit" => /\ \A i \in DOMAIN q : ~(q[i].type = "rollback" /\ q[i].use = "chain")
                                          /\ m \notin k.load.rolledBack
  <2>1. /\ k.load.phase \in {"freezing", "staging"} => Lacks(road, "Commit") /\ NoCommit(q, 0)
        /\ k.load.phase # "rolling_back" => Lacks(road, "Rollback") /\ NoUndo(q, 0)
        /\ k.load.phase = "rolling_back" =>
             /\ \A i, j \in DOMAIN road : road[i].type = "Rollback" /\ i < j => road[j].type # "Commit"
             /\ \A i \in DOMAIN q : q[i].type = "rollback" /\ q[i].use = "chain" =>
                  NoCommit(q, i) /\ Lacks(road, "Commit")
             /\ m \in k.load.rolledBack => NoCommit(q, 0) /\ Lacks(road, "Commit") /\ AtPoint(k, w)
    BY <1>1, <1>8 DEF Undoes
  <2>2. x.type = "rollback" => ~Lacks(road, "Rollback") BY <1>2, <1>3 DEF Lacks
  <2>3. ASSUME k.load.phase = "rolling_back", x.type = "rollback" PROVE Lacks(Tail(road), "Commit")
    BY <1>2, <1>3, <2>1, <2>3 DEF Lacks
  <2> QED BY <1>5, <2>1, <2>2, <2>3
<1> QED BY <1>3, <1>1, <1>2, <1>6, <1>7, <1>8 DEF MayAsk, NotOver

\* HandleLoad: the next event of the chain is acted upon, or dropped.
LEMMA HandleLoadKept ==
  ASSUME LoadInv, NEW m \in Member, HandleLoad(m)
  PROVE  Good
<1> DEFINE event == Head(client[m].chain)
           c == client[m]
           d == [client[m] EXCEPT !.chain = Tail(@)]
           q == jobs[m]
           w == worker[m]
           n == spent.load
           road == Road(coord, m, c)
<1>1. /\ coord \in Coordinator /\ client \in [Member -> Client] /\ jobs \in [Member -> Seq(Request)]
      /\ worker \in [Member -> Machine] /\ q \in Seq(Request) /\ c \in Client /\ w \in Machine
      /\ n \in Nat /\ linked \subseteq Guest
      /\ spent \in [load : Nat, resume : Nat, fault : Nat, stuck : BOOLEAN]
      /\ coord.inbox[m] \in Seq(Notice) /\ c.chain \in Seq(Notice) /\ road \in Seq(Notice)
      /\ Fits(coord, n, m, c, w, q) /\ Sound(coord, n, w)
      /\ ClientOK(n, c) /\ Awaits(c, w, q)
  BY Members
<1>2. /\ \A i \in DOMAIN q : RequestOK(n, coord.epoch, q[i])
      /\ \A i \in DOMAIN road : NoticeOK(n, coord.epoch, road[i])
      /\ HoldFirst(coord, m, road, c.attempt) /\ Barred(coord, m, road, c.attempt, w, q)
      /\ Freezes(coord, m, road, q)
  BY Members
<1>3. /\ ~c.handling /\ c.chain # <<>> /\ linked' = linked /\ worker' = worker /\ spent' = spent
      /\ c = client[m] /\ q = jobs[m] /\ w = worker[m]
  BY DEF HandleLoad
<1>4. /\ event \in Notice /\ Tail(c.chain) \in Seq(Notice) /\ event = Head(c.chain)
      /\ event.type \notin {"Stop", "Receive"}
  BY <1>1, <1>3, Tails DEF ClientOK
<1>5. /\ d \in Client /\ d.chain = Tail(c.chain) /\ d.attempt = c.attempt /\ d.handling = c.handling
      /\ d.incoming = c.incoming /\ d.saved = c.saved
  BY <1>1, <1>4 DEF Client
<1>6. d = [c EXCEPT !.chain = Tail(@)] OBVIOUS
<1> HIDE DEF event, c, d, q, w, n
<1>7. /\ 1 \in DOMAIN road /\ road[1] = event /\ road # <<>>
      /\ Road(coord, m, d) = Tail(road)
      /\ (\A j \in DOMAIN road : ~(1 < j)) => Tail(road) = <<>> /\ coord.inbox[m] = <<>>
  <2>1. coord \in Coordinator /\ c \in Client /\ c.chain # <<>> /\ d = [c EXCEPT !.chain = Tail(@)]
    BY <1>1, <1>3, <1>6
  <2>2. Road(coord, m, d) = Tail(Road(coord, m, c)) BY <2>1, ChainHeads
  <2>4. (\A j \in DOMAIN Road(coord, m, c) : ~(1 < j)) =>
          Tail(Road(coord, m, c)) = <<>> /\ coord.inbox[m] = <<>>
    BY <2>1, ChainHeads
  <2> QED BY <1>4, <2>2, <2>1, ChainHeads, <2>4
<1>8. NoticeOK(n, coord.epoch, event) BY <1>2, <1>7
<1>9. ClientOK(n, d) BY <1>1, <1>3, Tails, Rows, <1>5 DEF ClientOK
<1> HIDE DEF road
<1>10. /\ Head(road) = event /\ Thins(Tail(road), road) /\ Tail(road) \in Seq(Notice)
       /\ \A j \in DOMAIN Tail(road) : j + 1 \in DOMAIN road /\ Tail(road)[j] = road[j + 1] /\ j + 1 # 1
  BY <1>1, <1>7, Tails, Rows, Handled
<1>11. worker' = [worker EXCEPT ![m] = w] /\ Unmoved(w, w) BY <1>1, <1>3 DEF Unmoved
<1>12. Eased(q, q) /\ Alike(coord, coord) /\ (\A x \in Member \ {m} : coord.inbox[x] = coord.inbox[x])
  BY <1>1, EasedSame DEF Alike
<1>13. \A e : Thins(Road(coord, m, e), road) <=> Thins(Road(coord, m, e), Road(coord, m, c))
  BY DEF road
\* An event that is dropped is only taken off the road.
<1>14. ASSUME client' = [client EXCEPT ![m] = d], jobs' = jobs
       PROVE  World(coord, n, client', worker', jobs')
  <2>1. jobs' = [jobs EXCEPT ![m] = q] BY <1>1, <1>3, <1>14
  <2>2. Awaits(d, w, q) BY <1>1, <1>5, AwaitsSame
  <2>3. Thins(Road(coord, m, d), Road(coord, m, c)) /\ d.attempt \in {c.attempt, 0}
        /\ (coord.inbox[m] = <<>> => coord.inbox[m] = <<>>)
    BY <1>5, <1>7, <1>10, <1>13
  <2>4. Fits(coord, n, m, d, w, q) BY <1>1, <1>2, <1>5, <1>9, <1>11, <1>12, <2>2, <2>3, Steps
  <2> QED BY <1>1, <1>11, <1>12, <1>14, <2>1, <2>4, OwnStep DEF n
\* Without a change at the coordinator there is nothing else to show.
<1>15. ASSUME coord' = coord, World(coord, n, client', worker', jobs') PROVE Good
  BY <1>15, <1>1, <1>3 DEF Undone, Good, LoadInv, n
<1>16. CASE event.type = "Hold"
  <2> DEFINE b == [d EXCEPT !.attempt = event.id, !.handling = TRUE, !.incoming = "none"]
             left == Forget(q, {"import"})
             x == Job("hash", event.id, "chain")
  <2>1. /\ client' = [client EXCEPT ![m] = b] /\ jobs' = [jobs EXCEPT ![m] = Append(left, x)] /\ coord' = coord
    BY <1>16 DEF HandleLoad, Holds, event, d, q
  <2>2. event.id \in Nat /\ event.id <= n /\ event.id # 0
    BY <1>4, <1>8, <1>16 DEF Notice, NoticeOK, LoadNotice
  <2>3. /\ b \in Client /\ b.chain = d.chain /\ b.attempt = event.id /\ b.handling /\ b.incoming = "none"
    BY <1>5, <2>2 DEF Client
  <2>4. x \in Request /\ x.type = "hash" /\ x.id = event.id /\ x.use = "chain" BY <2>2, Jobs
  <2>5. left \in Seq(Request) /\ Loosened(left, q) /\ Waits(left) = Waits(q)
    BY <1>1, Forgets, WaitsForgotten
  <2> HIDE DEF b, left, x
  <2>6. ClientOK(n, b) BY <1>9, <2>2, <2>3 DEF ClientOK
  <2>7. RequestOK(n, coord.epoch, x) BY <2>2, <2>4 DEF RequestOK
  <2>8. Road(coord, m, b) = Tail(road) BY <1>7, <2>3 DEF Road
  <2>10. MayAsk(coord, m, Tail(road), event.id, left, x)
    <3>1. ASSUME coord.load # Nil, coord.load.phase = "freezing", m \notin coord.load.boundaries,
                 event.id = coord.load.id
          PROVE  Tail(road) = <<>>
      BY <1>2, <1>7, <1>16, <3>1 DEF Freezes
    <3> QED BY <2>4, <3>1 DEF MayAsk
  <2>11. Fits(coord, n, m, b, w, Append(left, x))
    <3>1. /\ b.handling = (c.handling \/ x.use = "chain") /\ (x.use = "chain" => ~c.handling)
          /\ (coord.inbox[m] = <<>> => coord.inbox[m] = <<>>)
      BY <2>3, <1>3, <2>4 DEF Client
    <3>2. Thins(Road(coord, m, b), Road(coord, m, c)) BY <1>10, <1>13, <2>8
    <3>3. \A i \in DOMAIN Road(coord, m, b) :
            Road(coord, m, b)[i].type \in {"Hold", "Commit"} => Road(coord, m, b)[i].id # b.attempt
      BY <2>3, <2>8, <1>2, <1>7, <1>10, <1>16 DEF HoldFirst, Marks
    <3>4. MayAsk(coord, m, Road(coord, m, b), b.attempt, left, x) BY <2>3, <2>8, <2>10
    <3> QED BY <1>1, <1>12, <2>3, <2>4, <2>5, <2>6, <2>7, <3>1, <3>2, <3>3, <3>4, AsksFor
  <2>12. World(coord, n, client', worker', jobs') BY <1>1, <1>11, <1>12, <2>1, <2>11, OwnStep DEF n
  <2> QED BY <1>15, <2>1, <2>12
<1>17. CASE event.type = "Prepare" /\ c.attempt = 0
  <2>1. Binds(m, d, event) /\ coord' = coord BY <1>5, <1>17 DEF HandleLoad, event, d
  <2>2. event.id <= n /\ event.epoch <= coord.epoch BY <1>8, <1>17 DEF NoticeOK
  <2>3. coord.status \in {"starting", "playing"} /\ event.epoch = coord.epoch => coord.inbox[m] = <<>>
    BY <1>2, <1>7, <1>17 DEF Barred
  <2>4. /\ Thins(Road(coord, m, d), Road(coord, m, client[m])) /\ d.handling = client[m].handling
        /\ client[m].attempt = 0 /\ d.attempt = 0
    BY <1>3, <1>5, <1>7, <1>10, <1>13, <1>17
  <2>5. coord.inbox[m] = <<>> => coord.inbox[m] = <<>> OBVIOUS
  <2>6. World(coord, n, client', worker', jobs')
    BY <1>1, <1>3, <1>4, <1>5, <1>9, <1>12, <2>1, <2>2, <2>3, <2>4, <2>5, BindsTo DEF n
  <2> QED BY <1>15, <2>1, <2>6
<1>18. CASE (event.type = "Prepare" /\ c.attempt # 0) \/ (event.type \notin {"Hold", "Prepare"} /\ c.attempt # event.id)
  BY <1>5, <1>18, <1>14, <1>15 DEF HandleLoad, event, d, c
<1>19. CASE /\ event.type \notin {"Hold", "Prepare"} /\ c.attempt = event.id
            /\ event.type \in {"Stage", "Commit"} /\ m = Host /\ ~c.saved
  <2>1. client' = [client EXCEPT ![m] = d] /\ jobs' = jobs /\ coord' = Failed(coord, m, event.id)
    BY <1>5, <1>19 DEF HandleLoad, event, d, c
  <2>2. World(coord, n, client', worker', jobs') BY <1>14, <2>1
  <2> QED BY <1>1, <1>3, <2>1, <2>2, Fails DEF Good, LoadInv, n
<1>20. CASE /\ event.type \notin {"Hold", "Prepare"} /\ c.attempt = event.id
            /\ ~(event.type \in {"Stage", "Commit"} /\ m = Host /\ ~c.saved)
  <2> DEFINE x == Job(AskedBy(event), event.id, "chain")
             b == [d EXCEPT !.handling = TRUE]
  <2>1. event.type \in {"Stage", "Commit", "Rollback", "Finish"} BY <1>4, <1>20 DEF Notice
  <2>2. Asks(m, d, AskedBy(event), event.id) /\ coord' = coord
    BY <1>5, <1>20 DEF HandleLoad, event, d, c, AskedBy
  <2>3. client' = [client EXCEPT ![m] = b] /\ jobs' = [jobs EXCEPT ![m] = Append(q, x)]
    BY <1>1, <1>3, <2>2 DEF Asks
  <2>4. event.id \in Nat /\ event.id <= n /\ event.id # 0
    BY <1>4, <1>8, <2>1 DEF Notice, NoticeOK, LoadNotice
  <2>5. b \in Client /\ b.chain = d.chain /\ b.attempt = c.attempt /\ b.handling /\ b.incoming = d.incoming
    BY <1>5 DEF Client
  <2>6. AskedBy(event) \in {"prepare", "commit", "rollback", "finish"} BY <2>1 DEF AskedBy
  <2>7. x \in Request /\ x.type = AskedBy(event) /\ x.id = event.id /\ x.use = "chain"
    BY <2>4, <2>6, Jobs
  <2> HIDE DEF b, x
  <2>8. ClientOK(n, b) BY <1>5, <1>9, <2>5 DEF ClientOK
  <2>9. RequestOK(n, coord.epoch, x) BY <2>4, <2>6, <2>7 DEF RequestOK
  <2>10. Road(coord, m, b) = Tail(road) BY <1>7, <2>5 DEF Road
  <2>11. InOrder(coord, m, road, c.attempt, w, q) BY <1>1 DEF Fits, road
  <2>12. MayAsk(coord, m, Tail(road), c.attempt, q, x)
    BY <1>1, <1>7, <1>10, <1>20, <2>1, <2>7, <2>11, MayAskNext
  <2>13. Fits(coord, n, m, b, w, Append(q, x))
    <3>1. /\ b.handling = (c.handling \/ x.use = "chain") /\ (x.use = "chain" => ~c.handling)
          /\ (coord.inbox[m] = <<>> => coord.inbox[m] = <<>>) /\ b.attempt = c.attempt
      BY <2>5, <1>3, <2>7 DEF Client
    <3>2. Thins(Road(coord, m, b), Road(coord, m, c)) BY <1>10, <1>13, <2>10
    <3>3. MayAsk(coord, m, Road(coord, m, b), b.attempt, q, x) BY <2>5, <2>10, <2>12
    <3>4. Loosened(q, q) BY DEF Loosened
    <3> QED BY <1>1, <1>12, <2>5, <2>7, <2>8, <2>9, <3>1, <3>2, <3>3, <3>4, AsksFor
  <2>14. World(coord, n, client', worker', jobs') BY <1>1, <1>11, <1>12, <2>3, <2>13, OwnStep DEF n
  <2> QED BY <1>15, <2>2, <2>14
<1> QED BY <1>16, <1>17, <1>18, <1>19, <1>20

-----------------------------------------------------------------------------
(* Answers and refusals.                                                   *)

\* A request is off the queue, or not waited for any more, and the machine has moved.
Taken(m, job, v, q2) ==
  /\ job \in Request /\ RequestOK(spent.load, coord.epoch, job)
  /\ q2 \in Seq(Request) /\ Eased(q2, jobs[m])
  /\ \A i \in DOMAIN q2 : RequestOK(spent.load, coord.epoch, q2[i])
  /\ Sound(coord, spent.load, v) /\ (~NoCommit(jobs[m], 0) \/ Unmoved(worker[m], v))
  /\ job.use = "chain" => Waits(q2) = {} /\ ~Prepares(v)
  /\ job.use # "chain" => Awaits(client[m], v, q2)

\* A member whose request is taken fits, with the client it goes on with.
LEMMA TakenFits ==
  ASSUME LoadInv, NEW m \in Member, NEW job, NEW v, NEW q2, Taken(m, job, v, q2),
         NEW d \in Client, d.chain = client[m].chain, d.attempt \in {client[m].attempt, 0},
         ClientOK(spent.load, d),
         d.handling = IF job.use = "chain" THEN FALSE ELSE client[m].handling
  PROVE  Fits(coord, spent.load, m, d, v, q2)
BY Members, OwnRoad, Same, AwaitsNothing, AwaitsSame, Steps DEF Taken, Road, Alike

\* What the machine's answer must show before the coordinator may hear of it.
Answerable(m, job, v, q2) ==
  /\ job.use = "bind" =>
       /\ coord.status = "starting" /\ Quiet(coord.inbox[m], Road(coord, m, client[m]), client[m].attempt)
       /\ NoCommit(q2, 0) /\ AtPoint(coord, v)
  /\ job.use = "chain" /\ job.type = "hash" =>
       (coord.load # Nil /\ coord.load.id = job.id /\ coord.load.phase = "freezing"
          /\ m \notin coord.load.boundaries =>
            Road(coord, m, client[m]) = <<>> /\ NoCommit(q2, 0) /\ NoUndo(q2, 0))
  /\ job.use = "chain" /\ job.type = "rollback" =>
       (coord.load # Nil /\ m \in coord.load.boundaries /\ coord.load.phase = "rolling_back" =>
            NoCommit(q2, 0) /\ Lacks(Road(coord, m, client[m]), "Commit") /\ Uncommitted(v))

\* Answer: the coordinator hears what the machine showed.
LEMMA Answered ==
  ASSUME LoadInv, NEW m \in Member, NEW job, NEW v, NEW q2, Taken(m, job, v, q2), Answerable(m, job, v, q2),
         Answer(m, job, v), worker' = [worker EXCEPT ![m] = v], jobs' = [jobs EXCEPT ![m] = q2]
  PROVE  World(coord', spent.load, client', worker', jobs') /\ Undone(coord, coord', worker')
<1> DEFINE c == client[m]
           n == spent.load
           free == Released(m)
<1>1. /\ coord \in Coordinator /\ client \in [Member -> Client] /\ worker \in [Member -> Machine]
      /\ jobs \in [Member -> Seq(Request)] /\ n \in Nat /\ c \in Client /\ ClientOK(n, c) /\ c = client[m]
  BY Members
<1>2. /\ free \in Client /\ free.chain = c.chain /\ free.attempt = c.attempt /\ free.handling = FALSE
      /\ free.incoming = c.incoming /\ free.saved = c.saved
  BY <1>1 DEF Released, Client
<1>3. job \in Request /\ RequestOK(n, coord.epoch, job) /\ job.use \in {"none", "chain", "import", "bind"}
  BY DEF Taken, Request
<1> HIDE DEF c, n, free
<1>5. ClientOK(n, free) BY <1>1, <1>2 DEF ClientOK
<1>6. ASSUME NEW d \in Client, d.chain = c.chain, d.attempt \in {c.attempt, 0}, ClientOK(n, d),
             d.handling = (IF job.use = "chain" THEN FALSE ELSE c.handling),
             client' = [client EXCEPT ![m] = d]
      PROVE  /\ World(coord, n, client', worker', jobs')
             /\ client'[m] = d /\ worker'[m] = v /\ jobs'[m] = q2
  BY <1>1, <1>6, TakenFits, OwnStep DEF n, c, Alike
<1>7. ASSUME coord' = coord, World(coord, n, client', worker', jobs')
      PROVE  World(coord', n, client', worker', jobs') /\ Undone(coord, coord', worker')
  BY <1>7 DEF Undone
<1>8. ASSUME client' = client, job.use # "chain"
      PROVE  World(coord, n, client', worker', jobs') /\ client'[m] = c /\ worker'[m] = v /\ jobs'[m] = q2
  BY <1>1, <1>8, <1>6
<1>9. ASSUME client' = [client EXCEPT ![m] = free], job.use = "chain"
      PROVE  World(coord, n, client', worker', jobs') /\ client'[m] = free /\ worker'[m] = v /\ jobs'[m] = q2
  BY <1>2, <1>5, <1>6, <1>9
<1>10. CASE job.use = "none" BY <1>10, <1>7, <1>8 DEF Answer, n
<1>11. CASE job.use = "bind" BY <1>11, <1>8, <1>1, Acknowledges DEF Answer, Answerable, c, n
<1>12. CASE job.use = "import"
  <2> DEFINE d == [c EXCEPT !.incoming = "none"]
  <2>1. /\ client' = [client EXCEPT ![m].incoming = "none"]
        /\ coord' = IF OwnsLoad(m, job) THEN Prepared(coord, m, job.id) ELSE coord
    BY <1>12 DEF Answer
  <2>2. client' = [client EXCEPT ![m] = d] BY <1>1, <2>1
  <2>3. /\ d \in Client /\ d.chain = c.chain /\ d.attempt = c.attempt /\ d.handling = c.handling
        /\ d.incoming = "none"
    BY <1>1 DEF Client
  <2> HIDE DEF d
  <2>4. ClientOK(n, d) BY <1>1, <2>3 DEF ClientOK
  <2>5. World(coord, n, client', worker', jobs') BY <1>6, <1>12, <2>2, <2>3, <2>4
  <2>6. CASE OwnsLoad(m, job) BY <1>1, <2>1, <2>5, <2>6, PreparesAll DEF n
  <2>7. CASE ~OwnsLoad(m, job) BY <1>7, <2>1, <2>5, <2>7 DEF n
  <2> QED BY <2>6, <2>7
<1>13. CASE job.use = "chain" /\ ~OwnsLoad(m, job) BY <1>13, <1>7, <1>9 DEF Answer, free, n
<1>14. CASE job.use = "chain" /\ OwnsLoad(m, job)
  <2>1. job.type \in {"hash", "prepare", "commit", "rollback", "finish"}
    BY <1>3, <1>14 DEF Request, RequestOK
  <2>2. CASE job.type = "hash"
    <3>1. /\ client' = [client EXCEPT ![m] = free]
          /\ coord' = IF v.native = coord.point THEN Boundary(coord, m, job.id) ELSE Failed(coord, m, job.id)
      BY <1>14, <2>2 DEF Answer, free
    <3>2. World(coord, n, client', worker', jobs') /\ client'[m] = free /\ jobs'[m] = q2
      BY <1>9, <1>14, <3>1
    <3>4. coord.load # Nil /\ coord.load.id = job.id /\ coord.load.phase = "freezing"
            /\ m \notin coord.load.boundaries =>
              Road(coord, m, client'[m]) = <<>> /\ NoCommit(jobs'[m], 0) /\ NoUndo(jobs'[m], 0)
      BY <1>14, <2>2, <3>2, <1>1, <1>2 DEF Answerable, Road
    <3>5. CASE v.native = coord.point BY <1>1, <3>1, <3>2, <3>4, <3>5, Bounds DEF n
    <3>6. CASE v.native # coord.point BY <1>1, <3>1, <3>2, <3>6, Fails DEF n
    <3> QED BY <3>5, <3>6
  <2>3. CASE job.type = "prepare" BY <1>14, <2>3, <1>9, <1>1, PreparesAll DEF Answer, free, n
  <2>4. CASE job.type = "commit" BY <1>14, <2>4, <1>9, <1>1, CommitsAll DEF Answer, free, n
  <2>5. CASE job.type = "rollback"
    <3> DEFINE d == IF v.native = coord.point THEN [free EXCEPT !.saved = FALSE] ELSE free
    <3>1. /\ client' = [client EXCEPT ![m] = d]
          /\ coord' = IF v.native = coord.point THEN RolledBack(coord, m, job.id) ELSE coord
      BY <1>14, <2>5 DEF Answer, free
    <3>2. /\ d \in Client /\ d.chain = c.chain /\ d.attempt = c.attempt /\ d.handling = FALSE
          /\ d.incoming = c.incoming
      BY <1>2 DEF Client
    <3> HIDE DEF d
    <3>3. ClientOK(n, d) BY <1>1, <3>2 DEF ClientOK
    <3>4. World(coord, n, client', worker', jobs') /\ client'[m] = d /\ worker'[m] = v /\ jobs'[m] = q2
      BY <1>6, <1>14, <3>1, <3>2, <3>3
    <3>5. CASE v.native = coord.point
      <4>2. coord.load # Nil /\ m \in coord.load.boundaries /\ coord.load.phase = "rolling_back" =>
              NoCommit(jobs'[m], 0) /\ Lacks(Road(coord, m, client'[m]), "Commit") /\ AtPoint(coord, worker'[m])
        BY <1>14, <2>5, <3>4, <3>5, <1>1, <3>2 DEF Answerable, AtPoint, Road
      <4> QED BY <1>1, <3>1, <3>4, <3>5, <4>2, ReportsUndone DEF n
    <3>6. CASE v.native # coord.point BY <1>7, <3>1, <3>4, <3>6 DEF n
    <3> QED BY <3>5, <3>6
  <2>6. CASE job.type = "finish"
    <3>1. client' = [client EXCEPT ![m] = Cleared(free)] /\ coord' = coord
      BY <1>14, <2>6 DEF Answer, free
    <3>2. /\ Cleared(free) \in Client /\ ClientOK(n, Cleared(free))
          /\ Cleared(free).attempt = 0 /\ Cleared(free).chain = free.chain
          /\ Cleared(free).handling = free.handling
      BY <1>1, <1>2, <1>5, ClearedOK
    <3>3. World(coord, n, client', worker', jobs') BY <1>2, <1>6, <1>14, <3>1, <3>2
    <3> QED BY <1>7, <3>1, <3>3 DEF n
  <2> QED BY <2>1, <2>2, <2>3, <2>4, <2>5, <2>6
<1> QED BY <1>3, <1>10, <1>11, <1>12, <1>13, <1>14

\* Refuse: the coordinator hears that the machine could not.
LEMMA Refused ==
  ASSUME LoadInv, NEW m \in Member, NEW job, NEW v, NEW q2, Taken(m, job, v, q2),
         Refuse(m, job, [jobs EXCEPT ![m] = q2]), worker' = [worker EXCEPT ![m] = v]
  PROVE  World(coord', spent.load, client', worker', jobs') /\ Undone(coord, coord', worker')
<1> DEFINE c == client[m]
           n == spent.load
           free == Released(m)
           queue == [jobs EXCEPT ![m] = q2]
<1>1. /\ coord \in Coordinator /\ client \in [Member -> Client] /\ worker \in [Member -> Machine]
      /\ jobs \in [Member -> Seq(Request)] /\ n \in Nat /\ c \in Client /\ ClientOK(n, c) /\ c = client[m]
  BY Members
<1>2. /\ free \in Client /\ free.chain = c.chain /\ free.attempt = c.attempt /\ free.handling = FALSE
      /\ free.incoming = c.incoming
  BY <1>1 DEF Released, Client
<1>3. /\ job \in Request /\ RequestOK(n, coord.epoch, job) /\ job.use \in {"none", "chain", "import", "bind"}
      /\ q2 \in Seq(Request) /\ Sound(coord, n, v) /\ \A i \in DOMAIN q2 : RequestOK(n, coord.epoch, q2[i])
  BY DEF Taken, Request
<1>4. Alike(coord, coord) /\ \A x \in Member \ {m} : coord.inbox[x] = coord.inbox[x] BY DEF Alike
<1> HIDE DEF c, n, free, queue
<1>5. ClientOK(n, free) BY <1>1, <1>2 DEF ClientOK
<1>6. ASSUME NEW d \in Client, d.chain = c.chain, d.attempt \in {c.attempt, 0}, ClientOK(n, d),
             d.handling = (IF job.use = "chain" THEN FALSE ELSE c.handling),
             client' = [client EXCEPT ![m] = d], jobs' = queue
      PROVE  World(coord, n, client', worker', jobs')
  BY <1>1, <1>6, TakenFits, <1>4, OwnStep DEF n, c, queue
<1>7. ASSUME World(coord, n, client', worker', jobs'), coord' = coord
      PROVE  World(coord', n, client', worker', jobs') /\ Undone(coord, coord', worker')
  BY <1>7 DEF Undone
<1>8. ASSUME World(coord, n, client', worker', jobs'),
             coord' = IF OwnsLoad(m, job) THEN Failed(coord, m, job.id) ELSE coord
      PROVE  World(coord', n, client', worker', jobs') /\ Undone(coord, coord', worker')
  BY <1>1, <1>8, Fails, <1>7
<1>9. CASE job.use = "none" BY <1>9, <1>1, <1>6, <1>7 DEF Refuse, queue, n
<1>10. CASE job.use = "bind"
  <2>1. /\ client' = [client EXCEPT ![m] = Cleared(c)]
        /\ jobs' = [jobs EXCEPT ![m] = Clearing(c, q2)]
        /\ coord' = Aborted(coord, m, job.epoch)
    BY <1>1, <1>10 DEF Refuse, c
  <2>2. Fits(coord, n, m, c, v, q2) BY <1>1, <1>10, TakenFits DEF n, c
  <2>3. Awaits(c, v, q2) BY <2>2 DEF Fits
  <2>4. /\ Cleared(c) \in Client /\ ClientOK(n, Cleared(c))
        /\ Cleared(c).attempt = 0 /\ Cleared(c).chain = c.chain /\ Cleared(c).handling = c.handling
    BY <1>1, ClearedOK
  <2>5. /\ Clearing(c, q2) \in Seq(Request) /\ Eased(Clearing(c, q2), q2) /\ Waits(Clearing(c, q2)) = Waits(q2)
        /\ \A i \in DOMAIN Clearing(c, q2) : RequestOK(n, coord.epoch, Clearing(c, q2)[i])
    BY <1>1, <1>3, Clears, WaitsForgotten, ClearingOK
  <2>6. Awaits(Cleared(c), v, Clearing(c, q2)) BY <1>1, <2>3, <2>4, <2>5, AwaitsSame
  <2>7. Thins(Road(coord, m, Cleared(c)), Road(coord, m, c)) BY <2>4, <1>1, OwnRoad, Same DEF Road
  <2>8. Unmoved(v, v) /\ Cleared(c).attempt \in {c.attempt, 0} /\ (coord.inbox[m] = <<>> => coord.inbox[m] = <<>>)
    BY <2>4 DEF Unmoved
  <2>9. Fits(coord, n, m, Cleared(c), v, Clearing(c, q2))
    BY <1>1, <1>3, <1>4, <2>2, <2>4, <2>5, <2>6, <2>7, <2>8, Steps
  <2>10. World(coord, n, client', worker', jobs') BY <1>1, <1>4, <2>1, <2>9, OwnStep DEF n
  <2>11. World(coord', n, client', worker', jobs') /\ Undone(coord, coord', worker')
    BY <1>1, <2>1, <2>10, AbortsBarrier
  <2> QED BY <2>11 DEF n
<1>11. CASE job.use = "import"
  <2> DEFINE d == [c EXCEPT !.incoming = "none"]
  <2>1. /\ client' = [client EXCEPT ![m] = d] /\ jobs' = queue
        /\ coord' = IF OwnsLoad(m, job) THEN Failed(coord, m, job.id) ELSE coord
    BY <1>1, <1>11 DEF Refuse, queue
  <2>3. /\ d \in Client /\ d.chain = c.chain /\ d.attempt = c.attempt /\ d.handling = c.handling
        /\ d.incoming = "none"
    BY <1>1 DEF Client
  <2> HIDE DEF d
  <2>4. ClientOK(n, d) BY <1>1, <2>3 DEF ClientOK
  <2>5. World(coord, n, client', worker', jobs') BY <1>6, <1>11, <2>1, <2>3, <2>4
  <2> QED BY <1>8, <2>1, <2>5 DEF n
<1>12. CASE job.use = "chain" BY <1>12, <1>2, <1>5, <1>6, <1>8 DEF Refuse, queue, free, n
<1> QED BY <1>3, <1>9, <1>10, <1>11, <1>12

-----------------------------------------------------------------------------
(* The machine works.                                                      *)

\* What came after the first request comes after nothing.
LEMMA AfterHead ==
  ASSUME NEW q \in Seq(Request), q # <<>>
  PROVE  /\ NoCommit(q, 1) => NoCommit(Tail(q), 0)
         /\ NoUndo(q, 1) => NoUndo(Tail(q), 0)
         /\ Head(q) \in Request /\ Tail(q) \in Seq(Request) /\ 1 \in DOMAIN q /\ q[1] = Head(q)
         /\ Head(q).type = "commit" => ~NoCommit(q, 0)
BY Tails, Rows DEF NoCommit, NoUndo

\* The first request is taken, and the machine moves as it may.
LEMMA TakesRequest ==
  ASSUME LoadInv, NEW m \in Member, jobs[m] # <<>>,
         NEW v, Sound(coord, spent.load, v), v.preparing = worker[m].preparing,
         ~NoCommit(jobs[m], 0) \/ Unmoved(worker[m], v)
  PROVE  Taken(m, Head(jobs[m]), v, Tail(jobs[m]))
<1> DEFINE q == jobs[m]
           w == worker[m]
           c == client[m]
<1>1. /\ q \in Seq(Request) /\ w \in Machine /\ c \in Client /\ Awaits(c, w, q)
      /\ \A i \in DOMAIN q : RequestOK(spent.load, coord.epoch, q[i])
  BY Members
<1>2. Prepares(v) <=> Prepares(w) BY DEF Prepares
<1> HIDE DEF q, w, c
<1>3. q # <<>> BY DEF q
<1>4. Head(q) \in Request /\ Tail(q) \in Seq(Request) /\ Eased(Tail(q), q)
  BY <1>1, <1>3, AfterHead, EasedTail
<1>6. Head(q).use = "chain" => Waits(Tail(q)) = {} /\ ~Prepares(v) BY <1>1, <1>2, <1>3, AwaitsTaken
<1>7. Head(q).use # "chain" => Awaits(c, v, Tail(q)) BY <1>1, <1>2, <1>3, AwaitsTail
<1> QED BY <1>4, <1>1, <1>3, EasedOK, <1>6, <1>7 DEF Taken, q, w, c

\* The answers of a machine that the coordinator goes by.
LEMMA AnswersHash ==
  ASSUME LoadInv, NEW m \in Member, jobs[m] # <<>>, Head(jobs[m]).type = "hash", NEW v
  PROVE  Answerable(m, Head(jobs[m]), v, Tail(jobs[m]))
<1> DEFINE q == jobs[m]
           road == Road(coord, m, client[m])
<1>1. q \in Seq(Request) /\ Freezes(coord, m, road, q)
      /\ \A i \in DOMAIN q : RequestOK(spent.load, coord.epoch, q[i])
  BY Members
<1> HIDE DEF q, road
<1>2. q # <<>> /\ Head(q).type = "hash" BY DEF q
<1>3. /\ 1 \in DOMAIN q /\ q[1] = Head(q)
      /\ NoCommit(q, 1) => NoCommit(Tail(q), 0)
      /\ NoUndo(q, 1) => NoUndo(Tail(q), 0)
  BY <1>1, <1>2, AfterHead
<1>4. Head(q).use # "bind" BY <1>1, <1>2, <1>3 DEF RequestOK
<1>5. ASSUME Head(q).use = "chain", coord.load # Nil, coord.load.id = Head(q).id,
             coord.load.phase = "freezing", m \notin coord.load.boundaries
      PROVE  road = <<>> /\ NoCommit(Tail(q), 0) /\ NoUndo(Tail(q), 0)
  BY <1>1, <1>2, <1>3, <1>5 DEF Freezes
<1> QED BY <1>2, <1>4, <1>5 DEF Answerable, q, road

\* A machine that is asked to go back commits no more.
LEMMA AnswersRollback ==
  ASSUME LoadInv, NEW m \in Member, jobs[m] # <<>>, Head(jobs[m]).type = "rollback", NEW v, v.rollback = Nil
  PROVE  Answerable(m, Head(jobs[m]), v, Tail(jobs[m]))
<1> DEFINE q == jobs[m]
           road == Road(coord, m, client[m])
<1>1. q \in Seq(Request) /\ Undoes(coord, m, road, worker[m], q)
      /\ \A i \in DOMAIN q : RequestOK(spent.load, coord.epoch, q[i])
  BY Members
<1> HIDE DEF q, road
<1>2. q # <<>> /\ Head(q).type = "rollback" BY DEF q
<1>3. /\ 1 \in DOMAIN q /\ q[1] = Head(q)
      /\ NoCommit(q, 1) => NoCommit(Tail(q), 0)
  BY <1>1, <1>2, AfterHead
<1>4. Head(q).use # "bind" BY <1>1, <1>2, <1>3 DEF RequestOK
<1>5. ASSUME Head(q).use = "chain", coord.load # Nil, m \in coord.load.boundaries,
             coord.load.phase = "rolling_back"
      PROVE  NoCommit(Tail(q), 0) /\ Lacks(road, "Commit")
  BY <1>1, <1>2, <1>3, <1>5 DEF Undoes
<1>6. Uncommitted(v) BY DEF Uncommitted
<1> QED BY <1>2, <1>4, <1>5, <1>6 DEF Answerable, q, road

\* A machine that is bound is at the state of the session, and stays there.
LEMMA AnswersBind ==
  ASSUME LoadInv, NEW m \in Member, jobs[m] # <<>>, Head(jobs[m]).type = "bind",
         Bindable(worker[m], Head(jobs[m]).id),
         Head(jobs[m]).use = "none" \/ AcceptsAck(coord, m, Head(jobs[m]).id, Head(jobs[m]).epoch),
         NEW v, v.rollback \in {Nil, worker[m].rollback}, v.native = worker[m].native
  PROVE  Answerable(m, Head(jobs[m]), v, Tail(jobs[m]))
<1> DEFINE q == jobs[m]
           w == worker[m]
           road == Road(coord, m, client[m])
<1>1. q \in Seq(Request) /\ Barred(coord, m, road, client[m].attempt, w, q)
      /\ \A i \in DOMAIN q : RequestOK(spent.load, coord.epoch, q[i])
  BY Members
<1> HIDE DEF q, road
<1>2. q # <<>> /\ Head(q).type = "bind" BY DEF q
<1>3. /\ 1 \in DOMAIN q /\ q[1] = Head(q)
      /\ NoCommit(q, 1) => NoCommit(Tail(q), 0)
  BY <1>1, <1>2, AfterHead
<1>4. Head(q).use \in {"none", "bind"} BY <1>1, <1>2, <1>3 DEF RequestOK
<1>5. ASSUME Head(q).use = "bind"
      PROVE  /\ coord.status = "starting" /\ Quiet(coord.inbox[m], road, client[m].attempt)
             /\ NoCommit(Tail(q), 0) /\ AtPoint(coord, v)
  BY <1>5, <1>1, <1>2, <1>3 DEF AcceptsAck, q, Barred, Bindable, AtPoint, Uncommitted
<1> QED BY <1>2, <1>4, <1>5 DEF Answerable, q, road

\* The other answers show nothing the coordinator goes by.
LEMMA AnswersOther ==
  ASSUME LoadInv, NEW m \in Member, jobs[m] # <<>>, Head(jobs[m]).type \in {"commit", "finish"}, NEW v
  PROVE  Answerable(m, Head(jobs[m]), v, Tail(jobs[m]))
BY Members, AfterHead DEF RequestOK, Answerable

\* The machine begins with what it prepares: the request goes from the queue to it.
LEMMA StartsPreparing ==
  ASSUME LoadInv, NEW m \in Member, jobs[m] # <<>>, Head(jobs[m]).type = "prepare",
         worker[m].preparing = Nil, ~Foreign(worker[m], Head(jobs[m]).id),
         ~(worker[m].rollback # Nil /\ worker[m].rollback.committed),
         NEW v, v = Preparing(worker[m], Head(jobs[m])), worker' = [worker EXCEPT ![m] = v],
         NEW q2, q2 = Tail(jobs[m]), jobs' = [jobs EXCEPT ![m] = q2], UNCHANGED <<coord, client, spent>>
  PROVE  World(coord', spent.load, client', worker', jobs')
<1> DEFINE q == jobs[m]
           w == worker[m]
           c == client[m]
           job == Head(q)
           n == spent.load
<1>1. /\ coord \in Coordinator /\ client \in [Member -> Client] /\ worker \in [Member -> Machine]
      /\ jobs \in [Member -> Seq(Request)] /\ n \in Nat /\ c \in Client /\ w \in Machine /\ q \in Seq(Request)
      /\ Fits(coord, n, m, c, w, q) /\ Sound(coord, n, w) /\ ClientOK(n, c) /\ Awaits(c, w, q)
      /\ \A i \in DOMAIN q : RequestOK(n, coord.epoch, q[i])
  BY Members
<1>2. /\ v = Preparing(w, job) /\ q2 = Tail(q)
      /\ client' = [client EXCEPT ![m] = c] /\ coord' = coord
  BY <1>1
<1>3. q # <<>> /\ job.type = "prepare" /\ w.preparing = Nil /\ ~Foreign(w, job.id)
      /\ ~(w.rollback # Nil /\ w.rollback.committed) /\ job = Head(q)
  OBVIOUS
<1> HIDE DEF q, w, c, n, job
<1>4. job \in Request /\ Tail(q) \in Seq(Request) /\ Eased(Tail(q), q)
  BY <1>1, <1>3, AfterHead, EasedTail
<1>5. RequestOK(n, coord.epoch, job) /\ \A i \in DOMAIN Tail(q) : RequestOK(n, coord.epoch, Tail(q)[i])
  BY <1>1, <1>3, EasedOK
<1>6. Sound(coord, n, v) /\ Unmoved(w, v) /\ v.preparing = job
  BY <1>1, <1>3, <1>4, <1>5, <1>2, StartsToPrepare
<1>7. ~Prepares(w) /\ (Prepares(v) <=> job.use = "chain")
  BY <1>3, <1>4, <1>6, NilAssumption DEF Prepares
<1>8. Awaits(c, v, Tail(q))
  <2>1. CASE job.use = "chain" BY <1>1, <1>3, <2>1, AwaitsTaken, <1>7 DEF Awaits, Waits, Prepares
  <2>2. CASE job.use # "chain" BY <1>1, <1>3, <1>7, <2>2, AwaitsTail
  <2> QED BY <2>1, <2>2
<1>9. /\ Alike(coord, coord) /\ (coord.inbox[m] = <<>> => coord.inbox[m] = <<>>)
      /\ Thins(Road(coord, m, c), Road(coord, m, c)) /\ c.attempt \in {c.attempt, 0}
      /\ \A x \in Member \ {m} : coord.inbox[x] = coord.inbox[x]
  BY <1>1, OwnRoad, Same DEF Alike
<1>10. Fits(coord, n, m, c, v, q2) BY <1>1, <1>2, <1>4, <1>5, <1>6, <1>8, <1>9, Steps
<1>11. World(coord, n, client', worker', jobs') BY <1>1, <1>2, <1>9, <1>10, OwnStep DEF n
<1> QED BY <1>2, <1>11 DEF n

\* Work: the machine handles its next request.
LEMMA WorkKept ==
  ASSUME LoadInv, NEW m \in Member, Work(m)
  PROVE  Good
<1> DEFINE job  == Head(jobs[m])
           rest == [jobs EXCEPT ![m] = Tail(jobs[m])]
           w    == worker[m]
           n    == spent.load
           Turns(v) == worker' = [worker EXCEPT ![m] = v] /\ spent'.load = n
           Does(v) == Turns(v) /\ Answer(m, job, v) /\ jobs' = rest
           Errs(v) == Turns(v) /\ Refuse(m, job, rest)
<1>1. /\ coord \in Coordinator /\ worker \in [Member -> Machine] /\ n \in Nat /\ linked \subseteq Guest
      /\ jobs[m] \in Seq(Request) /\ w \in Machine /\ Sound(coord, n, w) /\ n = spent.load
      /\ spent \in [load : Nat, resume : Nat, fault : Nat, stuck : BOOLEAN]
      /\ \A i \in DOMAIN jobs[m] : RequestOK(n, coord.epoch, jobs[m][i])
      /\ NotOver(coord, Road(coord, m, client[m]), jobs[m])
  BY Members
<1>2. jobs[m] # <<>> /\ linked' = linked BY DEF Work
<1>3. job \in Request /\ 1 \in DOMAIN jobs[m] /\ jobs[m][1] = job /\ job = Head(jobs[m])
      /\ RequestOK(n, coord.epoch, job) /\ (job.type = "commit" => ~NoCommit(jobs[m], 0))
  BY <1>1, <1>2, AfterHead
<1>4. /\ spent' = spent => spent'.load = n
      /\ Fault => spent'.load = n
      /\ (spent' = spent \/ Fault) => spent' \in [load : Nat, resume : Nat, fault : Nat, stuck : BOOLEAN]
  BY <1>1 DEF Fault
<1>5. ASSUME spent' = spent \/ Fault, World(coord', n, client', worker', jobs'), Undone(coord, coord', worker')
      PROVE  Good
  BY <1>1, <1>2, <1>4, <1>5 DEF Good, LoadInv, n
\* What the machine does, and what that leaves of the queue.
<1>6. ASSUME NEW v, Sound(coord, n, v), v.preparing = w.preparing, ~NoCommit(jobs[m], 0) \/ Unmoved(w, v),
             Errs(v)
      PROVE  World(coord', n, client', worker', jobs') /\ Undone(coord, coord', worker')
  <2>1. Taken(m, job, v, Tail(jobs[m])) BY <1>2, <1>6, TakesRequest DEF n, w
  <2> DEFINE q2 == Tail(jobs[m])
  <2> HIDE DEF job, q2
  <2> QED BY <2>1, <1>6, Refused DEF n, q2
<1>7. ASSUME NEW v, Sound(coord, n, v), v.preparing = w.preparing, ~NoCommit(jobs[m], 0) \/ Unmoved(w, v),
             Answerable(m, job, v, Tail(jobs[m])), Does(v)
      PROVE  World(coord', n, client', worker', jobs') /\ Undone(coord, coord', worker')
  <2>1. Taken(m, job, v, Tail(jobs[m])) BY <1>2, <1>7, TakesRequest DEF n, w
  <2> DEFINE q2 == Tail(jobs[m])
  <2> HIDE DEF job, q2
  <2> QED BY <2>1, <1>7, Answered DEF n, q2
<1>8. Unmoved(w, w) BY DEF Unmoved
<1>9. LET v == ClearCandidate(w)
      IN /\ Sound(coord, n, v) /\ Unmoved(w, v) /\ v.preparing = w.preparing /\ v.native = w.native
         /\ v.rollback \in {Nil, w.rollback}
  BY <1>1, ClearsCandidate
<1> HIDE DEF w, job, n, rest
<1>10. CASE job.type = "rollback"
  <2>1. CASE Foreign(w, job.id) BY <1>4, <1>10, <2>1, <1>1, <1>5, <1>6, <1>8 DEF Work, w, job, rest
  <2>2. CASE ~Foreign(w, job.id)
    <3> DEFINE v == Rollback(w, job.id)
    <3>1. Does(v) /\ spent' = spent BY <1>4, <1>10, <2>2 DEF Work, w, job, rest
    <3>2. Sound(coord, n, v) /\ Unmoved(w, v) /\ v.preparing = w.preparing /\ v.rollback = Nil
      BY <1>1, <2>2, RollsBack
    <3> HIDE DEF v
    <3>3. Answerable(m, job, v, Tail(jobs[m])) BY <1>2, <1>3, <1>10, <3>2, AnswersRollback
    <3> QED BY <1>5, <1>7, <3>1, <3>2, <3>3
  <2> QED BY <2>1, <2>2
<1>11. CASE job.type = "finish"
  <2>1. CASE w.rollback = Nil \/ Foreign(w, job.id) \/ ~w.rollback.committed
    BY <1>4, <1>11, <2>1, <1>1, <1>5, <1>6, <1>8 DEF Work, w, job, rest
  <2>2. CASE ~(w.rollback = Nil \/ Foreign(w, job.id) \/ ~w.rollback.committed)
    <3> DEFINE v == [w EXCEPT !.rollback = Nil]
    <3>1. Does(v) /\ spent' = spent BY <1>4, <1>11, <2>2 DEF Work, w, job, rest
    <3>2. coord.load # Nil => job.id # coord.load.id BY <1>1, <1>3, <1>11 DEF NotOver
    <3>3. Sound(coord, n, v) /\ Unmoved(w, v) /\ v.preparing = w.preparing
      <4>2. LET z == [w EXCEPT !.rollback = Nil]
            IN Sound(coord, n, z) /\ Unmoved(w, z) /\ z.preparing = w.preparing
        BY <3>2, <1>1, <2>2, Finishes
      <4> QED BY <4>2
    <3> HIDE DEF v
    <3>4. Answerable(m, job, v, Tail(jobs[m])) BY <1>2, <1>3, <1>11, AnswersOther
    <3> QED BY <1>5, <1>7, <3>1, <3>3, <3>4
  <2> QED BY <2>1, <2>2
<1>12. CASE job.type \notin {"rollback", "finish"} /\ w.preparing # Nil
  BY <1>4, <1>12, <1>5, <1>6, <1>9, <1>1, <1>8 DEF Work, w, job, rest
<1>13. CASE job.type = "hash" /\ w.preparing = Nil
  BY <1>4, <1>13, <1>2, <1>3, AnswersHash, <1>1, <1>5, <1>7, <1>8 DEF Work, w, job, rest
<1>14. CASE job.type = "bind" /\ w.preparing = Nil
  <2>1. CASE ~Bindable(w, job.id)
    BY <1>4, <1>14, <2>1, <1>1, <1>5, <1>6, <1>8 DEF Work, w, job, rest
  <2>2. CASE Bindable(w, job.id) /\ (job.use = "none" \/ AcceptsAck(coord, m, job.id, job.epoch))
    <3> DEFINE v == ClearCandidate(w)
    <3>1. Does(v) /\ spent' = spent BY <1>4, <1>14, <2>2 DEF Work, w, job, rest
    <3>2. /\ Sound(coord, n, v) /\ Unmoved(w, v) /\ v.preparing = w.preparing /\ v.native = w.native
          /\ v.rollback \in {Nil, w.rollback}
      BY <1>9
    <3> HIDE DEF v
    <3>3. Answerable(m, job, v, Tail(jobs[m])) BY <1>2, <1>3, <1>14, <2>2, <3>2, AnswersBind DEF w
    <3> QED BY <1>5, <1>7, <3>1, <3>2, <3>3
  <2>3. CASE Bindable(w, job.id) /\ ~(job.use = "none" \/ AcceptsAck(coord, m, job.id, job.epoch))
    BY <1>4, <1>14, <2>3, <1>5, <1>6, <1>9 DEF Work, w, job, rest
  <2> QED BY <2>1, <2>2, <2>3
<1>15. CASE job.type = "prepare" /\ w.preparing = Nil
  <2>1. CASE Foreign(w, job.id) \/ (w.rollback # Nil /\ w.rollback.committed)
    BY <1>4, <1>15, <2>1, <1>1, <1>5, <1>6, <1>8 DEF Work, w, job, rest
  <2>2. CASE ~(Foreign(w, job.id) \/ (w.rollback # Nil /\ w.rollback.committed))
    <3> DEFINE v == Preparing(w, job)
               q2 == Tail(jobs[m])
    <3>1. /\ worker' = [worker EXCEPT ![m] = v] /\ jobs' = [jobs EXCEPT ![m] = q2]
          /\ coord' = coord /\ client' = client /\ spent' = spent
      BY <1>15, <2>2 DEF Work, w, job, rest, Preparing
    <3> HIDE DEF v, q2
    <3>2. World(coord', spent.load, client', worker', jobs')
      BY <1>2, <1>15, <2>2, <3>1, StartsPreparing DEF w, job, v, q2
    <3>3. Undone(coord, coord', worker') BY <3>1 DEF Undone
    <3> QED BY <1>5, <3>1, <3>2, <3>3 DEF n
  <2> QED BY <2>1, <2>2
<1>16. CASE job.type = "commit" /\ w.preparing = Nil
  <2>1. CASE w.candidate # job.id
    BY <1>4, <1>16, <2>1, <1>1, <1>5, <1>6, <1>8 DEF Work, w, job, rest
  <2>2. CASE w.candidate = job.id
    <3> DEFINE v == Commit(w, job.id)
               u == [w EXCEPT !.candidate = 0]
    <3>1. \/ Does(v) /\ spent' = spent
          \/ Fault /\ Errs(u)
          \/ Fault /\ Errs(v)
      BY <1>4, <1>16, <2>2 DEF Work, w, job, rest
    <3>2. job.id \in Nat \ {0} /\ job.id <= n BY <1>3, <1>16 DEF RequestOK, Request
    <3>3. /\ Sound(coord, n, v) /\ Sound(coord, n, u) BY <1>1, <1>16, <2>2, <3>2, Commits
    <3>4. v.preparing = w.preparing /\ u.preparing = w.preparing BY <1>1 DEF Commit, Machine
    <3> HIDE DEF v, u
    <3>5. Answerable(m, job, v, Tail(jobs[m])) BY <1>2, <1>3, <1>16, AnswersOther
    <3>6. ~NoCommit(jobs[m], 0) BY <1>3, <1>16
    <3> QED BY <1>5, <1>6, <1>7, <3>1, <3>3, <3>4, <3>5, <3>6
  <2> QED BY <2>1, <2>2
<1>17. job.type \in {"hash", "bind", "prepare", "commit", "rollback", "finish"} BY <1>3 DEF Request
<1> QED BY <1>10, <1>11, <1>12, <1>13, <1>14, <1>15, <1>16, <1>17

\* A fault is counted, and nothing else.
LEMMA Spends ==
  ASSUME LoadInv, spent' = spent \/ Fault
  PROVE  spent' \in [load : Nat, resume : Nat, fault : Nat, stuck : BOOLEAN] /\ spent'.load = spent.load
BY DEF LoadInv, Fault

\* PrepareEnds: a state is prepared, or found invalid.
LEMMA PrepareEndsKept ==
  ASSUME LoadInv, NEW m \in Member, PrepareEnds(m)
  PROVE  Good
<1> DEFINE w    == worker[m]
           n    == spent.load
           q    == jobs[m]
           old  == w.preparing
           u    == [w EXCEPT !.preparing = Nil]
           job  == IF client[m].incoming # "preparing" /\ old.use = "import"
                   THEN [old EXCEPT !.use = "none"] ELSE old
           copy == [op |-> old.id, bytes |-> u.native, committed |-> FALSE]
           v    == [u EXCEPT !.rollback = IF @ = Nil THEN copy ELSE @]
           x    == ClearCandidate(u)
           Turns(z) == worker' = [worker EXCEPT ![m] = z]
<1>1. /\ coord \in Coordinator /\ worker \in [Member -> Machine] /\ n \in Nat /\ linked \subseteq Guest
      /\ jobs \in [Member -> Seq(Request)] /\ q \in Seq(Request) /\ q = jobs[m]
      /\ w \in Machine /\ Sound(coord, n, w) /\ n = spent.load /\ client[m] \in Client
      /\ spent \in [load : Nat, resume : Nat, fault : Nat, stuck : BOOLEAN]
      /\ \A i \in DOMAIN q : RequestOK(n, coord.epoch, q[i])
      /\ Awaits(client[m], w, q)
  BY Members
<1>2. w.preparing # Nil /\ linked' = linked BY DEF PrepareEnds
<1>3. /\ old \in Request /\ old.id <= n /\ old.id # 0 /\ old.type = "prepare" /\ old.use # "bind"
  BY <1>1, <1>2 DEF Sound, MachineOK, Machine
<1>4. /\ job \in Request /\ job.type = "prepare" /\ job.id = old.id /\ job.use # "bind"
      /\ job.use = "chain" <=> old.use = "chain"
  BY <1>3 DEF Request
<1>5. /\ u.candidate = old.id => Sound(coord, n, v) /\ Unmoved(w, v) /\ ~Prepares(v)
      /\ u.candidate # old.id => Sound(coord, n, u)
      /\ Sound(coord, n, x) /\ Unmoved(w, u) /\ Unmoved(w, x) /\ ~Prepares(u) /\ ~Prepares(x)
  BY <1>1, <1>2, EndsPreparing
<1>6. \/ /\ u.candidate = old.id /\ Turns(v) /\ Answer(m, job, v) /\ jobs' = jobs /\ spent' = spent
      \/ /\ u.candidate # old.id /\ Turns(u) /\ Refuse(m, job, jobs) /\ spent' = spent
      \/ /\ Turns(x) /\ Refuse(m, job, jobs) /\ Fault
  BY <1>4 DEF PrepareEnds
<1>7. RequestOK(n, coord.epoch, job) BY <1>3, <1>4 DEF RequestOK
<1> HIDE DEF w, n, q, old, u, job, copy, v, x
<1>9. ASSUME NEW z, Sound(coord, n, z), Unmoved(w, z), ~Prepares(z) PROVE Taken(m, job, z, q)
  <2>1. Eased(q, q) BY <1>1, EasedSame
  <2>2. ASSUME job.use = "chain" PROVE Waits(q) = {} /\ ~Prepares(z)
    BY <1>2, <1>4, <2>2, <1>1, <1>9 DEF Prepares, old, Awaits, Waits
  <2>3. ASSUME job.use # "chain" PROVE Awaits(client[m], z, q)
    BY <1>2, <1>4, <2>3, <1>1, <1>9, AwaitsSame DEF Prepares, old
  <2> QED BY <1>1, <1>4, <1>7, <1>9, <2>1, <2>2, <2>3 DEF Taken, n, w, q
<1>10. ASSUME NEW z PROVE Answerable(m, job, z, q) BY <1>4 DEF Answerable
<1>11. jobs = [jobs EXCEPT ![m] = q] BY <1>1
<1>12. ASSUME NEW z, Sound(coord, n, z), Unmoved(w, z), ~Prepares(z), Turns(z),
              \/ Answer(m, job, z) /\ jobs' = jobs
              \/ Refuse(m, job, jobs)
       PROVE  World(coord', n, client', worker', jobs') /\ Undone(coord, coord', worker')
  BY <1>9, <1>12, <1>11, <1>10, Answered, Refused DEF n
<1>13. World(coord', n, client', worker', jobs') /\ Undone(coord, coord', worker')
  BY <1>5, <1>6, <1>12
<1> QED BY <1>1, <1>2, <1>6, Spends, <1>13 DEF Good, LoadInv, n

\* RequestExpires: the member waits no longer, and the machine may still do it.
LEMMA RequestExpiresKept ==
  ASSUME LoadInv, NEW m \in Member, RequestExpires(m)
  PROVE  Good
<1> DEFINE w == worker[m]
           n == spent.load
           q == jobs[m]
<1>1. /\ coord \in Coordinator /\ worker \in [Member -> Machine] /\ n \in Nat /\ linked \subseteq Guest
      /\ jobs \in [Member -> Seq(Request)] /\ q \in Seq(Request) /\ q = jobs[m]
      /\ w \in Machine /\ Sound(coord, n, w) /\ n = spent.load /\ client[m] \in Client
      /\ spent \in [load : Nat, resume : Nat, fault : Nat, stuck : BOOLEAN]
      /\ \A i \in DOMAIN q : RequestOK(n, coord.epoch, q[i])
      /\ Awaits(client[m], w, q) /\ w = worker[m]
  BY Members
<1>2. PICK i \in DOMAIN q :
        /\ q[i].use \in {"chain", "import"}
        /\ Refuse(m, q[i], [jobs EXCEPT ![m][i].use = "none"])
        /\ spent' = [spent EXCEPT !.fault = @ + 1, !.stuck = @ \/ (m = Host /\ q[i].type = "rollback")]
  BY DEF RequestExpires
<1>3. linked' = linked /\ worker' = [worker EXCEPT ![m] = w] BY <1>1 DEF RequestExpires
<1>4. spent' \in [load : Nat, resume : Nat, fault : Nat, stuck : BOOLEAN] /\ spent'.load = n
  <2> DEFINE b == spent.stuck \/ (m = Host /\ q[i].type = "rollback")
  <2>1. spent' = [spent EXCEPT !.fault = @ + 1, !.stuck = b] BY <1>2
  <2>2. b \in BOOLEAN BY Zenon
  <2> HIDE DEF b
  <2>3. spent.fault + 1 \in Nat /\ spent \in [load : Nat, resume : Nat, fault : Nat, stuck : BOOLEAN]
    BY <1>1
  <2>4. [spent EXCEPT !.fault = @ + 1, !.stuck = b] \in [load : Nat, resume : Nat, fault : Nat, stuck : BOOLEAN]
    BY <2>2, <2>3, Zenon
  <2> QED BY <2>1, <2>4, <2>3
<1> DEFINE q2 == [q EXCEPT ![i].use = "none"]
           job == q[i]
<1>5. Refuse(m, job, [jobs EXCEPT ![m] = q2]) BY <1>1, <1>2
<1>6. /\ q2 \in Seq(Request) /\ Len(q2) = Len(q) /\ Loosened(q2, q) /\ q2[i].use = "none"
      /\ \A j \in DOMAIN q : j # i => q2[j] = q[j]
  BY <1>1, GivesUp
<1>7. job \in Request /\ RequestOK(n, coord.epoch, job) /\ job.use \in {"chain", "import"} /\ job = q[i]
  BY <1>1, <1>2, Rows
<1> HIDE DEF w, n, q, q2, job
<1>8. Waits(q2) = Waits(q) \ {i} BY <1>6 DEF Loosened, Waits
<1>9. Taken(m, job, w, q2)
  <2>1. Eased(q2, q) /\ \A j \in DOMAIN q2 : RequestOK(n, coord.epoch, q2[j])
    BY <1>1, <1>6, EasedLoosened, EasedOK
  <2>2. ASSUME job.use = "chain" PROVE Waits(q2) = {} /\ ~Prepares(w)
    BY <1>2, <1>7, <2>2, <1>1, <1>8 DEF Waits, Awaits, Prepares
  <2>3. ASSUME job.use # "chain" PROVE Awaits(client[m], w, q2)
    BY <1>7, <2>3, <1>8, <1>1, AwaitsSame DEF Waits
  <2>4. Unmoved(worker[m], w) BY <1>1 DEF Unmoved
  <2> QED BY <1>1, <1>6, <1>7, <2>1, <2>2, <2>3, <2>4 DEF Taken, n, q
<1> QED BY <1>1, <1>3, <1>4, <1>5, <1>9, Refused DEF Good, LoadInv, n

\* CandidateExpires: a candidate is dropped with its copy.
LEMMA CandidateExpiresKept ==
  ASSUME LoadInv, NEW m \in Member, CandidateExpires(m)
  PROVE  Good
<1> DEFINE w == worker[m]
           c == client[m]
           n == spent.load
           q == jobs[m]
           v == ClearCandidate(w)
<1>1. /\ coord \in Coordinator /\ client \in [Member -> Client] /\ worker \in [Member -> Machine]
      /\ jobs \in [Member -> Seq(Request)] /\ n \in Nat /\ c \in Client /\ w \in Machine /\ q \in Seq(Request)
      /\ Fits(coord, n, m, c, w, q) /\ Sound(coord, n, w) /\ ClientOK(n, c) /\ Awaits(c, w, q)
      /\ \A i \in DOMAIN q : RequestOK(n, coord.epoch, q[i])
      /\ spent \in [load : Nat, resume : Nat, fault : Nat, stuck : BOOLEAN] /\ linked \subseteq Guest
  BY Members
<1>2. /\ worker' = [worker EXCEPT ![m] = v] /\ coord' = coord /\ linked' = linked
      /\ client' = [client EXCEPT ![m] = c] /\ jobs' = [jobs EXCEPT ![m] = q]
  BY <1>1 DEF CandidateExpires
<1>4. Sound(coord, n, v) /\ Unmoved(w, v) /\ v.preparing = w.preparing BY <1>1, ClearsCandidate
<1> HIDE DEF w, c, n, q, v
<1>5. Awaits(c, v, q) BY <1>1, <1>4, AwaitsSame DEF Prepares
<1>6. /\ Alike(coord, coord) /\ (coord.inbox[m] = <<>> => coord.inbox[m] = <<>>)
      /\ Thins(Road(coord, m, c), Road(coord, m, c)) /\ c.attempt \in {c.attempt, 0} /\ Eased(q, q)
      /\ \A x \in Member \ {m} : coord.inbox[x] = coord.inbox[x]
  BY <1>1, OwnRoad, Same, EasedSame DEF Alike
<1>7. Fits(coord, n, m, c, v, q) BY <1>1, <1>4, <1>5, <1>6, Steps
<1>8. World(coord, n, client', worker', jobs') BY <1>1, <1>2, <1>6, <1>7, OwnStep DEF n
<1>9. Undone(coord, coord', worker') BY <1>2 DEF Undone
<1> QED BY <1>1, <1>2, <1>8, <1>9 DEF Good, LoadInv, n, CandidateExpires, Fault

\* Receive: the checkpoint goes to the machine.
LEMMA ReceiveKept ==
  ASSUME LoadInv, NEW m \in Guest, Receive(m)
  PROVE  Good
<1> DEFINE w == worker[m]
           c == client[m]
           n == spent.load
           q == jobs[m]
           d == [c EXCEPT !.incoming = "preparing"]
           x == Job("prepare", c.attempt, "import")
<1>1. /\ m \in Member /\ coord \in Coordinator /\ client \in [Member -> Client] /\ worker \in [Member -> Machine]
      /\ jobs \in [Member -> Seq(Request)] /\ n \in Nat /\ c \in Client /\ w \in Machine /\ q \in Seq(Request)
      /\ Fits(coord, n, m, c, w, q) /\ Sound(coord, n, w) /\ ClientOK(n, c) /\ Awaits(c, w, q)
      /\ \A i \in DOMAIN q : RequestOK(n, coord.epoch, q[i])
      /\ spent \in [load : Nat, resume : Nat, fault : Nat, stuck : BOOLEAN] /\ linked \subseteq Guest
  BY Members DEF Member
<1>2. /\ client' = [client EXCEPT ![m] = d] /\ jobs' = [jobs EXCEPT ![m] = Append(q, x)]
      /\ worker' = [worker EXCEPT ![m] = w] /\ coord' = coord /\ linked' = linked /\ spent' = spent
      /\ c.incoming = "asked"
  BY <1>1 DEF Receive
<1>3. c.attempt \in Nat /\ c.attempt <= n /\ c.attempt # 0 BY <1>1, <1>2 DEF ClientOK, Client
<1>4. x \in Request /\ x.type = "prepare" /\ x.id = c.attempt /\ x.use = "import" BY <1>3, Jobs
<1>5. /\ d \in Client /\ d.attempt = c.attempt /\ d.chain = c.chain /\ d.handling = c.handling
      /\ d.incoming = "preparing"
  BY <1>1 DEF Client
<1> HIDE DEF w, c, n, q, d, x
<1>6. ClientOK(n, d) BY <1>1, <1>5 DEF ClientOK
<1>7. RequestOK(n, coord.epoch, x) BY <1>3, <1>4 DEF RequestOK
<1>8. /\ Append(q, x) \in Seq(Request) /\ Eased(Append(q, x), q)
      /\ \A i \in DOMAIN Append(q, x) : RequestOK(n, coord.epoch, Append(q, x)[i])
  BY <1>1, <1>4, <1>7, EasedAppend, EasedOK, Appends DEF Loosened
<1>9. Awaits(d, w, Append(q, x)) BY <1>1, <1>4, WaitsAppend, <1>5, AwaitsSame
<1>10. /\ Alike(coord, coord) /\ (coord.inbox[m] = <<>> => coord.inbox[m] = <<>>)
       /\ Thins(Road(coord, m, d), Road(coord, m, c)) /\ d.attempt \in {c.attempt, 0} /\ Unmoved(w, w)
       /\ \A y \in Member \ {m} : coord.inbox[y] = coord.inbox[y]
  BY <1>5, <1>1, OwnRoad, Same DEF Road, Alike, Unmoved
<1>11. Fits(coord, n, m, d, w, Append(q, x)) BY <1>1, <1>5, <1>6, <1>8, <1>9, <1>10, Steps
<1>13. Undone(coord, coord', worker') BY <1>2 DEF Undone
<1> QED BY <1>1, <1>2, <1>10, <1>11, OwnStep, <1>13 DEF Good, LoadInv, n

-----------------------------------------------------------------------------
(* The session goes on.                                                    *)

\* Sockets and links say nothing of what a member reads, asks and keeps.
LEMMA Connects ==
  ASSUME NEW k, NEW n, NEW cs, NEW ws, NEW qs, World(k, n, cs, ws, qs), NEW k2 \in Coordinator,
         Alike(k, k2), k2.inbox = k.inbox
  PROVE  World(k2, n, cs, ws, qs)
<1>1. ASSUME NEW x \in Member PROVE Fits(k2, n, x, cs[x], ws[x], qs[x]) BY Elsewhere DEF World
<1>2. Phased(k2, n) BY DEF World, Phased, Alike
<1> QED BY <1>1, <1>2 DEF World

\* A step of the coordinator alone.
LEMMA Onwards ==
  ASSUME LoadInv, UNCHANGED <<client, worker, jobs, spent>>, linked' \subseteq Guest,
         NEW k2, coord' = k2, World(k2, spent.load, client, worker, jobs), Undone(coord, k2, worker)
  PROVE  Good
BY DEF LoadInv, Good

\* LoadExpires: the time of a load or of its rollback is up.
LEMMA LoadExpiresKept ==
  ASSUME LoadInv, LoadExpires
  PROVE  Good
<1> DEFINE k2 == IF coord.load.phase = "rolling_back" THEN FinishRollback(coord, TRUE) ELSE AbortLoad(coord)
<1>1. World(coord, spent.load, client, worker, jobs) /\ spent.load \in Nat /\ linked \subseteq Guest
  BY DEF LoadInv
<1>2. World(k2, spent.load, client, worker, jobs) /\ Undone(coord, k2, worker) BY <1>1, Expires
<1>3. coord' = k2 /\ linked' = linked /\ UNCHANGED <<client, worker, jobs, spent>>
  BY DEF LoadExpires
<1> HIDE DEF k2
<1> QED BY <1>1, <1>2, <1>3, Onwards

\* BarrierExpires: the time of a barrier is up.
LEMMA BarrierExpiresKept ==
  ASSUME LoadInv, BarrierExpires
  PROVE  Good
<1> DEFINE k2 == Stop(coord)
<1>1. World(coord, spent.load, client, worker, jobs) /\ spent.load \in Nat /\ linked \subseteq Guest
  BY DEF LoadInv
<1>2. World(k2, spent.load, client, worker, jobs) /\ Undone(coord, k2, worker) BY <1>1, Stops
<1>3. coord' = k2 /\ linked' = linked /\ UNCHANGED <<client, worker, jobs, spent>>
  BY DEF BarrierExpires
<1> HIDE DEF k2
<1> QED BY <1>1, <1>2, <1>3, Onwards

\* Pause: a game that is on has no load.
LEMMA PauseKept ==
  ASSUME LoadInv, Pause
  PROVE  Good
<1> DEFINE k2 == [coord EXCEPT !.status = "paused"]
<1>1. World(coord, spent.load, client, worker, jobs) /\ spent.load \in Nat /\ linked \subseteq Guest
  BY DEF LoadInv
<1>2. coord \in Coordinator /\ Phased(coord, spent.load) BY <1>1, WorldIs
<1>3. coord.status = "playing" /\ coord' = k2 /\ linked' = linked /\ UNCHANGED <<client, worker, jobs, spent>>
  BY DEF Pause
<1>4. coord.load = Nil /\ coord.point <= spent.load BY <1>2, <1>3 DEF Phased
<1>5. /\ k2 \in Coordinator /\ k2.load = Nil /\ Off(k2) /\ k2.point = coord.point /\ k2.epoch = coord.epoch
      /\ k2.inbox = coord.inbox
  BY <1>2, <1>4 DEF Coordinator, Off
<1> HIDE DEF k2
<1>6. coord.epoch <= k2.epoch BY <1>2, <1>5 DEF Coordinator
<1>7. World(k2, spent.load, client, worker, jobs) BY <1>1, <1>4, <1>5, <1>6, Idles
<1>8. Undone(coord, k2, worker) BY <1>4 DEF Undone
<1> QED BY <1>1, <1>3, <1>7, <1>8, Onwards

\* Resume: a barrier is drawn, its number new to everybody.
LEMMA ResumeKept ==
  ASSUME LoadInv, Resume
  PROVE  Good
<1> DEFINE k2 == SendTo([coord EXCEPT !.status = "starting", !.acks = {}, !.epoch = @ + 1],
                        Member, Barrier(coord.point, coord.epoch + 1))
<1>1. /\ World(coord, spent.load, client, worker, jobs) /\ spent.load \in Nat /\ linked \subseteq Guest
      /\ spent \in [load : Nat, resume : Nat, fault : Nat, stuck : BOOLEAN]
  BY DEF LoadInv
<1>2. /\ coord.load = Nil /\ coord' = k2 /\ linked' = linked /\ client' = client /\ worker' = worker
      /\ jobs' = jobs /\ spent' = [spent EXCEPT !.resume = @ + 1]
  BY DEF Resume
<1>3. World(k2, spent.load, client, worker, jobs) BY <1>1, <1>2, Resumes
<1> HIDE DEF k2
<1>4. Undone(coord, coord', worker') BY <1>2 DEF Undone
<1> QED BY <1>1, <1>2, <1>3, <1>4 DEF Good, LoadInv

\* Propose: a load is drawn, its number new to everybody.
LEMMA ProposeKept ==
  ASSUME LoadInv, Propose
  PROVE  Good
<1> DEFINE n == spent.load
           c == client[Host]
           d == [c EXCEPT !.saved = TRUE]
           w == worker[Host]
           q == jobs[Host]
           p == [id |-> n + 1, phase |-> "freezing", boundaries |-> {},
                 prepared |-> {}, committed |-> {}, rolledBack |-> {}]
           k2 == SendTo([coord EXCEPT !.load = p], Member, Event("Hold", n + 1))
<1>1. /\ Host \in Member /\ coord \in Coordinator /\ client \in [Member -> Client] /\ worker \in [Member -> Machine]
      /\ jobs \in [Member -> Seq(Request)] /\ n \in Nat /\ c \in Client /\ w \in Machine /\ q \in Seq(Request)
      /\ Fits(coord, n, Host, c, w, q) /\ Sound(coord, n, w) /\ ClientOK(n, c) /\ Awaits(c, w, q)
      /\ \A i \in DOMAIN q : RequestOK(n, coord.epoch, q[i])
      /\ spent \in [load : Nat, resume : Nat, fault : Nat, stuck : BOOLEAN] /\ linked \subseteq Guest
  BY Members DEF Member
<1>2. /\ client' = [client EXCEPT ![Host] = d] /\ worker' = [worker EXCEPT ![Host] = w]
      /\ jobs' = [jobs EXCEPT ![Host] = q] /\ linked' = linked
  BY <1>1 DEF Propose
<1>3. coord.load = Nil /\ coord.status \in {"paused", "resume_ready"} /\ coord' = k2 BY DEF Propose
<1>4. spent' = [spent EXCEPT !.load = @ + 1] BY DEF Propose
<1>5. n + 1 \in Nat /\ spent'.load = n + 1 /\ spent' \in [load : Nat, resume : Nat, fault : Nat, stuck : BOOLEAN]
  <2>1. spent \in [load : Nat, resume : Nat, fault : Nat, stuck : BOOLEAN] /\ spent.load + 1 \in Nat
    BY <1>1
  <2>2. spent'.load = spent.load + 1 BY <1>4, <2>1
  <2>3. spent' \in [load : Nat, resume : Nat, fault : Nat, stuck : BOOLEAN] BY <1>4, <2>1, Zenon
  <2> QED BY <2>1, <2>2, <2>3
<1>6. /\ d \in Client /\ d.attempt = c.attempt /\ d.chain = c.chain /\ d.handling = c.handling
      /\ d.incoming = c.incoming
  BY <1>1 DEF Client
<1> HIDE DEF n, c, d, w, q, k2
<1>7. ClientOK(n, d) BY <1>1, <1>6 DEF ClientOK
<1>8. Awaits(d, w, q) BY <1>1, <1>6, AwaitsSame
<1>9. /\ Alike(coord, coord) /\ (coord.inbox[Host] = <<>> => coord.inbox[Host] = <<>>)
      /\ Thins(Road(coord, Host, d), Road(coord, Host, c)) /\ d.attempt \in {c.attempt, 0}
      /\ Eased(q, q) /\ Unmoved(w, w)
      /\ \A x \in Member \ {Host} : coord.inbox[x] = coord.inbox[x]
  BY <1>6, <1>1, OwnRoad, Same, EasedSame DEF Road, Alike, Unmoved
<1>10. Fits(coord, n, Host, d, w, q) BY <1>1, <1>6, <1>7, <1>8, <1>9, Steps
<1>11. World(coord, n, client', worker', jobs') BY <1>1, <1>2, <1>9, <1>10, OwnStep DEF n
<1>12. World(k2, n + 1, client', worker', jobs') BY <1>1, <1>3, <1>11, Proposes DEF k2
<1>13. Undone(coord, coord', worker') BY <1>3 DEF Undone
<1> QED BY <1>1, <1>2, <1>3, <1>5, <1>12, <1>13 DEF Good, LoadInv

\* The host's state is everybody's.
LEMMA ReadyKept ==
  ASSUME LoadInv, Ready
  PROVE  Good
<1> DEFINE n == spent.load
           h == worker[Host].native
           k2 == [coord EXCEPT !.point = h, !.status = "resume_ready"]
           at == [x \in Member |-> [worker[x] EXCEPT !.native = h]]
<1>1. /\ Host \in Member /\ coord \in Coordinator /\ client \in [Member -> Client] /\ worker \in [Member -> Machine]
      /\ jobs \in [Member -> Seq(Request)] /\ n \in Nat /\ worker[Host] \in Machine
      /\ Sound(coord, n, worker[Host]) /\ World(coord, n, client, worker, jobs)
      /\ spent \in [load : Nat, resume : Nat, fault : Nat, stuck : BOOLEAN] /\ linked \subseteq Guest
  BY Members DEF Member
<1>2. /\ coord.load = Nil /\ coord' = k2 /\ worker' = at /\ client' = client /\ jobs' = jobs
      /\ linked' = linked /\ spent' = spent
  BY DEF Ready
<1>3. h \in Nat /\ h <= n BY <1>1 DEF Sound, MachineOK, Machine
<1> HIDE DEF n, h
<1>4. /\ k2 \in Coordinator /\ k2.load = Nil /\ k2.point = h /\ k2.status = "resume_ready" /\ Off(k2)
      /\ k2.epoch = coord.epoch /\ k2.inbox = coord.inbox
  BY <1>1, <1>2, <1>3 DEF Coordinator, Off
<1> HIDE DEF k2
<1>5. Phased(k2, n) BY <1>3, <1>4 DEF Phased
<1>6. ASSUME NEW x \in Member
      PROVE  /\ at[x] \in Machine /\ at[x].native = h /\ at[x].candidate = worker[x].candidate
             /\ at[x].rollback = worker[x].rollback /\ at[x].preparing = worker[x].preparing
  BY <1>1, <1>3 DEF Machine
<1>7. at \in [Member -> Machine] BY <1>6
<1> HIDE DEF at
<1>8. ASSUME NEW x \in Member PROVE Fits(k2, n, x, client[x], at[x], jobs[x])
  <2> DEFINE road == Road(coord, x, client[x])
             w == worker[x]
             v == at[x]
  <2>1. /\ Typed(client[x], w, jobs[x]) /\ Numbered(n, coord.epoch, road, client[x], w, jobs[x])
        /\ Copied(w) /\ Awaits(client[x], w, jobs[x]) /\ HoldFirst(coord, x, road, client[x].attempt)
    BY <1>1, WorldIs
  <2>2. /\ v \in Machine /\ v.native = h /\ v.candidate = w.candidate
        /\ v.rollback = w.rollback /\ v.preparing = w.preparing
    BY <1>6
  <2>3. Road(k2, x, client[x]) = road BY <1>4 DEF Road
  <2> HIDE DEF road, w, v
  <2>4. Numbered(n, k2.epoch, road, client[x], v, jobs[x]) /\ Typed(client[x], v, jobs[x])
    BY <1>3, <1>4, <2>1, <2>2 DEF Numbered, MachineOK, Typed
  <2>5. Copied(v) BY <2>1, <2>2 DEF Copied
  <2>6. Awaits(client[x], v, jobs[x]) BY <2>1, <2>2 DEF Awaits
  <2>7. HoldFirst(k2, x, road, client[x].attempt) BY <1>4, <2>1 DEF HoldFirst
  <2>8. /\ Undoable(k2, v) /\ NotOver(k2, road, jobs[x]) /\ Freezes(k2, x, road, jobs[x])
        /\ Undoes(k2, x, road, v, jobs[x])
    BY <1>4 DEF Undoable, NotOver, Freezes, Undoes
  <2>9. Barred(k2, x, road, client[x].attempt, v, jobs[x]) BY <1>4 DEF Barred, Off
  <2> QED BY <2>3, <2>4, <2>5, <2>6, <2>7, <2>8, <2>9 DEF Fits, InOrder, v
<1>9. World(k2, n, client, at, jobs) BY <1>1, <1>4, <1>5, <1>7, <1>8 DEF World
<1>10. Undone(coord, coord', worker') BY <1>2 DEF Undone
<1> QED BY <1>1, <1>2, <1>9, <1>10 DEF Good, LoadInv, n

-----------------------------------------------------------------------------
(* Sockets and links break and return.                                     *)

\* The members whose link breaks drop what they follow, whatever else is lost.
LEMMA Losing ==
  ASSUME LoadInv, NEW gone, LosesLinks(gone), worker' = worker, NEW k2 \in Coordinator, Alike(coord, k2),
         \A x \in Member : k2.inbox[x] \in {coord.inbox[x], <<>>}
  PROVE  World(k2, spent.load, client', worker', jobs') /\ linked' \subseteq Guest
<1> DEFINE n == spent.load
           cuts(x) == x \in gone \cap linked
           cs == [x \in Member |-> IF x \in gone \cap linked THEN Cleared(client[x]) ELSE client[x]]
           qs == [x \in Member |-> IF x \in gone \cap linked THEN Clearing(client[x], jobs[x]) ELSE jobs[x]]
<1>1. /\ coord \in Coordinator /\ client \in [Member -> Client] /\ worker \in [Member -> Machine]
      /\ jobs \in [Member -> Seq(Request)] /\ n \in Nat /\ Phased(coord, n) /\ linked \subseteq Guest
  BY WorldIs DEF LoadInv
<1>2. client' = cs /\ jobs' = qs /\ linked' \subseteq linked BY DEF LosesLinks
<1> HIDE DEF cs, qs
<1>3. ASSUME NEW x \in Member
      PROVE  Fits(k2, n, x, cs[x], worker[x], qs[x]) /\ cs[x] \in Client /\ qs[x] \in Seq(Request)
  <2> DEFINE c == client[x]
             d == cs[x]
             w == worker[x]
             q == jobs[x]
             q2 == qs[x]
  <2>1. /\ c \in Client /\ w \in Machine /\ q \in Seq(Request) /\ Fits(coord, n, x, c, w, q)
        /\ Sound(coord, n, w) /\ ClientOK(n, c) /\ Awaits(c, w, q)
        /\ \A i \in DOMAIN q : RequestOK(n, coord.epoch, q[i])
    BY Members
  <2>2. d = (IF x \in gone \cap linked THEN Cleared(c) ELSE c)
        /\ q2 = (IF x \in gone \cap linked THEN Clearing(c, q) ELSE q)
    BY DEF cs, qs
  <2>3. k2.inbox[x] \in {coord.inbox[x], <<>>} OBVIOUS
  <2> HIDE DEF c, d, w, q, q2, n
  <2>4. /\ d \in Client /\ ClientOK(n, d) /\ d.attempt \in {c.attempt, 0} /\ d.chain = c.chain
        /\ d.handling = c.handling
    BY <1>1, <2>1, <2>2, ClearedOK
  <2>5. /\ q2 \in Seq(Request) /\ Eased(q2, q) /\ Waits(q2) = Waits(q)
        /\ \A i \in DOMAIN q2 : RequestOK(n, coord.epoch, q2[i])
    BY <1>1, <2>1, <2>2, Clears, WaitsForgotten, ClearingOK, EasedSame
  <2>6. Awaits(d, w, q2) BY <2>1, <2>4, <2>5, AwaitsSame
  <2>7. Thins(Road(k2, x, d), Road(coord, x, c))
    <3>1. coord.inbox[x] \in Seq(Notice) /\ c.chain \in Seq(Notice) /\ Road(coord, x, c) \in Seq(Notice)
      BY <1>1, <2>1, OwnRoad
    <3>2. CASE k2.inbox[x] = coord.inbox[x] BY <2>4, <3>2, <3>1, Same DEF Road
    <3>3. CASE k2.inbox[x] = <<>>
      <4>1. \A s, t \in Seq(Notice) : s \o <<>> = s /\ Thins(s, s \o t) BY Cut
      <4>2. c.chain \o <<>> = c.chain /\ Thins(c.chain, c.chain \o coord.inbox[x])
        BY <3>1, <4>1, Zenon
      <4> QED BY <4>2, <2>4, <3>3 DEF Road
    <3> QED BY <2>3, <3>2, <3>3
  <2>8. Unmoved(w, w) /\ (coord.inbox[x] = <<>> => k2.inbox[x] = <<>>) BY <2>3 DEF Unmoved
  <2>9. Fits(k2, n, x, d, w, q2) BY <1>1, <2>1, <2>4, <2>5, <2>6, <2>7, <2>8, Steps
  <2> QED BY <2>4, <2>5, <2>9 DEF d, w, q2
<1>5. Phased(k2, n) BY <1>1 DEF Phased, Alike
<1>6. World(k2, n, cs, worker, qs) BY <1>1, <1>3, <1>5 DEF World, cs, qs
<1> QED BY <1>1, <1>2, <1>6 DEF n

\* What the coordinator makes of a lost socket or link.
LEMMA Reconsiders ==
  ASSUME LoadInv, NEW k \in Coordinator, Alike(coord, k), coord' = Reconfigured(k),
         World(k, spent.load, client', worker', jobs')
  PROVE  World(coord', spent.load, client', worker', jobs') /\ Undone(coord, coord', worker')
<1> DEFINE k2 == Reconfigured(k)
<1>1. spent.load \in Nat BY DEF LoadInv
<1>2. World(k2, spent.load, client', worker', jobs') /\ Undone(k, k2, worker') BY <1>1, Reconfigures
<1>3. k.load = coord.load /\ k.point = coord.point /\ coord' = k2 BY DEF Alike
<1> HIDE DEF k2
<1>4. Undone(coord, k2, worker') BY <1>2, <1>3 DEF Undone
<1> QED BY <1>2, <1>3, <1>4

\* Disconnect: a socket is lost with what was on its way.
LEMMA DisconnectKept ==
  ASSUME LoadInv, NEW m \in Member, Disconnect(m)
  PROVE  Good
<1> DEFINE k == [coord EXCEPT !.connected = @ \ {m}, !.transport = @ \ Closing(m), !.inbox[m] = <<>>]
<1>1. coord \in Coordinator /\ spent.load \in Nat BY Members
<1>2. /\ LosesLinks(Closing(m)) /\ worker' = worker /\ coord' = Reconfigured(k) /\ Fault
  BY DEF Disconnect
<1>3. /\ coord.inbox \in [Member -> Seq(Notice)]
      /\ [coord.inbox EXCEPT ![m] = <<>>] \in [Member -> Seq(Notice)]
  BY <1>1, Rows, EmptySeq DEF Coordinator
<1>5. /\ k \in Coordinator /\ Alike(coord, k) /\ k.inbox = [coord.inbox EXCEPT ![m] = <<>>]
  BY <1>1, <1>3 DEF Coordinator, Alike
<1> HIDE DEF k
<1>7. World(k, spent.load, client', worker', jobs') /\ linked' \subseteq Guest
  BY <1>2, <1>5, <1>3, Losing
<1> QED BY <1>2, <1>7, <1>5, Reconsiders, Spends DEF Good, LoadInv

\* Replace: a socket is replaced before it is missed.
LEMMA ReplaceKept ==
  ASSUME LoadInv, NEW m \in Member, Replace(m)
  PROVE  Good
<1> DEFINE k == [coord EXCEPT !.inbox[m] = <<>>]
<1>1. coord \in Coordinator /\ spent.load \in Nat BY Members
<1>2. /\ LosesLinks(Closing(m)) /\ worker' = worker /\ coord' = k /\ Fault BY DEF Replace
<1>3. k = WithBox(coord, m, <<>>) /\ <<>> \in Seq(Notice) BY EmptySeq DEF WithBox
<1> HIDE DEF k
<1>4. k \in Coordinator /\ Alike(coord, k) /\ k.inbox[m] = <<>>
      /\ \A x \in Member \ {m} : k.inbox[x] = coord.inbox[x]
  BY <1>1, <1>3, Inboxes
<1>6. World(k, spent.load, client', worker', jobs') /\ linked' \subseteq Guest BY <1>2, <1>4, Losing
<1>7. Undone(coord, coord', worker') BY <1>2, <1>4 DEF Undone, Alike
<1> QED BY <1>2, <1>6, <1>7, Spends DEF Good, LoadInv

\* LinkBreaks: a guest learns of it first.
LEMMA LinkBreaksKept ==
  ASSUME LoadInv, NEW m \in Guest, LinkBreaks(m)
  PROVE  Good
BY Members, Losing, Spends DEF Member, LinkBreaks, Alike, Undone, Good, LoadInv

\* LinkReported: the coordinator learns of it.
LEMMA LinkReportedKept ==
  ASSUME LoadInv, NEW m \in Guest, LinkReported(m)
  PROVE  Good
<1> DEFINE k == [coord EXCEPT !.transport = @ \ {m}]
<1>1. /\ coord \in Coordinator /\ World(coord, spent.load, client, worker, jobs) /\ linked \subseteq Guest
      /\ spent \in [load : Nat, resume : Nat, fault : Nat, stuck : BOOLEAN] /\ spent.load \in Nat
  BY Members DEF Member
<1>2. /\ coord' = Reconfigured(k) /\ linked' = linked /\ client' = client /\ worker' = worker
      /\ jobs' = jobs /\ spent' = spent
  BY DEF LinkReported
<1>3. k \in Coordinator /\ Alike(coord, k) /\ k.inbox = coord.inbox BY <1>1 DEF Coordinator, Alike
<1> HIDE DEF k
<1>4. World(k, spent.load, client', worker', jobs') BY <1>1, <1>2, <1>3, Connects
<1> QED BY <1>1, <1>2, <1>3, <1>4, Reconsiders DEF Good, LoadInv

\* LinkReturns: a link is open again.
LEMMA LinkReturnsKept ==
  ASSUME LoadInv, NEW m \in Guest, LinkReturns(m)
  PROVE  Good
<1> DEFINE k == [coord EXCEPT !.transport = @ \cup {m}]
<1>1. /\ coord \in Coordinator /\ World(coord, spent.load, client, worker, jobs) /\ linked \subseteq Guest
  BY Members DEF Member
<1>2. /\ coord' = k /\ linked' = linked \cup {m} /\ UNCHANGED <<client, worker, jobs, spent>>
  BY DEF LinkReturns
<1>3. k \in Coordinator /\ Alike(coord, k) /\ k.inbox = coord.inbox BY <1>1 DEF Coordinator, Alike
<1> HIDE DEF k
<1>4. World(k, spent.load, client, worker, jobs) BY <1>1, <1>3, Connects
<1>5. Undone(coord, k, worker) BY <1>3 DEF Undone, Alike
<1>6. linked' \subseteq Guest BY <1>1, <1>2
<1> QED BY <1>2, <1>4, <1>5, <1>6, Onwards

\* A member that is back while a load is undone is told again.
LEMMA ReconnectKept ==
  ASSUME LoadInv, NEW m \in Member, Reconnect(m)
  PROVE  Good
<1> DEFINE n == spent.load
           k == [coord EXCEPT !.connected = @ \cup {m}]
           e == Event("Rollback", coord.load.id)
           again == coord.load # Nil /\ coord.load.phase = "rolling_back"
                      /\ m \in coord.load.boundaries \ coord.load.rolledBack
           k2 == SendTo(k, {m}, e)
<1>1. /\ coord \in Coordinator /\ World(coord, n, client, worker, jobs) /\ linked \subseteq Guest
      /\ n \in Nat /\ Phased(coord, n)
      /\ HoldFirst(coord, m, Road(coord, m, client[m]), client[m].attempt)
  BY Members
<1>2. k \in Coordinator /\ Alike(coord, k) /\ k.inbox = coord.inbox BY <1>1 DEF Coordinator, Alike
<1>3. coord' = (IF again THEN k2 ELSE k) /\ linked' = linked /\ UNCHANGED <<client, worker, jobs, spent>>
  BY <1>1 DEF Coordinator, Reconnect
<1> HIDE DEF k, n
<1>4. World(k, n, client, worker, jobs) BY <1>1, <1>2, Connects
<1>5. ASSUME again PROVE World(k2, n, client, worker, jobs) /\ Undone(coord, k2, worker)
  <2>1. k.load = coord.load /\ k.load # Nil /\ k.load.phase = "rolling_back" /\ m \in k.load.boundaries
        /\ k.status = coord.status
    BY <1>2, <1>5 DEF Alike
  <2>2. coord.load.id = n /\ n # 0 /\ Off(k) BY <1>1, <2>1 DEF Phased, Off
  <2>3. e \in Notice /\ e.type = "Rollback" /\ e.id = n BY <1>1, <2>2, Events
  <2> HIDE DEF e
  <2>4. NoticeOK(n, k.epoch, e) BY <1>1, <2>2, <2>3 DEF NoticeOK
  <2>5. Road(k, m, client[m]) = Road(coord, m, client[m]) BY <1>2 DEF Road
  <2>7. MayHear(k, n, m, Road(k, m, client[m]), client[m].attempt, jobs[m], e)
    BY <2>1, <2>2, <2>3, <2>4, <1>1, <2>5 DEF MayHear, Off, HoldFirst
  <2>8. World(k2, n, client, worker, jobs) /\ Alike(k, k2) BY <1>4, <2>3, <2>7, Notifies
  <2>9. k2.load # Nil BY <2>1, <2>8 DEF Alike
  <2> QED BY <2>8, <2>9 DEF Undone
<1>6. Undone(coord, k, worker) BY <1>2 DEF Undone, Alike
<1> HIDE DEF k2
<1>7. CASE again BY <1>3, <1>7, <1>1, <1>5, Onwards DEF n
<1>8. CASE ~again BY <1>3, <1>8, <1>1, <1>4, <1>6, Onwards DEF n
<1> QED BY <1>7, <1>8

-----------------------------------------------------------------------------
(* The theorems.                                                           *)

\* The game everybody has: nothing to read, nothing to ask, state 0.
LEMMA StartsPaused ==
  ASSUME LoadInit
  PROVE  LoadInv
<1> DEFINE k == coord
<1>1. /\ k = [load |-> Nil, point |-> 0, epoch |-> 0, status |-> "paused", acks |-> {},
              connected |-> Member, transport |-> Guest, inbox |-> [m \in Member |-> <<>>]]
      /\ linked = Guest
      /\ client = [m \in Member |-> [attempt |-> 0, saved |-> FALSE, chain |-> <<>>, handling |-> FALSE,
                                     incoming |-> "none"]]
      /\ worker = [m \in Member |-> [native |-> 0, candidate |-> 0, rollback |-> Nil, preparing |-> Nil]]
      /\ jobs = [m \in Member |-> <<>>]
      /\ spent = [load |-> 0, resume |-> 0, fault |-> 0, stuck |-> FALSE]
  BY DEF LoadInit
<1>2. <<>> \in Seq(Notice) /\ <<>> \in Seq(Request) /\ DOMAIN <<>> = {} BY EmptySeq, Rows
<1>4. /\ k \in Coordinator /\ k.load = Nil /\ k.point = 0 /\ k.epoch = 0 /\ k.status = "paused" /\ Off(k)
      /\ k.inbox = [m \in Member |-> <<>>]
  BY <1>1, <1>2 DEF Coordinator, Off
<1> HIDE DEF k
<1>6. ASSUME NEW m \in Member
      PROVE  /\ client[m] \in Client /\ client[m].attempt = 0 /\ client[m].chain = <<>>
             /\ ~client[m].handling /\ client[m].incoming = "none"
             /\ worker[m] \in Machine /\ worker[m].native = 0 /\ worker[m].candidate = 0
             /\ worker[m].rollback = Nil /\ worker[m].preparing = Nil
             /\ jobs[m] = <<>>
  BY <1>1, <1>2 DEF Client, Machine
<1>7. ASSUME NEW m \in Member PROVE Fits(k, 0, m, client[m], worker[m], jobs[m])
  <2>1. Road(k, m, client[m]) = <<>> BY <1>2, <1>4, <1>6, ConcatEmptySeq DEF Road
  <2>2. Numbered(0, k.epoch, <<>>, client[m], worker[m], jobs[m]) /\ Typed(client[m], worker[m], jobs[m])
    <3>1. ClientOK(0, client[m]) BY <1>2, <1>6 DEF ClientOK
    <3>2. MachineOK(0, worker[m]) BY <1>6 DEF MachineOK
    <3> QED BY <1>6, <3>1, <3>2, <1>2 DEF Numbered, Typed
  <2>3. Copied(worker[m]) /\ Undoable(k, worker[m]) BY <1>4, <1>6 DEF Copied, Undoable
  <2>4. Awaits(client[m], worker[m], jobs[m]) BY <1>2, <1>6, AwaitsNothing DEF Waits, Prepares
  <2> QED
    BY <2>1, <2>2, <2>3, <2>4, <1>2, <1>4 DEF Fits, InOrder, HoldFirst, NotOver, Barred, Freezes,
       Undoes, Off
<1>9. Phased(k, 0) BY <1>4 DEF Phased
<1>10. World(k, 0, client, worker, jobs) BY <1>4, <1>7, <1>1, <1>2, <1>6, <1>9 DEF World
<1> QED BY <1>1, <1>10 DEF LoadInv, k

\* Every step keeps the invariant, and ends no load that is not undone.
LEMMA StepsAreGood ==
  ASSUME LoadInv, [LoadNext]_loadVars
  PROVE  Good
<1>1. CASE UNCHANGED loadVars BY <1>1 DEF loadVars, Good, LoadInv, Undone
<1>2. CASE LoadNext
  <2>1. ASSUME NEW m \in Member,
               \/ Deliver(m) \/ HandleLoad(m) \/ Work(m) \/ PrepareEnds(m) \/ RequestExpires(m)
               \/ CandidateExpires(m) \/ Disconnect(m) \/ Replace(m) \/ Reconnect(m)
        PROVE  Good
    BY <2>1, DeliverKept, HandleLoadKept, WorkKept, PrepareEndsKept, RequestExpiresKept,
       CandidateExpiresKept, DisconnectKept, ReplaceKept, ReconnectKept
  <2>2. ASSUME NEW m \in Guest, Receive(m) \/ LinkBreaks(m) \/ LinkReported(m) \/ LinkReturns(m)
        PROVE  Good
    BY <2>2, ReceiveKept, LinkBreaksKept, LinkReportedKept, LinkReturnsKept
  <2>3. Propose \/ LoadExpires \/ Ready \/ Resume \/ BarrierExpires \/ Pause => Good
    BY ProposeKept, LoadExpiresKept, ReadyKept, ResumeKept, BarrierExpiresKept, PauseKept
  <2> QED BY <1>2, <2>1, <2>2, <2>3 DEF LoadNext
<1> QED BY <1>1, <1>2

\* What the invariant is for: the types, and the two invariants the run checks.
LEMMA InvSays ==
  ASSUME LoadInv
  PROVE  LoadTypeOK /\ StartedTogether /\ CopyKept
<1>1. /\ coord \in Coordinator /\ Phased(coord, spent.load) /\ linked \subseteq Guest
      /\ spent \in [load : Nat, resume : Nat, fault : Nat, stuck : BOOLEAN]
      /\ client \in [Member -> Client] /\ worker \in [Member -> Machine] /\ jobs \in [Member -> Seq(Request)]
  BY WorldIs DEF LoadInv
<1>2. ASSUME NEW m \in Member
      PROVE  /\ Awaits(client[m], worker[m], jobs[m]) /\ Undoable(coord, worker[m])
             /\ Barred(coord, m, Road(coord, m, client[m]), client[m].attempt, worker[m], jobs[m])
  BY WorldIs DEF LoadInv
<1>3. LoadTypeOK BY <1>1, <1>2 DEF LoadTypeOK
<1>4. StartedTogether BY <1>1, <1>2 DEF StartedTogether, Phased, Barred, AtPoint
<1>5. CopyKept BY <1>2 DEF CopyKept, Undoable
<1> QED BY <1>3, <1>4, <1>5

\* The invariant holds in every state of every behaviour.
THEOREM LoadInvHolds == LoadSpec => []LoadInv
<1>1. LoadInit => LoadInv BY StartsPaused
<1>2. LoadInv /\ [LoadNext]_loadVars => LoadInv' BY StepsAreGood DEF Good
<1> QED BY <1>1, <1>2, PTL DEF LoadSpec

\* The coordinator, the clients and the machines keep records of their types, and a chain of load events that is
\* being handled waits for exactly one request: it never hangs.
THEOREM LoadTypes == LoadSpec => []LoadTypeOK
<1>1. LoadInv => LoadTypeOK BY InvSays
<1> QED BY <1>1, LoadInvHolds, PTL

\* A game goes on only with every machine at the one state the session knows, whatever loads, failures, lost
\* sockets and broken links came before the barrier.
THEOREM StartsTogether == LoadSpec => []StartedTogether
<1>1. LoadInv => StartedTogether BY InvSays
<1> QED BY <1>1, LoadInvHolds, PTL

\* A machine that replaced its state keeps the copy of the former one as long as the load may be undone.
THEOREM CopiesAreKept == LoadSpec => []CopyKept
<1>1. LoadInv => CopyKept BY InvSays
<1> QED BY <1>1, LoadInvHolds, PTL

\* A failed load is over only when the host's machine, and every machine that answered, is back at the state the
\* session had.
THEOREM FailedLoadsAreUndone == LoadSpec => FailedLoadIsUndone
<1>1. LoadInv /\ [LoadNext]_loadVars =>
        [coord.load # Nil /\ coord'.load = Nil /\ coord'.status = "paused" =>
           \A m \in coord.load.boundaries \cap (coord.load.rolledBack \cup {Host}) :
             worker'[m].native = coord.point]_loadVars
  BY StepsAreGood DEF Good, Undone
<1>2. LoadSpec => [][coord.load # Nil /\ coord'.load = Nil /\ coord'.status = "paused" =>
           \A m \in coord.load.boundaries \cap (coord.load.rolledBack \cup {Host}) :
             worker'[m].native = coord.point]_loadVars
  BY <1>1, LoadInvHolds, PTL DEF LoadSpec
<1> QED BY <1>2 DEF FailedLoadIsUndone
=============================================================================
