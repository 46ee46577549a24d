-------------------------- MODULE DeviceCacheProofs --------------------------
(***************************************************************************)
(* Theorems about Device's cache, keys and close, for any number of work   *)
(* items, sectors, buckets and punctures, on top of DeviceProofs.          *)
(*                                                                         *)
(* Pointing: what the lists hold and where those that walk them can be.    *)
(* Stored, given Pointing: what the cache, the key table and the two PPRF  *)
(* keys hold, at rest and while a refresh is half done; every step of a    *)
(* thread that holds a bucket keeps it.  LagOK, given Stored: an unlink    *)
(* older than the destructor is on the disk, or its sector is still to     *)
(* come in the destructor's pass.  Rest: what explains a fault, and the    *)
(* types that nothing else needs.  Each part is shown preserved given the  *)
(* ones before it, one lemma per action.                                   *)
(***************************************************************************)
EXTENDS DeviceProofs, SequenceTheorems, FiniteSetTheorems

-----------------------------------------------------------------------------
(* The lists and the pointers of those that walk them.                     *)

Listed(l) == l \in Seq(Sector) /\ \A i, j \in 1 .. Len(l) : l[i] = l[j] => i = j

\* A list holds each of its bucket's sectors once.
ListsOK ==
  /\ DOMAIN list = Bucket
  /\ \A b \in Bucket : Listed(list[b]) /\ \A s \in Range(list[b]) : BucketOf(s) = b

\* What HolderOK says, the other way round.
Holds(t) == pc[t] \in Holding /\ t \notin reading
Locked(t) == Holds(t) => lock[bkt[t]] = t
HoldsOK == \A t \in Thread : Locked(t)

\* A work item looks for its sector in the bucket it has locked.
Placed == {"down", "read", "recheck", "use", "up"}
ItemAt(i) ==
  /\ pc[i] \in Placed => at[i] \in Sector /\ bkt[i] = BucketOf(at[i])
  /\ pc[i] \in {"read", "recheck"} => ~Cached(at[i])
  /\ pc[i] = "use" => Cached(at[i])

\* A walker is on an entry of its bucket, sees a refresh take entries away, or
\* is on none any more.
OnEntry(t) ==
  at[t] \in Sector /\ Cached(at[t]) /\ BucketOf(at[t]) = bkt[t] /\ next[t] = After(at[t])
Straying(t) ==
  /\ at[t] = Freed \/ (at[t] \in Sector /\ Cached(at[t]))
  /\ next[t] \in {End, Freed} \/ (next[t] \in Sector /\ Cached(next[t]))
Ahead(t) == (at[t] \in Sector => at[t] >= rot) /\ (next[t] \in Sector => next[t] >= rot)
Lost(t) == at[t] = Freed /\ next[t] \in {End, Freed}
WalkAt(t) ==
  /\ pc[t] \in {"check", "has_room", "down_write", "write"} \/ (pc[t] = "master" /\ t \notin reading)
       => OnEntry(t)
  /\ pc[t] = "entry" => at[t] = End \/ OnEntry(t)
  /\ pc[t] = "leave" => OnEntry(t) \/ Lost(t)
  /\ pc[t] \in {"down_read", "scan"} => Straying(t)
  /\ pc[t] = "scan" => Ahead(t)
  /\ pc[t] \in {"copy", "down_again"} \/ (pc[t] = "master" /\ t \in reading) => Lost(t)

ThreadAt(t) ==
  /\ t \in Item => ItemAt(t)
  /\ t \in {E, D} => WalkAt(t)
  /\ pc[t] \in {"scan", "copy"} => t \in reading

PointersOK ==
  /\ at \in [Thread -> Pointer] /\ next \in [Thread -> Pointer] /\ rot \in 0 .. KeyTableLen
  /\ \A t \in Thread : ThreadAt(t)

Pointing == ListsOK /\ HoldsOK /\ PointersOK

-----------------------------------------------------------------------------
(* Keys and contents.                                                      *)

StoreOK ==
  /\ disk \in [Sector -> [root : Nat \ {Torn}, tag : Nat, ver : Nat]]
  /\ entry \in [Sector -> [tag : Nat, ver : Nat \cup {Junk}, dirty : {"no", "new", "old"}]]
  /\ ver \in [Sector -> Nat]
  /\ pprf = [root |-> pprf.root, punct |-> pprf.punct]
  /\ pprf.root \in Nat /\ pprf.punct \subseteq Nat
  /\ newroot \in Nat /\ tagctr \in Nat

\* Somebody has punctured the tag of the sector he is about to write.
Writing(s) == \E t \in {E, D} : pc[t] = "write" /\ at[t] = s
Refreshes(l) == \E t \in {E, D} : pc[t] = l

\* The cache is right, and so is the disk where the cache is not newer.
ContentAt(s) ==
  /\ Cached(s) => entry[s].ver = ver[s] /\ (entry[s].tag = disk[s].tag \/ Writing(s))
  /\ disk[s].ver <= ver[s]
  /\ disk[s].ver = ver[s] \/ (Cached(s) /\ entry[s].dirty # "no")
ContentsOK == \A s \in Sector : ContentAt(s)

\* The key table is under the PPRF key, or in two parts while it is refreshed.
UnderKey ==
  /\ pprf.root # Torn /\ newroot \in {Torn, pprf.root}
  /\ \A p \in pprf.punct : p < tagctr
  /\ \A s \in Sector :
       /\ disk[s].root = pprf.root /\ disk[s].tag < tagctr
       /\ disk[s].tag \notin pprf.punct \/ Writing(s)
       /\ \A r \in Sector : disk[r].tag = disk[s].tag => r = s
       /\ Writing(s) =>
            /\ entry[s].tag < tagctr /\ entry[s].tag \notin pprf.punct
            /\ \A r \in Sector : disk[r].tag # entry[s].tag
RewrittenAt(s) == disk[s].root = newroot /\ disk[s].tag = s
UnderBoth ==
  /\ pprf.root # Torn /\ newroot = pprf.root + 1
  /\ \A s \in Sector :
       IF s < rot THEN RewrittenAt(s)
       ELSE disk[s].root = pprf.root /\ disk[s].tag \notin pprf.punct
UnderNew ==
  /\ pprf.root = Torn /\ newroot # Torn /\ tagctr = KeyTableLen
  /\ \A s \in Sector : RewrittenAt(s)
KeysOK ==
  IF Refreshes("scan") THEN UnderBoth
  ELSE IF Refreshes("copy") THEN UnderNew ELSE UnderKey

\* A reader that tries the new key has found a sector under it.
RecheckAt(i) == pc[i] = "recheck" => disk[at[i]].root = newroot
RecheckOK == \A i \in Item : RecheckAt(i)

\* An entry about to be dropped is clean.
CleanAt(t) ==
  (pc[t] = "leave" /\ (t = D \/ willEvict)) \/ (pc[t] = "master" /\ t \notin reading) =>
    (at[t] \in Sector => entry[at[t]].dirty = "no")
CleanOK == CleanAt(E) /\ CleanAt(D)

Stored == StoreOK /\ ContentsOK /\ KeysOK /\ RecheckOK /\ CleanOK

-----------------------------------------------------------------------------
(* What the destructor leaves behind.                                      *)

\* A sector that lacks unlinks from before the destructor was called.
Lags(s) == pc[D] # "open" /\ disk[s].ver < due[s]

\* The destructor still comes to it: its pass has not reached the bucket, or, on
\* the list of the bucket, the entry.
NotAfter(l, a, s) == \E i, j \in 1 .. Len(l) : i <= j /\ l[i] = a /\ l[j] = s
InBucket == {"entry", "leave", "check", "has_room", "down_write", "write"}
Passed == {"copy", "down_again", "free", "flush", "closed"}
ToCome(s) ==
  /\ pc[D] = "bucket" => BucketOf(s) >= bkt[D]
  /\ pc[D] \in InBucket \/ (pc[D] = "master" /\ D \notin reading) =>
       \/ BucketOf(s) > bkt[D]
       \/ BucketOf(s) = bkt[D] /\ NotAfter(list[bkt[D]], at[D], s)
  /\ pc[D] = "scan" => s >= rot
  /\ pc[D] \notin Passed /\ (pc[D] = "master" => D \notin reading)
Owed(s) == due[s] \in Nat /\ due[s] <= ver[s] /\ (Lags(s) => ToCome(s))
LagOK == (pc[D] \in Waiting => bkt[D] = 0) /\ \A s \in Sector : Owed(s)

-----------------------------------------------------------------------------
(* What explains a fault, and the types that nothing else needs.           *)

Freedom == newroot = Torn => \A t \in {E, D} : at[t] # Freed /\ next[t] # Freed
Busy == {i \in IoWork : pc[i] # "idle"}
JobsOK ==
  /\ jobs = Cardinality(Busy)
  /\ pc[D] \notin {"open", "jobs"} => Busy = {}
  /\ \A i \in Item : (pc[i] = "end_io" => i \in IoWork) /\ (pc[i] = "up" => i \notin IoWork)
Rest == Freedom /\ JobsOK /\ writing \in Thread \cup {NoOne}

-----------------------------------------------------------------------------
\* What is known of a list of entries, one more at its head or one less.
LEMMA Pushed ==
  ASSUME NEW l, Listed(l), NEW s \in Sector, s \notin Range(l)
  PROVE  Listed(<<s>> \o l) /\ Range(<<s>> \o l) = Range(l) \cup {s}
<1>1. l \in Seq(Sector) /\ <<s>> \in Seq(Sector) /\ Len(<<s>>) = 1 /\ <<s>>[1] = s
  BY DEF Listed
<1>2. /\ <<s>> \o l \in Seq(Sector) /\ Len(<<s>> \o l) = Len(l) + 1 /\ Len(l) \in Nat
      /\ \A i \in 1 .. Len(l) + 1 : (<<s>> \o l)[i] = IF i = 1 THEN s ELSE l[i - 1]
  BY <1>1, ConcatProperties, LenProperties
<1>3. DOMAIN l = 1 .. Len(l) /\ DOMAIN (<<s>> \o l) = 1 .. Len(l) + 1
  BY <1>1, <1>2, LenProperties
<1>4. \A i \in 1 .. Len(l) : l[i] \in Range(l) /\ l[i] = (<<s>> \o l)[i + 1]
  BY <1>2, <1>3 DEF Range
<1>5. \A i \in 2 .. Len(l) + 1 : i - 1 \in 1 .. Len(l)
  BY <1>2
<1>6. Listed(<<s>> \o l)
  BY <1>2, <1>4, <1>5 DEF Listed
<1>7. Range(<<s>> \o l) \subseteq Range(l) \cup {s}
  BY <1>2, <1>3, <1>4, <1>5 DEF Range
<1>8. Range(l) \cup {s} \subseteq Range(<<s>> \o l)
  <2>1. 1 \in 1 .. Len(l) + 1 /\ \A i \in 1 .. Len(l) : i + 1 \in 1 .. Len(l) + 1
    BY <1>2
  <2>2. \A x \in Range(l) : \E i \in 1 .. Len(l) : x = l[i]
    BY <1>3 DEF Range
  <2>3. \A i \in 1 .. Len(l) + 1 : (<<s>> \o l)[i] \in Range(<<s>> \o l)
    BY <1>3 DEF Range
  <2>4. s \in Range(<<s>> \o l)
    BY <1>2, <2>1, <2>3
  <2>5. \A i \in 1 .. Len(l) : l[i] \in Range(<<s>> \o l)
    BY <1>4, <2>1, <2>3
  <2> QED
    BY <2>2, <2>4, <2>5
<1> QED
  BY <1>6, <1>7, <1>8

\* Where a sector is on a list that holds it once.
LEMMA IndexIs ==
  ASSUME NEW l, Listed(l), NEW k \in 1 .. Len(l)
  PROVE  Index(l, l[k]) = k
BY LenProperties DEF Listed, Index

\* A list less one entry holds the others once, in their order.
LEMMA Removed ==
  ASSUME NEW l, Listed(l), NEW k \in 1 .. Len(l), NEW m, m = Without(l, l[k])
  PROVE  /\ Listed(m) /\ Len(m) = Len(l) - 1 /\ Len(m) \in Nat
         /\ \A i \in 1 .. Len(m) : m[i] = IF i < k THEN l[i] ELSE l[i + 1]
         /\ Range(m) = Range(l) \ {l[k]}
<1>1. PICK n \in Nat : n = Len(l)
  BY LenProperties DEF Listed
<1>2. l \in Seq(Sector) /\ DOMAIN l = 1 .. n /\ k \in 1 .. n /\ \A i \in 1 .. n : l[i] \in Sector
  BY <1>1, LenProperties, ElementOfSeq DEF Listed
<1>3. PICK a, b : a = SubSeq(l, 1, k - 1) /\ b = SubSeq(l, k + 1, n)
  OBVIOUS
<1>4. m = a \o b
  BY <1>1, <1>3, IndexIs DEF Without
<1>5. a \in Seq(Sector) /\ Len(a) = k - 1 /\ \A i \in 1 .. k - 1 : a[i] = l[i]
  BY <1>2, <1>3, SubSeqProperties
<1>6. b \in Seq(Sector) /\ Len(b) = n - k /\ \A i \in 1 .. n - k : b[i] = l[i + k]
  BY <1>2, <1>3, SubSeqProperties
<1>7. /\ m \in Seq(Sector) /\ Len(m) = n - 1 /\ n - 1 \in Nat
      /\ \A i \in 1 .. n - 1 : m[i] = IF i <= k - 1 THEN a[i] ELSE b[i - (k - 1)]
  <2>1. /\ m \in Seq(Sector) /\ Len(m) = Len(a) + Len(b)
        /\ \A i \in 1 .. Len(a) + Len(b) : m[i] = IF i <= Len(a) THEN a[i] ELSE b[i - Len(a)]
    <3>1. /\ a \o b \in Seq(Sector) /\ Len(a \o b) = Len(a) + Len(b)
          /\ \A i \in 1 .. Len(a) + Len(b) : (a \o b)[i] = IF i <= Len(a) THEN a[i] ELSE b[i - Len(a)]
      <4>1. a \in Seq(Sector) /\ b \in Seq(Sector)
        BY <1>5, <1>6
      <4> QED
        BY <4>1, ConcatProperties, Zenon
    <3> QED
      BY <1>4, <3>1, Zenon
  <2>2. PICK x, y : x = Len(a) /\ y = Len(b)
    OBVIOUS
  <2>3. x + y = n - 1 /\ n - 1 \in Nat
    BY <1>2, <1>5, <1>6, <2>2
  <2> QED
    BY <1>5, <2>1, <2>2, <2>3
<1>8. \A i \in 1 .. n - 1 : m[i] = IF i < k THEN l[i] ELSE l[i + 1]
  <2> SUFFICES ASSUME NEW i \in 1 .. n - 1 PROVE m[i] = IF i < k THEN l[i] ELSE l[i + 1]
    OBVIOUS
  <2>1. CASE i < k
    BY <1>2, <1>5, <1>7, <2>1
  <2>2. CASE ~(i < k)
    <3>1. PICK j \in 1 .. n - k : j = i - (k - 1) /\ j + k = i + 1 /\ ~(i <= k - 1)
      BY <1>2, <2>2
    <3> QED
      BY <1>6, <1>7, <2>2, <3>1
  <2> QED
    BY <2>1, <2>2
<1>9. \A i, j \in 1 .. n : l[i] = l[j] => i = j
  BY <1>1 DEF Listed
<1>10. \A i, j \in 1 .. n - 1 : m[i] = m[j] => i = j
  BY <1>2, <1>8, <1>9
<1>11. Listed(m)
  BY <1>7, <1>10 DEF Listed
<1>12. DOMAIN m = 1 .. n - 1
  BY <1>7, LenProperties
<1>13. ASSUME NEW x \in Range(m) PROVE x \in Range(l) /\ x # l[k]
  <2>1. PICK i \in 1 .. n - 1 : x = m[i]
    BY <1>12 DEF Range
  <2>2. PICK j \in 1 .. n : x = l[j] /\ j # k
    BY <1>2, <1>8, <2>1
  <2> QED
    BY <1>2, <1>9, <2>2 DEF Range
<1>14. ASSUME NEW x \in Range(l), x # l[k] PROVE x \in Range(m)
  <2>1. PICK j \in 1 .. n : x = l[j] /\ j # k
    BY <1>2, <1>14 DEF Range
  <2>2. \E i \in 1 .. n - 1 : x = m[i]
    <3>1. CASE j < k
      BY <1>2, <1>8, <2>1, <3>1
    <3>2. CASE j > k
      <4>1. j - 1 \in 1 .. n - 1 /\ ~(j - 1 < k) /\ (j - 1) + 1 = j
        BY <1>2, <3>2
      <4> QED
        BY <1>8, <2>1, <4>1
    <3> QED
      BY <1>2, <2>1, <3>1, <3>2
  <2> QED
    BY <1>12, <2>2 DEF Range
<1> QED
  BY <1>1, <1>7, <1>8, <1>11, <1>13, <1>14

-----------------------------------------------------------------------------
\* Pc, lock and reading as the types say.
LEMMA Known ==
  ASSUME IInv
  PROVE  /\ pc \in [Thread -> Labels] /\ lock \in [Bucket -> Thread \cup {NoOne}]
         /\ bkt \in [Thread -> Bucket] /\ reading \subseteq Thread
         /\ \A t \in Thread : t \in reading => pc[t] \in Refreshing
         /\ \A t \in Thread : t \in Item \/ t \in {E, D}
BY DEF IInv, PcOK, HolderOK, ReaderOK, Thread

\* A thread that takes no part in a step finds its entry where it was: whoever
\* changes a list has its lock.
LEMMA OthersStay ==
  ASSUME IInv, Pointing, NEW t \in Thread, NEW u \in Thread, u # t,
         pc'[u] = pc[u], bkt'[u] = bkt[u], at'[u] = at[u], next'[u] = next[u],
         u \in reading' <=> u \in reading,
         \A b \in Bucket : lock'[b] = lock[b] \/ lock[b] \in {NoOne, t},
         \A b \in Bucket : list'[b] = list[b] \/ lock[b] = t,
         pc[t] \in WalkLabel \/ rot' = rot,
         pc[t] \in WalkLabel \/ \A b \in Bucket : Range(list[b]) \subseteq Range(list'[b])
  PROVE  Locked(u)' /\ ThreadAt(u)'
<1>1. Locked(u) /\ ThreadAt(u) /\ bkt[u] \in Bucket /\ NoOne # u
  BY Known, Names DEF Pointing, HoldsOK, PointersOK
<1>2. Holds(u)' <=> Holds(u)
  BY DEF Holds
<1>3. Holds(u) => lock[bkt[u]] = u
  BY <1>1 DEF Locked
<1>4. Holds(u) => lock'[bkt[u]] = u /\ list'[bkt[u]] = list[bkt[u]]
  BY <1>1, <1>3
<1>5. Locked(u)'
  BY <1>2, <1>4 DEF Locked
<1>6. ASSUME u \in Item PROVE ItemAt(u)'
  <2>1. ItemAt(u)
    BY <1>1, <1>6 DEF ThreadAt
  <2>2. pc[u] \in {"read", "recheck", "use"} => Holds(u) /\ BucketOf(at[u]) = bkt[u]
    BY <2>1, Known DEF ItemAt, Placed, Holds, Holding, Refreshing
  <2>3. pc[u] \in {"read", "recheck", "use"} => (Cached(at[u])' <=> Cached(at[u]))
    BY <1>4, <2>2 DEF Cached, BucketOf
  <2> QED
    BY <2>1, <2>3 DEF ItemAt, BucketOf
<1>7. ASSUME u \in {E, D}, pc[u] \in WalkLabel PROVE WalkAt(u)'
  <2>1. WalkAt(u) /\ at[u] \in Pointer /\ next[u] \in Pointer
    BY <1>1, <1>7 DEF ThreadAt, Pointing, PointersOK
  <2>2. pc[t] \notin WalkLabel
    BY <1>7, Alone
  <2>3. rot' = rot /\ \A b \in Bucket : Range(list[b]) \subseteq Range(list'[b])
    BY <2>2
  <2>4. \A s \in Sector : Cached(s) => Cached(s)'
    BY <2>3, BucketOfSector DEF Cached, BucketOf
  <2>5. Holds(u) /\ OnEntry(u) => OnEntry(u)'
    BY <1>4 DEF OnEntry, Cached, After, From, BucketOf
  <2>6. pc[u] \in {"check", "has_room", "down_write", "write", "entry", "leave"} => Holds(u)
    BY Known DEF Holds, Holding, Refreshing
  <2>7. pc[u] = "master" /\ u \notin reading => Holds(u)
    BY DEF Holds, Holding
  <2>8. (Straying(u) => Straying(u)') /\ (Ahead(u) => Ahead(u)') /\ (Lost(u) => Lost(u)')
    BY <2>3, <2>4 DEF Straying, Ahead, Lost
  <2> QED
    BY <2>1, <2>5, <2>6, <2>7, <2>8 DEF WalkAt
<1>8. ASSUME u \in {E, D}, pc[u] \notin WalkLabel PROVE WalkAt(u)'
  BY <1>8 DEF WalkAt, WalkLabel
<1> QED
  BY <1>1, <1>5, <1>6, <1>7, <1>8 DEF ThreadAt

\* What is left to show of a step of one thread.
LEMMA OneMoves ==
  ASSUME IInv, Pointing, NEW t \in Thread,
         \A u \in Thread \ {t} : /\ pc'[u] = pc[u] /\ bkt'[u] = bkt[u] /\ at'[u] = at[u]
                                 /\ next'[u] = next[u] /\ (u \in reading' <=> u \in reading),
         \A b \in Bucket : lock'[b] = lock[b] \/ lock[b] \in {NoOne, t},
         \A b \in Bucket : list'[b] = list[b] \/ lock[b] = t,
         pc[t] \in WalkLabel \/ rot' = rot,
         pc[t] \in WalkLabel \/ \A b \in Bucket : Range(list[b]) \subseteq Range(list'[b]),
         ListsOK', rot' \in 0 .. KeyTableLen,
         at' \in [Thread -> Pointer], next' \in [Thread -> Pointer],
         Locked(t)', ThreadAt(t)'
  PROVE  Pointing'
<1>1. ASSUME NEW u \in Thread, u # t PROVE Locked(u)' /\ ThreadAt(u)'
  BY <1>1, OthersStay
<1>2. \A u \in Thread : Locked(u)' /\ ThreadAt(u)'
  BY <1>1
<1> QED
  BY <1>2 DEF Pointing, HoldsOK, PointersOK

-----------------------------------------------------------------------------
\* An entry more, or less.
LEMMA ListAdded ==
  ASSUME ListsOK, NEW s \in Sector, ~Cached(s),
         list' = [list EXCEPT ![BucketOf(s)] = <<s>> \o @]
  PROVE  /\ ListsOK' /\ Cached(s)'
         /\ \A b \in Bucket : b # BucketOf(s) => list'[b] = list[b]
         /\ \A b \in Bucket : Range(list[b]) \subseteq Range(list'[b])
         /\ \A x \in Sector : Cached(x)' <=> Cached(x) \/ x = s
<1>1. BucketOf(s) \in Bucket /\ DOMAIN list = Bucket /\ DOMAIN list' = Bucket
  BY BucketOfSector DEF ListsOK
<1>2. list'[BucketOf(s)] = <<s>> \o list[BucketOf(s)]
  BY <1>1
<1>3. \A b \in Bucket : b # BucketOf(s) => list'[b] = list[b]
  BY <1>1
<1>4. Listed(list[BucketOf(s)]) /\ s \notin Range(list[BucketOf(s)])
  BY <1>1 DEF ListsOK, Cached
<1>5. /\ Listed(list'[BucketOf(s)])
      /\ Range(list'[BucketOf(s)]) = Range(list[BucketOf(s)]) \cup {s}
  BY <1>2, <1>4, Pushed
<1>6. \A x \in Sector : BucketOf(x) \in Bucket /\ BucketOf(x)' = BucketOf(x)
  BY BucketOfSector DEF BucketOf
<1>7. \A b \in Bucket : Listed(list'[b]) /\ \A x \in Range(list'[b]) : BucketOf(x) = b
  BY <1>3, <1>5 DEF ListsOK
<1>8. ListsOK'
  BY <1>1, <1>7 DEF ListsOK, Listed, Bucket, BucketOf, Sector
<1> QED
  BY <1>3, <1>5, <1>6, <1>8 DEF Cached, BucketOf

\* An entry dropped is on no list, the others are where they were.
LEMMA ListDropped ==
  ASSUME ListsOK, NEW s \in Sector, Cached(s),
         list' = [list EXCEPT ![BucketOf(s)] = Without(@, s)]
  PROVE  /\ ListsOK'
         /\ \A b \in Bucket : b # BucketOf(s) => list'[b] = list[b]
         /\ \A x \in Sector : Cached(x)' <=> Cached(x) /\ x # s
         /\ \E k \in 1 .. Len(list[BucketOf(s)]) :
              /\ list[BucketOf(s)][k] = s /\ Len(list'[BucketOf(s)]) = Len(list[BucketOf(s)]) - 1
              /\ \A i \in 1 .. Len(list'[BucketOf(s)]) :
                   list'[BucketOf(s)][i] = list[BucketOf(s)][IF i < k THEN i ELSE i + 1]
<1>1. BucketOf(s) \in Bucket /\ DOMAIN list = Bucket /\ DOMAIN list' = Bucket
  BY BucketOfSector DEF ListsOK
<1>2. list'[BucketOf(s)] = Without(list[BucketOf(s)], s)
  BY <1>1
<1>3. \A b \in Bucket : b # BucketOf(s) => list'[b] = list[b]
  BY <1>1
<1>4. Listed(list[BucketOf(s)])
  BY <1>1 DEF ListsOK
<1>5. PICK k \in 1 .. Len(list[BucketOf(s)]) : list[BucketOf(s)][k] = s
  <2>1. DOMAIN list[BucketOf(s)] = 1 .. Len(list[BucketOf(s)])
    BY <1>4, LenProperties DEF Listed
  <2> QED
    BY <2>1 DEF Cached, Range
<1>6. /\ Listed(list'[BucketOf(s)]) /\ Len(list'[BucketOf(s)]) = Len(list[BucketOf(s)]) - 1
      /\ \A i \in 1 .. Len(list'[BucketOf(s)]) :
           list'[BucketOf(s)][i] =
             IF i < k THEN list[BucketOf(s)][i] ELSE list[BucketOf(s)][i + 1]
      /\ Range(list'[BucketOf(s)]) = Range(list[BucketOf(s)]) \ {s}
  <2>1. PICK l, m : l = list[BucketOf(s)] /\ m = list'[BucketOf(s)]
    OBVIOUS
  <2>2. Listed(l) /\ k \in 1 .. Len(l) /\ l[k] = s /\ m = Without(l, l[k])
    BY <1>2, <1>4, <1>5, <2>1
  <2>3. /\ Listed(m) /\ Len(m) = Len(l) - 1
        /\ \A i \in 1 .. Len(m) : m[i] = IF i < k THEN l[i] ELSE l[i + 1]
        /\ Range(m) = Range(l) \ {l[k]}
    <3>1. Listed(l)
      BY <2>2
    <3>2. k \in 1 .. Len(l)
      BY <2>2
    <3>3. m = Without(l, l[k])
      BY <2>2
    <3> QED
      BY <3>1, <3>2, <3>3, Removed
  <2> QED
    BY <2>1, <2>2, <2>3
<1>7. \A x \in Sector : BucketOf(x) \in Bucket /\ BucketOf(x)' = BucketOf(x)
  BY BucketOfSector DEF BucketOf
<1>8. \A b \in Bucket : Listed(list'[b]) /\ \A x \in Range(list'[b]) : BucketOf(x) = b
  BY <1>3, <1>6 DEF ListsOK
<1>9. ListsOK'
  BY <1>1, <1>8 DEF ListsOK, Listed, Bucket, BucketOf, Sector
<1>10. \A x \in Sector : Cached(x)' <=> Cached(x) /\ x # s
  BY <1>3, <1>6, <1>7 DEF Cached, BucketOf
<1> QED
  BY <1>3, <1>5, <1>6, <1>9, <1>10

\* Steps that leave the lists alone.
LEMMA ListsSame == ASSUME ListsOK, list' = list PROVE ListsOK'
BY DEF ListsOK, Listed, Bucket, BucketOf, Sector

-----------------------------------------------------------------------------
\* A work item's step: it goes on to l, with the pointers as they were.
LEMMA ItemGoes ==
  ASSUME IInv, Pointing, NEW i \in Item, NEW l \in ItemLabel,
         pc' = [pc EXCEPT ![i] = l],
         UNCHANGED <<reading, rot, next>>,
         at' \in [Thread -> Pointer],
         \A u \in Thread \ {i} : at'[u] = at[u] /\ bkt'[u] = bkt[u],
         \A b \in Bucket : lock'[b] = lock[b] \/ lock[b] \in {NoOne, i},
         \A b \in Bucket : list'[b] = list[b] \/ lock[b] = i,
         \A b \in Bucket : Range(list[b]) \subseteq Range(list'[b]),
         ListsOK',
         l \in Holding => lock'[bkt'[i]] = i,
         l \in Placed => at'[i] \in Sector /\ bkt'[i] = BucketOf(at'[i]),
         l \in {"read", "recheck"} => ~Cached(at[i])' ,
         l = "use" => Cached(at[i])'
  PROVE  Pointing'
<1>1. i \in Thread /\ i # E /\ i # D /\ i \notin reading
  BY Names, Places, Known DEF Thread, IInv, PcOK, ItemLabel, Refreshing
<1>2. pc'[i] = l /\ \A u \in Thread \ {i} : pc'[u] = pc[u]
  BY <1>1, Known
<1>3. Locked(i)'
  BY <1>1, <1>2 DEF Locked, Holds
<1>4. ItemAt(i)'
  BY <1>2 DEF ItemAt, Cached, BucketOf, Sector
<1>5. ThreadAt(i)'
  BY <1>1, <1>2, <1>4 DEF ThreadAt, ItemLabel
<1> QED
  BY <1>1, <1>2, <1>3, <1>5, OneMoves DEF Pointing, PointersOK

\* A bio or an unlink is queued.
LEMMA QueuePoints == ASSUME IInv, Pointing, Queue PROVE Pointing'
<1>1. ASSUME NEW i \in Item, NEW s \in Sector, pc[i] = "idle", Goto(i, "down"),
             at' = [at EXCEPT ![i] = s], bkt' = [bkt EXCEPT ![i] = BucketOf(s)],
             UNCHANGED <<list, lock, reading, next, rot>>
      PROVE  Pointing'
  <2>1. i \in Thread /\ at \in [Thread -> Pointer] /\ bkt \in [Thread -> Bucket] /\ s \in Pointer
    BY <1>1, Known DEF Thread, Pointing, PointersOK, Pointer
  <2>2. at' \in [Thread -> Pointer] /\ at'[i] = s /\ bkt'[i] = BucketOf(s)
        /\ \A u \in Thread \ {i} : at'[u] = at[u] /\ bkt'[u] = bkt[u]
    BY <1>1, <2>1
  <2>3. ListsOK'
    BY <1>1, ListsSame DEF Pointing
  <2> QED
    BY <1>1, <2>2, <2>3, ItemGoes DEF Goto, ItemLabel, Holding
<1>2. ASSUME NEW i \in IoWork, NEW s \in Sector, QueueIo(i, s) PROVE Pointing'
  BY <1>1, <1>2 DEF QueueIo, Item, store, keys, sem
<1>3. ASSUME NEW i \in UnlinkWork, NEW s \in Sector, QueueUnlink(i, s) PROVE Pointing'
  BY <1>1, <1>3 DEF QueueUnlink, Item, store, keys, sem
<1> QED
  BY <1>2, <1>3 DEF Queue

\* A work item looks its sector up, fills an entry, uses it.
LEMMA ItemPoints == ASSUME IInv, Pointing, NEW i \in Item, ItemStep(i) PROVE Pointing'
<1> USE DEF store, keys, sem, walk, Goto
<1>1. /\ i \in Thread /\ ItemAt(i) /\ at \in [Thread -> Pointer] /\ bkt[i] \in Bucket
      /\ lock \in [Bucket -> Thread \cup {NoOne}] /\ Locked(i) /\ i \notin reading
      /\ bkt \in [Thread -> Bucket] /\ End \in Pointer
  BY Known, Places DEF Thread, Pointing, PointersOK, ThreadAt, HoldsOK, IInv, PcOK, ItemLabel, Refreshing,
     Pointer
<1>2. pc[i] \in {"read", "recheck", "use", "up"} => lock[bkt[i]] = i
  BY <1>1 DEF Locked, Holds, Holding
<1>3. list' = list => ListsOK'
  BY ListsSame DEF Pointing
<1>4. ASSUME GetEntry(i) PROVE Pointing'
  <2>1. PICK l \in {"use", "read"} :
          pc' = [pc EXCEPT ![i] = l] /\ l = IF Cached(at[i]) THEN "use" ELSE "read"
    BY <1>4 DEF GetEntry
  <2>2. UNCHANGED <<list, at, bkt, next, rot, reading>> /\ pc[i] = "down"
    BY <1>4 DEF GetEntry
  <2>3. lock'[bkt[i]] = i /\ \A b \in Bucket : lock'[b] = lock[b] \/ lock[b] \in {NoOne, i}
    BY <1>1, <1>4 DEF GetEntry, Down
  <2>4. at[i] \in Sector /\ bkt[i] = BucketOf(at[i])
    BY <1>1, <2>2 DEF ItemAt, Placed
  <2>5. (Cached(at[i])' <=> Cached(at[i])) /\ ListsOK' /\ l \in ItemLabel
    BY <1>3, <2>2 DEF ItemLabel, Cached, BucketOf
  <2> QED
    BY <1>1, <2>1, <2>2, <2>3, <2>4, <2>5, ItemGoes
<1>5. ASSUME pc[i] \in {"read", "recheck"},
             list' = [list EXCEPT ![BucketOf(at[i])] = <<at[i]>> \o @],
             pc' = [pc EXCEPT ![i] = "use"], UNCHANGED <<at, bkt, next, rot, reading, lock>>
      PROVE  Pointing'
  <2>1. at[i] \in Sector /\ bkt[i] = BucketOf(at[i]) /\ ~Cached(at[i]) /\ lock[bkt[i]] = i
    BY <1>1, <1>2, <1>5 DEF ItemAt, Placed
  <2>2. /\ ListsOK' /\ Cached(at[i])'
        /\ \A b \in Bucket : b # BucketOf(at[i]) => list'[b] = list[b]
        /\ \A b \in Bucket : Range(list[b]) \subseteq Range(list'[b])
    BY <1>5, <2>1, ListAdded DEF Pointing, Cached, BucketOf
  <2>3. \A b \in Bucket : list'[b] = list[b] \/ lock[b] = i
    BY <2>1, <2>2
  <2> QED
    BY <1>1, <1>5, <2>1, <2>2, <2>3, ItemGoes DEF ItemLabel
<1>6. ASSUME ReadEntry(i) PROVE Pointing'
  <2>1. CASE Recheck(i)
    <3>1. pc' = [pc EXCEPT ![i] = "recheck"] /\ UNCHANGED <<list, at, bkt, next, rot, reading, lock>>
      BY <1>6, <2>1 DEF ReadEntry
    <3>2. /\ at[i] \in Sector /\ bkt[i] = BucketOf(at[i]) /\ ~Cached(at[i])
          /\ lock[bkt[i]] = i /\ "recheck" \in ItemLabel
      BY <1>1, <1>2, <1>6 DEF ItemAt, Placed, ReadEntry, ItemLabel
    <3>3. ListsOK' /\ ~Cached(at[i])'
      BY <1>3, <3>1, <3>2 DEF Cached, BucketOf
    <3> QED
      BY <1>1, <3>1, <3>2, <3>3, ItemGoes
  <2>2. CASE ~Recheck(i)
    BY <1>5, <1>6, <2>2 DEF ReadEntry, AddEntry
  <2> QED
    BY <2>1, <2>2
<1>7. ASSUME RereadEntry(i) PROVE Pointing'
  BY <1>5, <1>7 DEF RereadEntry, AddEntry
<1>8. ASSUME CopyKeyOut(i) PROVE Pointing'
  <2>1. /\ pc' = [pc EXCEPT ![i] = "end_io"] /\ UNCHANGED <<list, at, bkt, next, rot, reading>>
        /\ "end_io" \in ItemLabel /\ "end_io" \notin Holding /\ "end_io" \notin Placed
    BY <1>8 DEF CopyKeyOut, ItemLabel, Holding, Placed
  <2>2. \A b \in Bucket : lock'[b] = lock[b] \/ lock[b] \in {NoOne, i}
    BY <1>1, <1>2, <1>8 DEF CopyKeyOut, Up
  <2> QED
    BY <1>1, <1>3, <2>1, <2>2, ItemGoes
<1>9. ASSUME WorkDone(i), \A b \in Bucket : lock'[b] = lock[b] \/ lock[b] \in {NoOne, i},
             UNCHANGED <<list, next, rot, reading>>
      PROVE  Pointing'
  <2>1. /\ at' \in [Thread -> Pointer]
        /\ \A u \in Thread \ {i} : at'[u] = at[u] /\ bkt'[u] = bkt[u]
    BY <1>1, <1>9 DEF WorkDone
  <2>2. /\ pc' = [pc EXCEPT ![i] = "idle"]
        /\ "idle" \in ItemLabel /\ "idle" \notin Holding /\ "idle" \notin Placed
    BY <1>9 DEF WorkDone, ItemLabel, Holding, Placed
  <2> QED
    BY <1>1, <1>3, <1>9, <2>1, <2>2, ItemGoes
<1>10. ASSUME EndIo(i) PROVE Pointing'
  BY <1>9, <1>10 DEF EndIo
<1>11. ASSUME DoUnlink(i) PROVE Pointing'
  <2>1. /\ pc' = [pc EXCEPT ![i] = "up"] /\ UNCHANGED <<list, at, bkt, next, rot, reading, lock>>
        /\ "up" \in ItemLabel /\ pc[i] = "use"
    BY <1>11 DEF DoUnlink, Unlinked, ItemLabel
  <2>2. at[i] \in Sector /\ bkt[i] = BucketOf(at[i]) /\ lock[bkt[i]] = i
    BY <1>1, <1>2, <2>1 DEF ItemAt, Placed
  <2> QED
    BY <1>1, <1>3, <2>1, <2>2, ItemGoes
<1>12. ASSUME UnlinkDone(i) PROVE Pointing'
  <2>1. \A b \in Bucket : lock'[b] = lock[b] \/ lock[b] \in {NoOne, i}
    BY <1>1, <1>2, <1>12 DEF UnlinkDone, Up
  <2> QED
    BY <1>9, <1>12, <2>1 DEF UnlinkDone
<1> QED
  BY <1>4, <1>6, <1>7, <1>8, <1>10, <1>11, <1>12, NoItemPersists DEF ItemStep

-----------------------------------------------------------------------------
\* Where a walker's pointers lead.
LEMMA AfterIs ==
  ASSUME ListsOK, NEW s \in Sector, Cached(s), NEW x, x = After(s)
  PROVE  x = End \/ (x \in Sector /\ Cached(x) /\ BucketOf(x) = BucketOf(s) /\ x # s)
<1>1. PICK l : l = list[BucketOf(s)]
  OBVIOUS
<1>2. BucketOf(s) \in Bucket /\ Listed(l) /\ DOMAIN l = 1 .. Len(l) /\ Len(l) \in Nat
  BY <1>1, BucketOfSector, LenProperties DEF ListsOK, Listed
<1>3. PICK k \in 1 .. Len(l) : l[k] = s
  BY <1>1, <1>2 DEF Cached, Range
<1>4. x = IF k + 1 > Len(l) THEN End ELSE l[k + 1]
  BY <1>1, <1>2, <1>3, IndexIs DEF After, From
<1>5. CASE ~(k + 1 > Len(l))
  <2>1. k + 1 \in 1 .. Len(l) /\ k + 1 # k
    BY <1>2, <1>5
  <2>2. x = l[k + 1] /\ x \in Range(l) /\ x # s
    BY <1>2, <1>3, <1>4, <1>5, <2>1 DEF Range, Listed
  <2>3. BucketOf(x) = BucketOf(s)
    BY <1>1, <1>2, <2>2 DEF ListsOK
  <2>4. x \in Sector
    <3>1. l \in Seq(Sector)
      BY <1>2 DEF Listed
    <3> QED
      BY <2>1, <2>2, <3>1, ElementOfSeq
  <2> QED
    BY <1>1, <2>2, <2>3, <2>4 DEF Cached
<1> QED
  BY <1>4, <1>5

\* What a walker on an entry has before it.
LEMMA Pointed ==
  ASSUME ListsOK, NEW t, OnEntry(t)
  PROVE  /\ Straying(t) /\ at[t] \in Sector
         /\ next[t] = End \/ (next[t] \in Sector /\ Cached(next[t]) /\ next[t] # at[t]
                              /\ BucketOf(next[t]) = bkt[t])
BY AfterIs DEF OnEntry, Straying

\* Steps that leave a thread's pointers and the lists alone.
LEMMA SamePointers ==
  ASSUME NEW t, list' = list, at'[t] = at[t], next'[t] = next[t]
  PROVE  /\ OnEntry(t) /\ bkt'[t] = bkt[t] => OnEntry(t)'
         /\ Lost(t) => Lost(t)'
         /\ Straying(t) => Straying(t)'
         /\ Ahead(t) /\ rot' = rot => Ahead(t)'
BY DEF OnEntry, Lost, Straying, Ahead, Cached, After, From, BucketOf, Sector, Index

\* A walker's step that changes no list.
LEMMA WalkerGoes ==
  ASSUME IInv, Pointing, NEW t \in {E, D}, NEW l \in EvictLabel \cup DtrLabel,
         pc' = [pc EXCEPT ![t] = l], list' = list,
         pc[t] \in WalkLabel \/ rot' = rot, rot' \in 0 .. KeyTableLen,
         at' \in [Thread -> Pointer], next' \in [Thread -> Pointer],
         \A u \in Thread \ {t} : /\ at'[u] = at[u] /\ next'[u] = next[u] /\ bkt'[u] = bkt[u]
                                 /\ (u \in reading' <=> u \in reading),
         \A b \in Bucket : lock'[b] = lock[b] \/ lock[b] \in {NoOne, t},
         l \in Holding /\ t \notin reading' => lock'[bkt'[t]] = t,
         l \in {"scan", "copy"} => t \in reading',
         WalkAt(t)'
  PROVE  Pointing'
<1>1. t \in Thread /\ t \notin Item /\ pc'[t] = l /\ \A u \in Thread \ {t} : pc'[u] = pc[u]
  BY Names, Known DEF Thread
<1>2. Locked(t)' /\ ThreadAt(t)'
  BY <1>1 DEF Locked, Holds, ThreadAt
<1>3. ListsOK'
  BY ListsSame DEF Pointing
<1> QED
  BY <1>1, <1>2, <1>3, OneMoves

\* A refresh drops an entry under whoever walks the list.
LEMMA RefreshPoints ==
  ASSUME IInv, Pointing, NEW t \in {E, D}, RefreshSector(t)
  PROVE  Pointing'
<1> USE DEF keys, sem, life
<1>1. /\ pc[t] = "scan" /\ rot \in Sector /\ lock[BucketOf(rot)] = NoOne /\ rot' = rot + 1
      /\ UNCHANGED <<pc, lock, reading, bkt>>
  BY DeviceAssumption DEF RefreshSector, Pointing, PointersOK, Sector
<1>2. rot' \in 0 .. KeyTableLen
  BY <1>1, DeviceAssumption DEF Sector
<1>3. ASSUME NEW u \in {E, D}, pc[u] \in WalkLabel PROVE u = t
  BY <1>1, <1>3, Alone, Names DEF WalkLabel
<1>4. /\ ListsOK'
      /\ \A b \in Bucket : b # BucketOf(rot) => list'[b] = list[b]
      /\ \A x \in Sector : Cached(x)' <=> Cached(x) /\ x # rot
  <2>1. CASE Cached(rot)
    <3>1. list' = [list EXCEPT ![BucketOf(rot)] = Without(@, rot)]
      BY <2>1 DEF RefreshSector, Drop
    <3> QED
      BY <1>1, <2>1, <3>1, ListDropped DEF Pointing
  <2>2. CASE ~Cached(rot)
    <3>1. list' = list
      BY <2>2 DEF RefreshSector
    <3> QED
      BY <2>2, <3>1, ListsSame DEF Pointing, Cached, BucketOf
  <2> QED
    BY <2>1, <2>2
<1>5. /\ at' \in [Thread -> Pointer] /\ next' \in [Thread -> Pointer]
      /\ \A u \in Thread : u \notin {E, D} => at'[u] = at[u] /\ next'[u] = next[u]
      /\ \A u \in {E, D} :
           /\ at'[u] = IF at[u] = rot /\ Cached(rot) THEN Freed ELSE at[u]
           /\ next'[u] = IF next[u] = rot /\ Cached(rot) THEN Freed ELSE next[u]
  <2>1. at \in [Thread -> Pointer] /\ next \in [Thread -> Pointer] /\ Freed \in Pointer
        /\ E \in Thread /\ D \in Thread
    BY Names DEF Pointing, PointersOK, Pointer
  <2> QED
    BY <2>1 DEF RefreshSector, Freeing
<1>6. \A u \in Thread : Locked(u)'
  BY <1>1 DEF Pointing, HoldsOK, Locked, Holds
<1>7. ASSUME NEW i \in Item PROVE ItemAt(i)'
  <2>1. i \in Thread /\ i \notin {E, D} /\ ItemAt(i) /\ bkt[i] \in Bucket
        /\ Locked(i) /\ i \notin reading
    BY Names, Places, Known DEF Thread, Pointing, PointersOK, ThreadAt, HoldsOK, IInv, PcOK, ItemLabel,
       Refreshing
  <2>2. at'[i] = at[i] /\ pc'[i] = pc[i] /\ bkt'[i] = bkt[i]
    BY <1>1, <1>5, <2>1
  <2>3. pc[i] \in {"read", "recheck", "use"} => BucketOf(at[i]) # BucketOf(rot) /\ at[i] \in Sector
    BY <1>1, <2>1, Names DEF ItemAt, Placed, Locked, Holds, Holding
  <2>4. pc[i] \in {"read", "recheck", "use"} => (Cached(at[i])' <=> Cached(at[i]))
    BY <1>4, <2>2, <2>3
  <2> QED
    BY <2>1, <2>2, <2>4 DEF ItemAt, BucketOf
<1>8. WalkAt(t)'
  <2>1. t \in Thread /\ Straying(t) /\ Ahead(t) /\ pc'[t] = "scan"
    BY <1>1, Names DEF Pointing, PointersOK, ThreadAt, WalkAt
  <2>2. Straying(t)'
    BY <1>1, <1>4, <1>5, <2>1 DEF Straying, Cached, BucketOf, Sector
  <2>3. Ahead(t)'
    <3>1. Freed \notin Sector /\ \A x \in Sector : x \in Nat /\ (x # rot /\ x >= rot => x >= rot + 1)
      BY <1>1, DeviceAssumption DEF Sector, Freed
    <3>2. at'[t] \in Sector => at'[t] = at[t] /\ at[t] # rot
      BY <1>5, <2>1, <3>1 DEF Straying
    <3>3. next'[t] \in Sector => next'[t] = next[t] /\ next[t] # rot
      BY <1>5, <2>1, <3>1 DEF Straying, End, Sector
    <3> QED
      BY <1>1, <2>1, <3>1, <3>2, <3>3 DEF Ahead, Sector
  <2> QED
    BY <2>1, <2>2, <2>3 DEF WalkAt
<1>9. ASSUME NEW u \in {E, D} PROVE WalkAt(u)'
  <2>1. CASE u = t
    BY <1>8, <2>1
  <2>2. CASE u # t
    <3>1. pc'[u] \notin WalkLabel
      BY <1>1, <1>3, <2>2
    <3> QED
      BY <3>1 DEF WalkAt, WalkLabel
  <2> QED
    BY <2>1, <2>2
<1>10. \A u \in Thread : ThreadAt(u)'
  <2>1. \A u \in Thread : pc'[u] \in {"scan", "copy"} => u \in reading'
    BY <1>1 DEF Pointing, PointersOK, ThreadAt
  <2> QED
    BY <1>7, <1>9, <2>1 DEF ThreadAt
<1> QED
  BY <1>2, <1>4, <1>5, <1>6, <1>10 DEF Pointing, HoldsOK, PointersOK

-----------------------------------------------------------------------------
\* A step that moves nobody.
LEMMA PointingSame ==
  ASSUME Pointing, UNCHANGED <<pc, lock, bkt, reading, list, at, next, rot>>
  PROVE  Pointing'
<1>1. ListsOK'
  BY ListsSame DEF Pointing
<1>2. HoldsOK'
  BY DEF Pointing, HoldsOK, Locked, Holds
<1>3. ASSUME NEW t, ItemAt(t) PROVE ItemAt(t)'
  BY <1>3 DEF ItemAt, Cached, BucketOf, Sector
<1>4. ASSUME NEW t, WalkAt(t) PROVE WalkAt(t)'
  BY <1>4, SamePointers DEF WalkAt
<1>5. ASSUME NEW t \in Thread PROVE ThreadAt(t)'
  BY <1>3, <1>4 DEF Pointing, PointersOK, ThreadAt
<1> QED
  BY <1>1, <1>2, <1>5 DEF Pointing, PointersOK

-----------------------------------------------------------------------------
\* What a walker knows of its own place.
LEMMA WalkerKnows ==
  ASSUME IInv, Pointing, NEW t \in {E, D}
  PROVE  /\ t \in Thread /\ t \notin Item /\ ListsOK /\ WalkAt(t) /\ bkt[t] \in Bucket
         /\ at \in [Thread -> Pointer] /\ next \in [Thread -> Pointer] /\ rot \in 0 .. KeyTableLen
         /\ lock \in [Bucket -> Thread \cup {NoOne}] /\ bkt \in [Thread -> Bucket]
         /\ pc[t] \in {"entry", "leave", "check", "has_room", "down_write", "write"}
              => lock[bkt[t]] = t /\ t \notin reading
         /\ pc[t] = "master" /\ t \notin reading => lock[bkt[t]] = t
         /\ pc[t] \in {"bucket", "down_read", "down_again"} => t \notin reading
         /\ pc[t] \in {"scan", "copy"} => t \in reading
<1>1. t \in Thread /\ t \notin Item
  BY Names
<1>2. Locked(t) /\ ThreadAt(t) /\ (t \in reading => pc[t] \in Refreshing)
  BY <1>1, Known DEF Pointing, HoldsOK, PointersOK
<1> QED
  BY <1>1, <1>2, Known DEF Pointing, PointersOK, ThreadAt, Locked, Holds, Holding, Refreshing

\* A walker's step along persist_unlink, with the pointers as they were.
LEMMA PersistGoes ==
  ASSUME IInv, Pointing, NEW t \in {E, D}, pc[t] \in WalkLabel,
         NEW l \in WalkLabel, pc' = [pc EXCEPT ![t] = l],
         UNCHANGED <<list, at, next, bkt>>, rot' \in 0 .. KeyTableLen,
         \A u \in Thread \ {t} : (u \in reading' <=> u \in reading),
         \A b \in Bucket : lock'[b] = lock[b] \/ lock[b] \in {NoOne, t},
         l \in Holding /\ t \notin reading' => lock'[bkt[t]] = t,
         l \in {"scan", "copy"} => t \in reading',
         l # "entry",
         l \in {"check", "has_room", "down_write", "write"} \/ (l = "master" /\ t \notin reading') =>
           OnEntry(t),
         l = "leave" => OnEntry(t) \/ Lost(t),
         l \in {"down_read", "scan"} => Straying(t),
         l = "scan" => rot' = 0,
         l \in {"copy", "down_again"} \/ (l = "master" /\ t \in reading') => Lost(t)
  PROVE  Pointing'
<1>1. /\ pc'[t] = l /\ at' \in [Thread -> Pointer] /\ next' \in [Thread -> Pointer]
      /\ at' = at /\ next' = next /\ bkt' = bkt
  BY WalkerKnows, Known
<1>2. /\ OnEntry(t) => OnEntry(t)'
      /\ Lost(t) => Lost(t)'
      /\ Straying(t) => Straying(t)'
  BY <1>1, SamePointers
<1>3. l = "scan" => Ahead(t)'
  BY <1>1 DEF Ahead, Sector
<1>4. WalkAt(t)'
  BY <1>1, <1>2, <1>3 DEF WalkAt
<1>5. l \in EvictLabel \cup DtrLabel
  BY DEF EvictLabel
<1> QED
  BY <1>1, <1>4, <1>5, WalkerGoes

\* The steps of persist_unlink, a refresh in its course included.
LEMMA PersistPoints == ASSUME IInv, Pointing, NEW t \in {E, D}, PersistUnlink(t) PROVE Pointing'
<1> USE DEF store, keys, sem, walk, Goto
<1>1. pc[t] \in WalkLabel
  BY DEF WalkLabel, PersistUnlink, CheckRoom, QueueWrite, Puncture, WriteEntry, RotateMaster,
         RefreshBegin, RefreshSector, ClearKey, CopyKey, Reacquire
<1>2. /\ t \in Thread /\ t \notin Item /\ ListsOK /\ WalkAt(t) /\ bkt[t] \in Bucket
      /\ rot \in 0 .. KeyTableLen /\ lock \in [Bucket -> Thread \cup {NoOne}]
      /\ pc[t] \in {"entry", "leave", "check", "has_room", "down_write", "write"}
           => lock[bkt[t]] = t /\ t \notin reading
      /\ pc[t] = "master" /\ t \notin reading => lock[bkt[t]] = t
      /\ pc[t] \in {"bucket", "down_read", "down_again"} => t \notin reading
      /\ pc[t] \in {"scan", "copy"} => t \in reading
  BY WalkerKnows
<1>3. ASSUME CheckRoom(t) PROVE Pointing'
  <2>1. OnEntry(t) /\ Straying(t) /\ UNCHANGED <<list, at, next, bkt, rot, reading>>
    BY <1>2, <1>3, Pointed DEF CheckRoom, WalkAt
  <2>2. PICK l \in {"down_read", "has_room"} : pc' = [pc EXCEPT ![t] = l]
    BY <1>3 DEF CheckRoom
  <2>3. \A b \in Bucket : lock'[b] = lock[b] \/ lock[b] \in {NoOne, t}
    BY <1>2, <1>3 DEF CheckRoom, Up
  <2>4. l = "has_room" => lock' = lock
    BY <1>2, <1>3, <2>2, Known DEF CheckRoom
  <2>5. l \in WalkLabel /\ l \notin {"entry", "scan", "copy", "leave", "master", "down_again"}
    BY <2>2 DEF WalkLabel
  <2>6. l \in Holding /\ t \notin reading' => lock'[bkt[t]] = t
    BY <1>2, <1>3, <2>2, <2>4 DEF CheckRoom, Holding
  <2> QED
    BY <1>1, <1>2, <2>1, <2>2, <2>3, <2>5, <2>6, PersistGoes
<1>4. ASSUME NEW l \in {"down_write", "write", "master"}, pc' = [pc EXCEPT ![t] = l],
             pc[t] \in {"has_room", "down_write", "write"},
             UNCHANGED <<list, at, next, bkt, rot, reading, lock>>
      PROVE  Pointing'
  <2>1. OnEntry(t)
    BY <1>2, <1>4 DEF WalkAt
  <2>2. l \in WalkLabel /\ l \notin {"entry", "scan", "copy", "leave", "down_read", "down_again"}
    BY <1>4 DEF WalkLabel
  <2>3. t \notin reading' /\ lock'[bkt[t]] = t
    BY <1>2, <1>4
  <2> QED
    BY <1>1, <1>2, <1>4, <2>1, <2>2, <2>3, PersistGoes
<1>5. ASSUME QueueWrite(t) \/ Puncture(t) \/ WriteEntry(t) PROVE Pointing'
  BY <1>4, <1>5 DEF QueueWrite, Puncture, WriteEntry
<1>6. ASSUME RotateMaster(t) PROVE Pointing'
  <2>1. PICK l \in {"down_again", "leave"} :
          pc' = [pc EXCEPT ![t] = l] /\ l = IF t \in reading THEN "down_again" ELSE "leave"
    BY <1>2, <1>6 DEF RotateMaster, Resume
  <2>2. /\ UNCHANGED <<list, at, next, bkt, rot, lock>> /\ reading' = reading \ {t}
        /\ pc[t] = "master"
    BY <1>6 DEF RotateMaster
  <2>3. l \in WalkLabel /\ l \notin {"entry", "scan", "copy", "check", "has_room", "down_write",
                                     "write", "master", "down_read"}
    BY <2>1 DEF WalkLabel
  <2>4. IF t \in reading THEN Lost(t) ELSE OnEntry(t)
    BY <1>2, <2>2 DEF WalkAt
  <2>5. l \in Holding => lock'[bkt[t]] = t
    BY <1>2, <2>1, <2>2 DEF Holding
  <2> QED
    BY <1>1, <1>2, <2>1, <2>2, <2>3, <2>4, <2>5, PersistGoes
<1>7. ASSUME RefreshBegin(t) PROVE Pointing'
  <2>1. CASE \E f : Fail(f)
    <3>1. UNCHANGED <<list, at, next, bkt, rot, lock, reading, pc>>
      BY <2>1 DEF Fail
    <3> QED
      BY <3>1, PointingSame
  <2>2. CASE reading = {} /\ reading' = {t} /\ rot' = 0 /\ Goto(t, "scan")
             /\ UNCHANGED <<list, at, next, bkt, lock>>
    <3>1. Straying(t)
      BY <1>2, <1>7 DEF RefreshBegin, WalkAt
    <3>2. /\ "scan" \in WalkLabel /\ "scan" \notin Holding
          /\ "scan" \notin {"entry", "leave", "copy", "down_again", "master", "check", "has_room",
                            "down_write", "write"}
      BY DEF WalkLabel, Holding
    <3>3. rot' \in 0 .. KeyTableLen
      BY <2>2, DeviceAssumption
    <3> QED
      BY <1>1, <1>2, <2>2, <3>1, <3>2, <3>3, PersistGoes
  <2> QED
    BY <1>7, <2>1, <2>2 DEF RefreshBegin
<1>8. ASSUME ClearKey(t) PROVE Pointing'
  <2>1. /\ UNCHANGED <<list, at, next, bkt, rot, lock, reading>> /\ pc[t] = "scan"
        /\ pc' = [pc EXCEPT ![t] = "copy"] /\ rot = KeyTableLen
    BY <1>8 DEF ClearKey
  <2>2. Lost(t)
    <3>1. Straying(t) /\ Ahead(t)
      BY <1>2, <2>1 DEF WalkAt
    <3> QED
      BY <2>1, <3>1, DeviceAssumption DEF Straying, Ahead, Lost, Sector
  <2>3. /\ "copy" \in WalkLabel /\ "copy" \notin Holding
        /\ "copy" \notin {"entry", "leave", "scan", "master", "check", "has_room", "down_write",
                          "write", "down_read"}
    BY DEF WalkLabel, Holding
  <2> QED
    BY <1>1, <1>2, <2>1, <2>2, <2>3, PersistGoes
<1>9. ASSUME CopyKey(t) PROVE Pointing'
  <2>1. /\ UNCHANGED <<list, at, next, bkt, rot, lock, reading>> /\ pc[t] = "copy"
        /\ pc' = [pc EXCEPT ![t] = "master"]
    BY <1>9 DEF CopyKey
  <2>2. Lost(t) /\ t \in reading
    BY <1>2, <2>1 DEF WalkAt
  <2>3. /\ "master" \in WalkLabel
        /\ "master" \notin {"entry", "leave", "scan", "copy", "down_again", "check", "has_room",
                            "down_write", "write", "down_read"}
    BY DEF WalkLabel
  <2> QED
    BY <1>1, <1>2, <2>1, <2>2, <2>3, PersistGoes
<1>10. ASSUME Reacquire(t) PROVE Pointing'
  <2>1. /\ UNCHANGED <<list, at, next, bkt, rot, reading>> /\ pc[t] = "down_again"
        /\ pc' = [pc EXCEPT ![t] = "leave"]
    BY <1>2, <1>10 DEF Reacquire, Resume
  <2>2. lock'[bkt[t]] = t /\ \A b \in Bucket : lock'[b] = lock[b] \/ lock[b] \in {NoOne, t}
    BY <1>2, <1>10 DEF Reacquire, Down
  <2>3. Lost(t) /\ t \notin reading
    BY <1>2, <2>1 DEF WalkAt
  <2>4. /\ "leave" \in WalkLabel
        /\ "leave" \notin {"entry", "scan", "copy", "down_again", "check", "has_room", "master",
                           "down_write", "write", "down_read"}
    BY DEF WalkLabel
  <2> QED
    BY <1>1, <1>2, <2>1, <2>2, <2>3, <2>4, PersistGoes
<1> QED
  BY <1>3, <1>5, <1>6, <1>7, <1>8, <1>9, <1>10, RefreshPoints DEF PersistUnlink

-----------------------------------------------------------------------------
\* An entry on a list is followed by the next.
LEMMA AfterAt ==
  ASSUME NEW b \in Bucket, NEW l, l = list[b], Listed(l), NEW k \in 1 .. Len(l),
         NEW s, s = l[k], BucketOf(s) = b
  PROVE  After(s) = IF k + 1 > Len(l) THEN End ELSE l[k + 1]
BY IndexIs DEF After, From

\* The walker drops the entry it is on, or leaves it there, and goes on to the next.
LEMMA NextEntry ==
  ASSUME ListsOK, NEW t, OnEntry(t), next[t] # Freed, bkt[t] \in Bucket, bkt'[t] = bkt[t],
         \/ list' = list
         \/ list' = [list EXCEPT ![BucketOf(at[t])] = Without(@, at[t])],
         at'[t] = next[t], next'[t] = IF next[t] = End THEN End ELSE After(next[t])
  PROVE  at'[t] = End \/ OnEntry(t)'
<1> SUFFICES ASSUME next[t] # End PROVE OnEntry(t)'
  OBVIOUS
<1>1. PICK s \in Sector : s = at[t] /\ Cached(s) /\ BucketOf(s) = bkt[t] /\ next[t] = After(s)
  BY DEF OnEntry
<1>2. PICK n \in Sector : n = next[t] /\ Cached(n) /\ BucketOf(n) = bkt[t] /\ n # s
  BY <1>1, AfterIs
<1>3. PICK b \in Bucket : b = bkt[t]
  OBVIOUS
<1>4. PICK l : l = list[b]
  OBVIOUS
<1>5. Listed(l) /\ DOMAIN l = 1 .. Len(l) /\ Len(l) \in Nat
  BY <1>4, LenProperties DEF ListsOK, Listed
<1>6. PICK k \in 1 .. Len(l) : l[k] = s
  BY <1>1, <1>3, <1>4, <1>5 DEF Cached, Range
<1>7. k + 1 \in 1 .. Len(l) /\ n = l[k + 1]
  <2>1. After(s) = IF k + 1 > Len(l) THEN End ELSE l[k + 1]
    BY <1>1, <1>3, <1>4, <1>5, <1>6, AfterAt
  <2>2. n # End
    BY <1>2
  <2> QED
    BY <1>1, <1>2, <1>5, <2>1, <2>2
<1>8. next'[t] = IF k + 2 > Len(l) THEN End ELSE l[k + 2]
  <2>1. PICK j \in 1 .. Len(l) : j = k + 1
    BY <1>7
  <2>2. After(n) = IF j + 1 > Len(l) THEN End ELSE l[j + 1]
    BY <1>2, <1>3, <1>4, <1>5, <1>7, <2>1, AfterAt
  <2> QED
    BY <1>2, <2>1, <2>2
<1>9. PICK m : m = list'[b]
  OBVIOUS
<1>10. BucketOf(n)' = b /\ ListsOK' /\ Cached(n)' /\ n \in Sector' /\ b \in Bucket'
  <2>1. CASE list' = list
    BY <1>2, <1>3, <2>1, ListsSame DEF Cached, BucketOf, Sector, Bucket
  <2>2. CASE list' = [list EXCEPT ![BucketOf(at[t])] = Without(@, at[t])]
    BY <1>1, <1>2, <1>3, <2>2, ListDropped DEF BucketOf, Sector, Bucket
  <2> QED
    BY <2>1, <2>2
<1>11. Listed(m) /\ Len(m) \in Nat /\ After(n)' = next'[t]
  <2>1. Listed(m)
    BY <1>9, <1>10 DEF ListsOK, Listed, Sector
  <2>2. CASE list' = list
    <3>1. After(n)' = After(n)
      BY <2>2 DEF After, From, Index, BucketOf
    <3> QED
      BY <1>2, <1>4, <1>5, <1>9, <2>1, <2>2, <3>1
  <2>3. CASE list' = [list EXCEPT ![BucketOf(at[t])] = Without(@, at[t])]
    <3>1. m = Without(l, l[k])
      BY <1>1, <1>3, <1>4, <1>6, <1>9, <2>3 DEF ListsOK
    <3>2. /\ Len(m) = Len(l) - 1 /\ Len(m) \in Nat
          /\ \A i \in 1 .. Len(m) : m[i] = IF i < k THEN l[i] ELSE l[i + 1]
      <4>1. Listed(l)
        BY <1>5
      <4>2. k \in 1 .. Len(l)
        BY <1>6
      <4>3. /\ Listed(m) /\ Len(m) = Len(l) - 1
            /\ \A i \in 1 .. Len(m) : m[i] = IF i < k THEN l[i] ELSE l[i + 1]
            /\ Range(m) = Range(l) \ {l[k]}
        BY <3>1, <4>1, <4>2, Removed
      <4> QED
        BY <4>3, LenProperties DEF Listed
    <3>3. PICK c, d \in Nat : c = Len(l) /\ d = Len(m)
      BY <1>5, <3>2
    <3>4. k \in 1 .. d /\ d = c - 1 /\ m[k] = n
      BY <1>6, <1>7, <3>2, <3>3
    <3>5. IF k + 1 > d THEN k + 2 > c ELSE ~(k + 2 > c) /\ m[k + 1] = l[k + 2]
      <4>1. CASE k + 1 > d
        BY <3>3, <3>4, <4>1
      <4>2. CASE ~(k + 1 > d)
        <5>1. k + 1 \in 1 .. d /\ ~(k + 1 < k) /\ (k + 1) + 1 = k + 2
          BY <3>3, <3>4, <4>2
        <5> QED
          BY <3>2, <3>3, <3>4, <4>2, <5>1
      <4> QED
        BY <4>1, <4>2
    <3>6. After(n)' = IF k + 1 > d THEN End ELSE m[k + 1]
      <4>1. Index(m, n) = k
        BY <2>1, <3>3, <3>4, IndexIs
      <4> QED
        BY <1>9, <1>10, <3>3, <4>1 DEF After, From
    <3> QED
      BY <1>8, <2>1, <3>2, <3>3, <3>5, <3>6
  <2> QED
    BY <2>2, <2>3
<1> QED
  BY <1>2, <1>3, <1>10, <1>11 DEF OnEntry

\* A fault ends the run and changes no list.
LEMMA FailPoints == ASSUME Pointing, NEW f, Fail(f) PROVE Pointing'
BY PointingSame DEF Fail, store, sem, walk

\* Where a walk of a bucket's list begins.
LEMMA BucketLists ==
  ASSUME ListsOK, NEW b \in Bucket, list[b] # <<>>
  PROVE  /\ From(b, 1) \in Sector /\ Cached(From(b, 1)) /\ BucketOf(From(b, 1)) = b
         /\ From(b, 2) = After(From(b, 1))
<1>1. PICK l : l = list[b]
  OBVIOUS
<1>2. Listed(l) /\ DOMAIN l = 1 .. Len(l) /\ Len(l) \in Nat /\ Len(l) # 0 /\ l \in Seq(Sector)
  BY <1>1, LenProperties, EmptySeq DEF ListsOK, Listed
<1>3. 1 \in 1 .. Len(l)
  BY <1>2
<1>4. From(b, 1) = l[1]
  BY <1>1, <1>2 DEF From
<1>5. l[1] \in Range(l) /\ l[1] \in Sector
  BY <1>2, <1>3, ElementOfSeq DEF Range
<1>6. BucketOf(l[1]) = b
  BY <1>1, <1>5 DEF ListsOK
<1>7. After(l[1]) = From(b, 2)
  <2>1. Index(l, l[1]) = 1
    BY <1>2, <1>3, IndexIs
  <2> QED
    BY <1>1, <1>6, <2>1 DEF After
<1> QED
  BY <1>1, <1>4, <1>5, <1>6, <1>7 DEF Cached

\* The steps of a walk over the buckets.
LEMMA WalkPoints == ASSUME IInv, Pointing, NEW t \in {E, D}, Walk(t) PROVE Pointing'
<1> USE DEF store, keys, sem, walk, Goto
<1>1. pc[t] \in WalkLabel
  BY DEF WalkLabel, Walk, EnterBucket, PassBucket, LeaveEntry, LeaveBucket
<1>2. /\ t \in Thread /\ t \notin Item /\ ListsOK /\ WalkAt(t) /\ bkt[t] \in Bucket
      /\ at \in [Thread -> Pointer] /\ next \in [Thread -> Pointer] /\ rot \in 0 .. KeyTableLen
      /\ lock \in [Bucket -> Thread \cup {NoOne}] /\ bkt \in [Thread -> Bucket]
      /\ pc[t] \in {"entry", "leave", "check", "has_room", "down_write", "write"}
           => lock[bkt[t]] = t /\ t \notin reading
      /\ pc[t] = "bucket" => t \notin reading
  BY WalkerKnows
<1>3. ASSUME NextBucket(t), \A b \in Bucket : lock'[b] = lock[b] \/ lock[b] \in {NoOne, t},
             UNCHANGED <<list, at, next, rot, reading>>
      PROVE  Pointing'
  <2>1. PICK l \in {"bucket", "sleep", "free"} :
          pc' = [pc EXCEPT ![t] = l] /\ (l = "sleep" => t = E) /\ (l = "free" => t # E)
    BY <1>3 DEF NextBucket
  <2>2. l \in EvictLabel \cup DtrLabel /\ l \notin Holding /\ l \notin {"scan", "copy"} /\ pc'[t] = l
    BY <1>2, <2>1, Known DEF EvictLabel, DtrLabel, WalkLabel, Holding
  <2>3. WalkAt(t)'
    BY <2>1, <2>2 DEF WalkAt
  <2>4. \A u \in Thread \ {t} : bkt'[u] = bkt[u]
    BY <1>2, <1>3 DEF NextBucket
  <2> QED
    BY <1>1, <1>2, <1>3, <2>1, <2>2, <2>3, <2>4, WalkerGoes
<1>4. ASSUME EnterBucket(t) PROVE Pointing'
  <2>1. PICK b \in Bucket : b = bkt[t]
    BY <1>2
  <2>2. /\ pc' = [pc EXCEPT ![t] = "entry"] /\ UNCHANGED <<list, bkt, rot, reading>>
        /\ pc[t] = "bucket" /\ list[b] # <<>>
        /\ at' = [at EXCEPT ![t] = From(b, 1)] /\ next' = [next EXCEPT ![t] = From(b, 2)]
    BY <1>4, <2>1 DEF EnterBucket
  <2>3. /\ From(b, 1) \in Sector /\ Cached(From(b, 1)) /\ BucketOf(From(b, 1)) = b
        /\ From(b, 2) = After(From(b, 1))
    BY <1>2, <2>2, BucketLists
  <2>4. From(b, 2) = End \/ From(b, 2) \in Sector
    BY <1>2, <2>3, AfterIs
  <2>5. /\ at' \in [Thread -> Pointer] /\ next' \in [Thread -> Pointer]
        /\ at'[t] = From(b, 1) /\ next'[t] = From(b, 2) /\ pc'[t] = "entry"
        /\ \A u \in Thread \ {t} : at'[u] = at[u] /\ next'[u] = next[u]
    BY <1>2, <2>2, <2>3, <2>4, Known DEF Pointer
  <2>6. OnEntry(t)'
    <3>1. PICK x \in Sector : x = From(b, 1) /\ Cached(x) /\ BucketOf(x) = b /\ From(b, 2) = After(x)
      BY <2>3
    <3>2. Cached(x)' /\ After(x)' = After(x) /\ BucketOf(x)' = b /\ x \in Sector'
      BY <2>2, <3>1 DEF Cached, BucketOf, After, From, Sector
    <3>3. bkt'[t] = b /\ at'[t] = x /\ next'[t] = After(x)
      BY <2>1, <2>2, <2>5, <3>1
    <3> QED
      BY <3>2, <3>3 DEF OnEntry
  <2>7. WalkAt(t)'
    BY <2>5, <2>6 DEF WalkAt
  <2>8. lock'[bkt[t]] = t /\ \A c \in Bucket : lock'[c] = lock[c] \/ lock[c] \in {NoOne, t}
    BY <1>2, <1>4 DEF EnterBucket, Down
  <2>9. "entry" \in EvictLabel \cup DtrLabel
    BY DEF EvictLabel, WalkLabel
  <2> QED
    BY <1>1, <1>2, <2>2, <2>5, <2>7, <2>8, <2>9, WalkerGoes
<1>5. ASSUME PassBucket(t) PROVE Pointing'
  BY <1>3, <1>5 DEF PassBucket
<1>6. ASSUME LeaveBucket(t) PROVE Pointing'
  <2>1. \A b \in Bucket : lock'[b] = lock[b] \/ lock[b] \in {NoOne, t}
    BY <1>2, <1>6 DEF LeaveBucket, Up
  <2> QED
    BY <1>3, <1>6, <2>1 DEF LeaveBucket
<1>7. ASSUME LeaveEntry(t) PROVE Pointing'
  <2>1. CASE \E f : Fail(f)
    BY <2>1, FailPoints
  <2>2. CASE /\ ~(Drops(t) /\ at[t] = Freed) /\ next[t] # Freed
             /\ IF Drops(t) THEN Drop(at[t]) ELSE UNCHANGED <<list, entry>>
             /\ at' = [at EXCEPT ![t] = next[t]]
             /\ next' = [next EXCEPT ![t] = IF next[t] = End THEN End ELSE After(next[t])]
             /\ Goto(t, "entry")
             /\ UNCHANGED <<lock, bkt, rot, reading>>
    <3>1. pc[t] = "leave"
      BY <1>7 DEF LeaveEntry
    <3>2. OnEntry(t) \/ Lost(t)
      BY <1>2, <3>1 DEF WalkAt
    <3>3. at'[t] = next[t] /\ next'[t] = IF next[t] = End THEN End ELSE After(next[t])
      BY <1>2, <2>2
    <3>4. CASE Lost(t)
      <4>1. list' = list /\ at'[t] = End /\ next'[t] = End
        BY <2>2, <3>3, <3>4 DEF Lost
      <4>2. at' \in [Thread -> Pointer] /\ next' \in [Thread -> Pointer]
        BY <1>2, <2>2, <3>4 DEF Lost, Pointer
      <4>3. "entry" \in EvictLabel \cup DtrLabel /\ pc'[t] = "entry"
        BY <1>2, <2>2, Known DEF EvictLabel, WalkLabel
      <4>4. WalkAt(t)'
        BY <4>1, <4>3 DEF WalkAt
      <4>5. \A u \in Thread \ {t} : at'[u] = at[u] /\ next'[u] = next[u]
        BY <1>2, <2>2
      <4> QED
        BY <1>1, <1>2, <2>2, <3>1, <4>1, <4>2, <4>3, <4>4, <4>5, WalkerGoes
    <3>5. CASE OnEntry(t)
      <4>1. PICK s \in Sector : s = at[t] /\ Cached(s) /\ BucketOf(s) = bkt[t]
        BY <3>5 DEF OnEntry
      <4>2. list' = list \/ list' = [list EXCEPT ![BucketOf(s)] = Without(@, s)]
        BY <2>2, <4>1 DEF Drop
      <4>3. ListsOK' /\ \A b \in Bucket : b # bkt[t] => list'[b] = list[b]
        <5>1. CASE list' = list
          BY <1>2, <5>1, ListsSame
        <5>2. CASE list' = [list EXCEPT ![BucketOf(s)] = Without(@, s)]
          BY <1>2, <4>1, <5>2, ListDropped
        <5> QED
          BY <4>2, <5>1, <5>2
      <4>4. at'[t] = End \/ OnEntry(t)'
        BY <1>2, <2>2, <3>3, <3>5, <4>1, <4>2, NextEntry
      <4>5. at'[t] \in Pointer /\ next'[t] \in Pointer
        <5>1. next[t] = End \/ (next[t] \in Sector /\ Cached(next[t]))
          BY <1>2, <3>5, Pointed
        <5>2. next[t] # End => After(next[t]) = End \/ After(next[t]) \in Sector
          BY <1>2, <5>1, AfterIs
        <5> QED
          BY <3>3, <5>1, <5>2 DEF Pointer
      <4>6. at' \in [Thread -> Pointer] /\ next' \in [Thread -> Pointer]
        BY <1>2, <2>2, <4>5
      <4>7. pc'[t] = "entry" /\ \A u \in Thread \ {t} : pc'[u] = pc[u]
        BY <1>2, <2>2, Known
      <4>8. ThreadAt(t)'
        BY <1>2, <4>4, <4>7 DEF ThreadAt, WalkAt
      <4>9. Locked(t)' /\ lock[bkt[t]] = t
        BY <1>2, <2>2, <3>1 DEF Locked
      <4>10. \A u \in Thread \ {t} : at'[u] = at[u] /\ next'[u] = next[u]
        BY <1>2, <2>2
      <4>11. \A b \in Bucket : list'[b] = list[b] \/ lock[b] = t
        BY <4>3, <4>9
      <4> QED
        BY <1>1, <1>2, <2>2, <4>3, <4>6, <4>7, <4>8, <4>9, <4>10, <4>11, OneMoves
    <3> QED
      BY <3>2, <3>4, <3>5
  <2> QED
    BY <1>7, <2>1, <2>2 DEF LeaveEntry
<1> QED
  BY <1>4, <1>5, <1>6, <1>7 DEF Walk

\* The eviction thread wakes, walks or ends.
LEMMA EvictPoints == ASSUME IInv, Pointing, Evict PROVE Pointing'
<1> USE DEF store, keys, sem, walk, Goto
<1>1. /\ E \in Thread /\ E \in {E, D} /\ WalkAt(E) /\ bkt[E] \in Bucket /\ ListsOK
      /\ at \in [Thread -> Pointer] /\ next \in [Thread -> Pointer] /\ rot \in 0 .. KeyTableLen
      /\ lock \in [Bucket -> Thread \cup {NoOne}] /\ bkt \in [Thread -> Bucket]
      /\ pc[E] = "entry" => lock[bkt[E]] = E /\ E \notin reading
  BY WalkerKnows
<1>2. ASSUME Wake PROVE Pointing'
  <2>1. PICK l \in {"dead", "bucket"} : pc' = [pc EXCEPT ![E] = l]
    BY <1>2 DEF Wake
  <2>2. /\ l \in EvictLabel \cup DtrLabel /\ l \notin Holding /\ l \notin {"scan", "copy"}
        /\ pc'[E] = l
    BY <1>1, <2>1, Known DEF EvictLabel, WalkLabel, Holding
  <2>3. WalkAt(E)'
    BY <2>1, <2>2 DEF WalkAt
  <2>4. UNCHANGED <<list, at, next, rot, lock, reading>> /\ \A u \in Thread \ {E} : bkt'[u] = bkt[u]
    BY <1>1, <1>2 DEF Wake
  <2> QED
    BY <1>1, <2>1, <2>2, <2>3, <2>4, WalkerGoes
<1>3. ASSUME NEW w \in BOOLEAN, NEW d \in BOOLEAN, EvictEntry(w, d) PROVE Pointing'
  <2>1. PICK l \in {"check", "leave"} : pc' = [pc EXCEPT ![E] = l]
    BY <1>3 DEF EvictEntry
  <2>2. /\ pc[E] = "entry" /\ OnEntry(E)
        /\ UNCHANGED <<list, at, next, bkt, rot, lock, reading>>
    BY <1>1, <1>3 DEF EvictEntry, WalkAt
  <2>3. /\ l \in WalkLabel /\ pc[E] \in WalkLabel
        /\ l \notin {"entry", "scan", "copy", "down_read", "down_again", "master"}
    BY <2>1, <2>2 DEF WalkLabel
  <2> QED
    BY <1>1, <2>1, <2>2, <2>3, PersistGoes
<1> QED
  BY <1>1, <1>2, <1>3, WalkPoints, PersistPoints DEF Evict

\* The destructor is called, or takes a step.
LEMMA DestroyPoints == ASSUME IInv, Pointing, Destroy \/ Shutdown PROVE Pointing'
<1> USE DEF store, keys, sem, walk, life, Goto
<1>1. /\ D \in Thread /\ D \in {E, D} /\ WalkAt(D) /\ bkt[D] \in Bucket /\ ListsOK
      /\ at \in [Thread -> Pointer] /\ next \in [Thread -> Pointer] /\ rot \in 0 .. KeyTableLen
      /\ lock \in [Bucket -> Thread \cup {NoOne}] /\ bkt \in [Thread -> Bucket]
      /\ pc[D] = "entry" => lock[bkt[D]] = D /\ D \notin reading
  BY WalkerKnows
<1>2. ASSUME NEW l \in {"jobs", "stopping", "bucket", "flush", "closed"}, Goto(D, l),
             UNCHANGED <<list, at, next, bkt, rot, lock, reading>>
      PROVE  Pointing'
  <2>1. /\ l \in EvictLabel \cup DtrLabel /\ l \notin Holding /\ l \notin {"scan", "copy"}
        /\ pc'[D] = l
    BY <1>1, <1>2, Known DEF DtrLabel, WalkLabel, Holding
  <2>2. WalkAt(D)'
    BY <1>2, <2>1 DEF WalkAt
  <2> QED
    BY <1>1, <1>2, <2>1, <2>2, WalkerGoes
<1>3. ASSUME ForceEvictEntry PROVE Pointing'
  <2>1. PICK l \in {"check", "leave"} : pc' = [pc EXCEPT ![D] = l]
    BY <1>3 DEF ForceEvictEntry
  <2>2. /\ pc[D] = "entry" /\ OnEntry(D)
        /\ UNCHANGED <<list, at, next, bkt, rot, lock, reading>>
    BY <1>1, <1>3 DEF ForceEvictEntry, WalkAt
  <2>3. /\ l \in WalkLabel /\ pc[D] \in WalkLabel
        /\ l \notin {"entry", "scan", "copy", "down_read", "down_again", "master"}
    BY <2>1, <2>2 DEF WalkLabel
  <2> QED
    BY <1>1, <2>1, <2>2, <2>3, PersistGoes
<1>4. ASSUME Shutdown \/ StopEviction \/ ForceEvict \/ Free \/ Closed PROVE Pointing'
  BY <1>2, <1>4 DEF Shutdown, StopEviction, ForceEvict, Free, Closed
<1> QED
  BY <1>1, <1>3, <1>4, WalkPoints, PersistPoints DEF Destroy

\* Nothing is cached, nobody walks.
LEMMA InitPoints == Init => Pointing
<1> SUFFICES ASSUME Init PROVE Pointing
  OBVIOUS
<1>1. \A t \in Thread : pc[t] = IF t = E THEN "sleep" ELSE IF t = D THEN "open" ELSE "idle"
  BY DEF Init
<1>2. ListsOK
  <2>1. Listed(<<>>) /\ Range(<<>>) = {}
    BY DEF Listed, Range
  <2> QED
    BY <2>1 DEF Init, ListsOK
<1>3. HoldsOK
  BY <1>1 DEF HoldsOK, Locked, Holds, Holding
<1>4. \A t \in Thread : ThreadAt(t)
  BY <1>1 DEF ThreadAt, ItemAt, WalkAt, Placed
<1>5. at \in [Thread -> Pointer] /\ next \in [Thread -> Pointer] /\ rot \in 0 .. KeyTableLen
  BY DeviceAssumption DEF Init, Pointer
<1> QED
  BY <1>2, <1>3, <1>4, <1>5 DEF Pointing, PointersOK

\* Every step keeps Pointing.
LEMMA NextPoints == IInv /\ Pointing /\ [Next]_vars => Pointing'
<1> SUFFICES ASSUME IInv, Pointing, [Next]_vars PROVE Pointing'
  OBVIOUS
<1>1. CASE UNCHANGED vars
  BY <1>1, PointingSame DEF vars, store, keys, sem, walk
<1>2. CASE Step
  <2>1. ASSUME NEW i \in Item, Work(i) PROVE Pointing'
    BY <2>1, ItemPoints, FailPoints DEF Work, LateWork
  <2> QED
    BY <1>2, <2>1, QueuePoints, EvictPoints, DestroyPoints DEF Step
<1> QED
  BY <1>1, <1>2 DEF Next

-----------------------------------------------------------------------------
\* Who refreshes and who writes, by where one walker is.
LEMMA Phase ==
  ASSUME IInv, NEW t \in {E, D}, pc[t] \in WalkLabel
  PROVE  /\ \A l \in {"scan", "copy"} : Refreshes(l) <=> pc[t] = l
         /\ \A s : Writing(s) <=> pc[t] = "write" /\ at[t] = s
<1>1. \A u \in {E, D} : pc[u] \in WalkLabel => u = t
  BY Alone, Names
<1>2. \A u \in {E, D} : pc[u] \in {"scan", "copy", "write"} => u = t
  BY <1>1 DEF WalkLabel
<1> QED
  BY <1>2 DEF Refreshes, Writing

\* The two refresh phases after a step of another thread.
LEMMA PhaseNext ==
  ASSUME IInv, NEW t \in {E, D}, pc[t] \in WalkLabel, NEW m, pc' = [pc EXCEPT ![t] = m]
  PROVE  /\ \A l \in {"scan", "copy"} : Refreshes(l)' <=> m = l
         /\ \A s : Writing(s)' <=> m = "write" /\ at'[t] = s
<1>1. pc'[t] = m /\ \A u \in {E, D} : u # t => pc'[u] = pc[u]
  BY Known, Names
<1>2. \A u \in {E, D} : pc[u] \in WalkLabel => u = t
  BY Alone, Names
<1>3. \A u \in {E, D} : pc'[u] \in {"scan", "copy", "write"} => u = t
  BY <1>1, <1>2 DEF WalkLabel
<1> QED
  BY <1>1, <1>3 DEF Refreshes, Writing

\* A step of somebody else, or before and after the walk, changes neither.
LEMMA PhaseSame ==
  ASSUME IInv, NEW t \in Thread, NEW m, pc' = [pc EXCEPT ![t] = m],
         t \in {E, D} => {pc[t], m} \cap {"scan", "copy", "write"} = {},
         \A u \in {E, D} : u # t => at'[u] = at[u]
  PROVE  /\ \A l \in {"scan", "copy"} : Refreshes(l)' <=> Refreshes(l)
         /\ \A s : Writing(s)' <=> Writing(s)
<1>1. pc'[t] = m /\ \A u \in Thread : u # t => pc'[u] = pc[u]
  BY Known
<1>2. \A u \in {E, D} : pc'[u] \in {"scan", "copy", "write"} \/ pc[u] \in {"scan", "copy", "write"}
        => pc'[u] = pc[u] /\ at'[u] = at[u]
  BY <1>1, Names
<1> QED
  BY <1>2 DEF Refreshes, Writing

\* A sector whose content, entry and writer stay.
LEMMA ContentSame ==
  ASSUME NEW s \in Sector, ContentAt(s), disk'[s] = disk[s], ver'[s] = ver[s], entry'[s] = entry[s],
         Cached(s)' <=> Cached(s), Writing(s)' <=> Writing(s)
  PROVE  ContentAt(s)'
BY DEF ContentAt

\* Steps that leave the keys and the disk alone.
LEMMA KeysSame ==
  ASSUME KeysOK, UNCHANGED <<disk, pprf, newroot, tagctr, rot>>,
         \A l \in {"scan", "copy"} : Refreshes(l)' <=> Refreshes(l),
         \A s : Writing(s)' <=> Writing(s),
         \A s \in Sector : Writing(s) => entry'[s] = entry[s]
  PROVE  KeysOK'
<1>1. UnderKey => UnderKey'
  BY DEF UnderKey, Sector
<1>2. (UnderBoth => UnderBoth') /\ (UnderNew => UnderNew')
  BY DEF UnderBoth, UnderNew, RewrittenAt, Sector
<1> QED
  BY <1>1, <1>2 DEF KeysOK

\* Whose bucket is locked finds the sector on the disk as it was.
LEMMA RecheckStays ==
  ASSUME IInv, Pointing, RecheckOK, NEW t \in Thread, NEW i \in Item, i # t,
         pc'[i] = pc[i], at'[i] = at[i], newroot' = newroot,
         \A s \in Sector : disk'[s] = disk[s] \/ lock[BucketOf(s)] \in {NoOne, t}
  PROVE  RecheckAt(i)'
<1>1. i \in Thread /\ ItemAt(i) /\ Locked(i) /\ i \notin reading /\ i # NoOne
  BY Known, Names, Places DEF Thread, Pointing, PointersOK, ThreadAt, HoldsOK, IInv, PcOK, ItemLabel,
     Refreshing
<1>2. pc[i] = "recheck" => at[i] \in Sector /\ lock[BucketOf(at[i])] = i
  BY <1>1 DEF ItemAt, Placed, Locked, Holds, Holding
<1> QED
  BY <1>1, <1>2 DEF RecheckOK, RecheckAt

\* What is about to be dropped stays clean while others step.
LEMMA CleanStays ==
  ASSUME IInv, Pointing, CleanOK, NEW t \in Thread, NEW u \in {E, D}, u # t,
         pc'[u] = pc[u], at'[u] = at[u], u \in reading' <=> u \in reading,
         (willEvict' <=> willEvict) \/ u = D,
         \A s \in Sector : entry'[s] = entry[s] \/ lock[BucketOf(s)] \in {NoOne, t}
  PROVE  CleanAt(u)'
<1>1. /\ WalkAt(u) /\ CleanAt(u) /\ u # NoOne
      /\ pc[u] = "leave" => lock[bkt[u]] = u
      /\ pc[u] = "master" /\ u \notin reading => lock[bkt[u]] = u
  BY WalkerKnows, Names DEF CleanOK
<1>2. ASSUME pc[u] = "leave" \/ (pc[u] = "master" /\ u \notin reading), at[u] \in Sector
      PROVE  entry'[at[u]] = entry[at[u]]
  <2>1. OnEntry(u)
    BY <1>1, <1>2 DEF WalkAt, Lost, Freed, Sector
  <2> QED
    BY <1>1, <1>2, <2>1 DEF OnEntry
<1>3. at'[u] \in Sector' <=> at[u] \in Sector
  BY DEF Sector
<1> QED
  BY <1>1, <1>2, <1>3 DEF CleanAt

\* What is known of the sectors and of the cache.
LEMMA Contents ==
  ASSUME StoreOK, ContentsOK, NEW s \in Sector
  PROVE  /\ disk[s].root \in Nat /\ disk[s].root # Torn /\ disk[s].tag \in Nat /\ disk[s].ver \in Nat
         /\ entry[s].tag \in Nat /\ ver[s] \in Nat /\ entry[s].dirty \in {"no", "new", "old"}
         /\ entry[s].ver \in Nat \cup {Junk}
         /\ ContentAt(s)
BY DEF StoreOK, ContentsOK

-----------------------------------------------------------------------------
\* A step that neither stores anything nor begins or ends a refresh or a write.
LEMMA StoredQuiet ==
  ASSUME IInv, Pointing, Stored, NEW t \in Thread, NEW m, pc' = [pc EXCEPT ![t] = m],
         UNCHANGED <<disk, pprf, newroot, tagctr, list, entry, ver, rot>>,
         t \in {E, D} => {pc[t], m} \cap {"scan", "copy", "write"} = {},
         \A u \in Thread \ {t} : at'[u] = at[u] /\ (u \in reading' <=> u \in reading),
         (willEvict' <=> willEvict) \/ t = E,
         t \in Item => RecheckAt(t)', t \in {E, D} => CleanAt(t)'
  PROVE  Stored'
<1>1. \A u \in Thread : u # t => pc'[u] = pc[u]
  BY Known
<1>2. \A u \in {E, D} : u # t => at'[u] = at[u]
  BY Names
<1>3. /\ \A l \in {"scan", "copy"} : Refreshes(l)' <=> Refreshes(l)
      /\ \A s : Writing(s)' <=> Writing(s)
  BY <1>2, PhaseSame
<1>4. StoreOK'
  BY DEF Stored, StoreOK, Sector
<1>5. ASSUME NEW s \in Sector PROVE ContentAt(s)'
  BY <1>3, ContentSame DEF Stored, ContentsOK, Cached, BucketOf
<1>6. ContentsOK'
  BY <1>5 DEF ContentsOK, Sector
<1>7. KeysOK'
  BY <1>3, KeysSame DEF Stored
<1>8. ASSUME NEW i \in Item PROVE RecheckAt(i)'
  BY <1>1, RecheckStays DEF Stored, Thread
<1>9. ASSUME NEW u \in {E, D}, u # t PROVE CleanAt(u)'
  BY <1>1, <1>9, CleanStays, Names DEF Stored
<1>10. CleanOK'
  BY <1>9 DEF CleanOK
<1> QED
  BY <1>4, <1>6, <1>7, <1>8, <1>10 DEF Stored, RecheckOK

\* A step that changes one sector and its entry, whose lock the thread has.
LEMMA SectorStep ==
  ASSUME IInv, Pointing, Stored, NEW t \in Thread, NEW m, pc' = [pc EXCEPT ![t] = m],
         NEW s \in Sector, lock[BucketOf(s)] \in {NoOne, t},
         StoreOK', KeysOK', newroot' = newroot, (willEvict' <=> willEvict) \/ t = E,
         \A r \in Sector \ {s} : /\ disk'[r] = disk[r] /\ ver'[r] = ver[r] /\ entry'[r] = entry[r]
                                 /\ Cached(r)' <=> Cached(r)
                                 /\ Writing(r)' <=> Writing(r),
         \A u \in Thread \ {t} : /\ at'[u] = at[u] \/ (u \in {E, D} /\ pc[u] \notin WalkLabel)
                                 /\ u \in reading' <=> u \in reading,
         ContentAt(s)', t \in Item => RecheckAt(t)', t \in {E, D} => CleanAt(t)'
  PROVE  Stored'
<1>1. \A u \in Thread : u # t => pc'[u] = pc[u]
  BY Known
<1>2. ASSUME NEW r \in Sector PROVE ContentAt(r)'
  BY <1>2, ContentSame DEF Stored, ContentsOK
<1>3. ContentsOK'
  BY <1>2 DEF ContentsOK, Sector
<1>4. \A r \in Sector : disk'[r] = disk[r] \/ lock[BucketOf(r)] \in {NoOne, t}
  OBVIOUS
<1>5. \A r \in Sector : entry'[r] = entry[r] \/ lock[BucketOf(r)] \in {NoOne, t}
  OBVIOUS
<1>6. ASSUME NEW i \in Item PROVE RecheckAt(i)'
  BY <1>1, <1>4, RecheckStays, Names DEF Stored, Thread
<1>7. ASSUME NEW u \in {E, D}, u # t PROVE CleanAt(u)'
  <2>1. CASE at'[u] = at[u]
    BY <1>1, <1>5, <1>7, <2>1, CleanStays, Names DEF Stored
  <2>2. CASE pc[u] \notin WalkLabel
    BY <1>1, <1>7, <2>2, Names DEF CleanAt, WalkLabel
  <2> QED
    BY <1>7, <2>1, <2>2, Names
<1>8. CleanOK'
  BY <1>7 DEF CleanOK
<1> QED
  BY <1>3, <1>6, <1>8 DEF Stored, RecheckOK

\* Queueing changes nothing stored.
LEMMA QueueStores == ASSUME IInv, Pointing, Stored, Queue PROVE Stored'
<1>1. ASSUME NEW i \in Item, NEW s \in Sector, Goto(i, "down"), at' = [at EXCEPT ![i] = s],
             UNCHANGED <<disk, pprf, newroot, tagctr, list, entry, ver, rot, willEvict, reading>>
      PROVE  Stored'
  <2>1. i \in Thread /\ i \notin {E, D} /\ pc' = [pc EXCEPT ![i] = "down"] /\ pc'[i] = "down"
    BY <1>1, Names, Known DEF Thread, Goto
  <2>2. \A u \in Thread \ {i} : at'[u] = at[u]
    BY <1>1, <2>1 DEF Pointing, PointersOK
  <2>3. RecheckAt(i)'
    BY <2>1 DEF RecheckAt
  <2> QED
    BY <1>1, <2>1, <2>2, <2>3, StoredQuiet
<1>2. ASSUME NEW i \in IoWork, NEW s \in Sector, QueueIo(i, s) PROVE Stored'
  BY <1>1, <1>2 DEF QueueIo, Item, store, keys, sem
<1>3. ASSUME NEW i \in UnlinkWork, NEW s \in Sector, QueueUnlink(i, s) PROVE Stored'
  BY <1>1, <1>3 DEF QueueUnlink, Item, store, keys, sem
<1> QED
  BY <1>2, <1>3 DEF Queue

\* Whoever is about to write a sector has it in the cache and its bucket locked.
LEMMA Writer ==
  ASSUME IInv, Pointing, NEW s \in Sector, Writing(s)
  PROVE  Cached(s) /\ lock[BucketOf(s)] \in {E, D}
<1>1. PICK u \in {E, D} : pc[u] = "write" /\ at[u] = s
  BY DEF Writing
<1>2. OnEntry(u) /\ lock[bkt[u]] = u
  BY <1>1, WalkerKnows DEF WalkAt
<1> QED
  BY <1>1, <1>2 DEF OnEntry

\* What a reader finds of a sector that is not in the cache.
LEMMA Reads ==
  ASSUME IInv, Pointing, Stored, NEW s \in Sector, ~Cached(s)
  PROVE  /\ disk[s].ver = ver[s]
         /\ Open(disk[s], pprf) = Junk => disk[s].root = newroot
         /\ Open(disk[s], pprf) # Junk => Open(disk[s], pprf) = ver[s]
         /\ disk[s].root = newroot => Open(disk[s], New) = ver[s]
<1>1. disk[s].ver = ver[s] /\ disk[s].ver \in Nat /\ ~Writing(s)
  BY Contents, Writer DEF Stored, ContentAt
<1>2. disk[s].ver # Junk
  BY <1>1 DEF Junk
<1>3. Open(disk[s], pprf) = Junk => disk[s].root = newroot
  BY <1>1, <1>2 DEF Open, Stored, KeysOK, UnderKey, UnderBoth, UnderNew, RewrittenAt
<1>4. disk[s].root = newroot => Open(disk[s], New) = ver[s]
  BY <1>1 DEF Open, New
<1> QED
  BY <1>1, <1>3, <1>4 DEF Open

\* A fill under either key finds the sector's content; an unlink makes a new one.
LEMMA ItemStores == ASSUME IInv, Pointing, Stored, NEW i \in Item, ItemStep(i) PROVE Stored'
<1> USE DEF store, keys, sem, walk, Goto
<1>1. /\ i \in Thread /\ i \notin {E, D} /\ ItemAt(i) /\ bkt[i] \in Bucket /\ i # NoOne
      /\ pc[i] \in {"read", "recheck", "use"} => lock[bkt[i]] = i
      /\ \A m : pc' = [pc EXCEPT ![i] = m] => pc'[i] = m
  BY Known, Names, Places DEF Thread, Pointing, PointersOK, ThreadAt, HoldsOK, IInv, PcOK, ItemLabel,
     Refreshing, Locked, Holds, Holding
<1>2. ASSUME NEW m, m # "recheck", pc' = [pc EXCEPT ![i] = m],
             UNCHANGED <<disk, pprf, newroot, tagctr, list, entry, ver, rot, willEvict, reading>>,
             \A u \in Thread \ {i} : at'[u] = at[u]
      PROVE  Stored'
  <2>1. RecheckAt(i)'
    BY <1>1, <1>2 DEF RecheckAt
  <2> QED
    BY <1>1, <1>2, <2>1, StoredQuiet
<1>3. ASSUME GetEntry(i) \/ CopyKeyOut(i) \/ EndIo(i) \/ UnlinkDone(i) PROVE Stored'
  <2>1. PICK m \in {"use", "read", "end_io", "idle"} : pc' = [pc EXCEPT ![i] = m]
    BY <1>3 DEF GetEntry, CopyKeyOut, EndIo, UnlinkDone, WorkDone
  <2>2. UNCHANGED <<disk, pprf, newroot, tagctr, list, entry, ver, rot, willEvict, reading>>
    BY <1>3 DEF GetEntry, CopyKeyOut, EndIo, UnlinkDone
  <2>3. \A u \in Thread \ {i} : at'[u] = at[u]
    BY <1>3 DEF GetEntry, CopyKeyOut, EndIo, UnlinkDone, WorkDone, Pointing, PointersOK
  <2> QED
    BY <1>2, <2>1, <2>2, <2>3
<1>4. ASSUME AddEntry(at[i], ver[at[i]]), pc[i] \in {"read", "recheck"},
             pc' = [pc EXCEPT ![i] = "use"],
             UNCHANGED <<disk, pprf, newroot, tagctr, ver, rot, willEvict, reading, at>>
      PROVE  Stored'
  <2>1. PICK s \in Sector : s = at[i] /\ ~Cached(s) /\ lock[BucketOf(s)] = i
    BY <1>1, <1>4 DEF ItemAt, Placed
  <2>2. \A r \in Sector : Cached(r)' <=> Cached(r) \/ r = s
    BY <1>4, <2>1, ListAdded DEF AddEntry, Pointing
  <2>3. entry'[s] = [tag |-> disk[s].tag, ver |-> ver[s], dirty |-> "no"]
        /\ \A r \in Sector : r # s => entry'[r] = entry[r]
    BY <1>4, <2>1 DEF AddEntry, Stored, StoreOK
  <2>4. /\ \A l \in {"scan", "copy"} : Refreshes(l)' <=> Refreshes(l)
        /\ \A r : Writing(r)' <=> Writing(r)
    BY <1>1, <1>4, PhaseSame
  <2>5. ~Writing(s) /\ disk[s].ver = ver[s]
    BY <2>1, Writer, Reads
  <2>6. StoreOK'
    <3>1. [tag |-> disk[s].tag, ver |-> ver[s], dirty |-> "no"]
            \in [tag : Nat, ver : Nat \cup {Junk}, dirty : {"no", "new", "old"}]
      BY Contents DEF Stored
    <3>2. entry' \in [Sector -> [tag : Nat, ver : Nat \cup {Junk}, dirty : {"no", "new", "old"}]]
      BY <1>4, <2>1, <3>1 DEF AddEntry, Stored, StoreOK
    <3> QED
      BY <1>4, <3>2 DEF Stored, StoreOK, Sector
  <2>7. KeysOK'
    BY <1>4, <2>3, <2>4, <2>5, KeysSame DEF Stored
  <2>8. ContentAt(s)'
    <3>1. ver'[s] = ver[s] /\ disk'[s] = disk[s] /\ ver[s] \in Nat
      BY <1>4, Contents DEF Stored
    <3> QED
      BY <2>3, <2>5, <3>1 DEF ContentAt
  <2>9. RecheckAt(i)'
    BY <1>1, <1>4 DEF RecheckAt
  <2> QED
    BY <1>1, <1>4, <2>1, <2>2, <2>3, <2>4, <2>6, <2>7, <2>8, <2>9, SectorStep
<1>5. ASSUME ReadEntry(i) PROVE Stored'
  <2>1. at[i] \in Sector /\ ~Cached(at[i])
    BY <1>1, <1>5 DEF ReadEntry, ItemAt, Placed
  <2>2. CASE Recheck(i)
    <3>1. /\ pc' = [pc EXCEPT ![i] = "recheck"]
          /\ UNCHANGED <<disk, pprf, newroot, tagctr, list, entry, ver, rot, willEvict, reading, at>>
      BY <1>5, <2>2 DEF ReadEntry
    <3>2. RecheckAt(i)'
      BY <2>1, <2>2, <3>1, Reads DEF Recheck, RecheckAt
    <3> QED
      BY <1>1, <3>1, <3>2, StoredQuiet
  <2>3. CASE ~Recheck(i)
    <3>1. Open(disk[at[i]], pprf) = ver[at[i]]
      BY <2>1, <2>3, Reads DEF Recheck
    <3>2. AddEntry(at[i], ver[at[i]])
      BY <1>5, <2>3, <3>1 DEF ReadEntry
    <3> QED
      BY <1>4, <1>5, <2>3, <3>2 DEF ReadEntry
  <2> QED
    BY <2>2, <2>3
<1>6. ASSUME RereadEntry(i) PROVE Stored'
  <2>1. at[i] \in Sector /\ ~Cached(at[i]) /\ disk[at[i]].root = newroot
    BY <1>1, <1>6 DEF RereadEntry, ItemAt, Placed, Stored, RecheckOK, RecheckAt
  <2>2. Open(disk[at[i]], New) = ver[at[i]]
    BY <2>1, Reads
  <2>3. AddEntry(at[i], ver[at[i]])
    BY <1>6, <2>2 DEF RereadEntry
  <2> QED
    BY <1>4, <1>6, <2>3 DEF RereadEntry
<1>7. ASSUME DoUnlink(i) PROVE Stored'
  <2>1. PICK s \in Sector : s = at[i] /\ Cached(s) /\ lock[BucketOf(s)] = i
    BY <1>1, <1>7 DEF DoUnlink, ItemAt, Placed
  <2>2. /\ UNCHANGED <<disk, pprf, newroot, tagctr, list, rot, willEvict, reading, at>>
        /\ pc' = [pc EXCEPT ![i] = "up"]
    BY <1>7 DEF DoUnlink, Unlinked
  <2>3. entry[s].ver = ver[s] /\ ver[s] \in Nat /\ entry[s].ver # Junk /\ disk[s].ver <= ver[s]
        /\ disk[s].ver \in Nat
    BY <2>1, Contents DEF Stored, ContentAt, Junk
  <2>4. PICK n \in Nat : n = ver[s] + 1 /\ disk[s].ver <= n
    BY <2>3
  <2>5. /\ entry' = [entry EXCEPT ![s].ver = n, ![s].dirty = "new"]
        /\ ver' = [ver EXCEPT ![s] = n]
    BY <1>7, <2>1, <2>3, <2>4 DEF DoUnlink, Dirtied
  <2>6. /\ entry'[s].ver = n /\ entry'[s].dirty = "new" /\ entry'[s].tag = entry[s].tag
        /\ ver'[s] = n
        /\ \A r \in Sector : r # s => entry'[r] = entry[r] /\ ver'[r] = ver[r]
    BY <2>5 DEF Stored, StoreOK
  <2>7. /\ \A l \in {"scan", "copy"} : Refreshes(l)' <=> Refreshes(l)
        /\ \A r : Writing(r)' <=> Writing(r)
    BY <1>1, <2>2, PhaseSame
  <2>8. \A r \in Sector : Cached(r)' <=> Cached(r)
    BY <2>2 DEF Cached, BucketOf
  <2>9. ~Writing(s)
    BY <1>1, <2>1, Writer
  <2>10. StoreOK'
    BY <2>2, <2>5 DEF Stored, StoreOK, Sector
  <2>11. KeysOK'
    BY <2>2, <2>6, <2>7, <2>9, KeysSame DEF Stored
  <2>12. ContentAt(s)'
    BY <2>1, <2>2, <2>4, <2>6, <2>8, <2>9, Contents DEF ContentAt, Stored
  <2>13. RecheckAt(i)'
    BY <1>1, <2>2 DEF RecheckAt
  <2> QED
    BY <1>1, <2>1, <2>2, <2>6, <2>7, <2>8, <2>10, <2>11, <2>12, <2>13, SectorStep
<1> QED
  BY <1>3, <1>5, <1>6, <1>7, NoItemPersists DEF ItemStep

-----------------------------------------------------------------------------
\* Steps that leave all that Stored speaks of alone.
LEMMA StoredSame ==
  ASSUME Stored, UNCHANGED <<disk, pprf, newroot, tagctr, list, entry, ver, rot, pc, at, reading, willEvict>>
  PROVE  Stored'
<1>1. StoreOK'
  BY DEF Stored, StoreOK, Sector
<1>2. (\A s : Writing(s)' <=> Writing(s)) /\ (\A l : Refreshes(l)' <=> Refreshes(l))
  BY DEF Writing, Refreshes
<1>3. ASSUME NEW s \in Sector PROVE ContentAt(s)'
  BY <1>2, ContentSame DEF Stored, ContentsOK, Cached, BucketOf
<1>4. KeysOK'
  BY <1>2, KeysSame DEF Stored
<1>5. RecheckOK' /\ CleanOK'
  BY DEF Stored, RecheckOK, RecheckAt, CleanOK, CleanAt, Sector
<1> QED
  BY <1>1, <1>3, <1>4, <1>5 DEF Stored, ContentsOK, Sector

\* A fault changes nothing stored.
LEMMA FailStores == ASSUME Stored, NEW f, Fail(f) PROVE Stored'
BY StoredSame DEF Fail, store, keys, sem, walk

\* A walker's step that changes the PPRF keys and nothing else.
LEMMA KeysStep ==
  ASSUME IInv, Stored, NEW t \in {E, D}, pc[t] \in WalkLabel, NEW m, pc' = [pc EXCEPT ![t] = m],
         {pc[t], m} \cap {"write", "leave"} = {},
         m = "master" => t \in reading',
         UNCHANGED <<disk, list, entry, ver, at, willEvict>>,
         \A u \in Thread \ {t} : u \in reading' <=> u \in reading,
         newroot' = newroot \/ \A i \in Item : pc[i] # "recheck",
         StoreOK', KeysOK'
  PROVE  Stored'
<1>1. /\ t \in Thread /\ t \notin Item /\ pc'[t] = m
      /\ \A u \in Thread : u # t => pc'[u] = pc[u]
  BY Known, Names
<1>2. \A s : ~Writing(s) /\ ~Writing(s)'
  BY Phase, PhaseNext
<1>3. ASSUME NEW s \in Sector PROVE ContentAt(s)'
  BY <1>2, ContentSame DEF Stored, ContentsOK, Cached, BucketOf
<1>4. ASSUME NEW i \in Item PROVE RecheckAt(i)'
  BY <1>1 DEF Stored, RecheckOK, RecheckAt, Thread
<1>5. ASSUME NEW u \in {E, D} PROVE CleanAt(u)'
  <2>1. CASE u = t
    BY <1>1, <2>1 DEF CleanAt
  <2>2. CASE u # t
    BY <1>1, <2>2, Names DEF Stored, CleanOK, CleanAt, Sector
  <2> QED
    BY <2>1, <2>2
<1>6. ContentsOK' /\ RecheckOK' /\ CleanOK'
  BY <1>3, <1>4, <1>5 DEF ContentsOK, RecheckOK, CleanOK, Sector
<1> QED
  BY <1>6 DEF Stored

\* A refresh rewrites one sector, from the cache or under the old key.
LEMMA RefreshStores ==
  ASSUME IInv, Pointing, Stored, NEW t \in {E, D}, RefreshSector(t)
  PROVE  Stored'
<1> USE DEF store, keys, sem, walk, life
<1>1. /\ pc[t] = "scan" /\ rot \in Sector /\ lock[BucketOf(rot)] = NoOne /\ rot' = rot + 1
      /\ UNCHANGED <<pc, reading, pprf, newroot, tagctr, ver, willEvict>>
  BY DeviceAssumption DEF RefreshSector, Pointing, PointersOK, Sector
<1>2. t \in Thread /\ t \notin Item /\ pc[t] \in WalkLabel
  BY <1>1, Names DEF WalkLabel
<1>3. pc' = [pc EXCEPT ![t] = "scan"]
  BY <1>1, <1>2, Known
<1>4. /\ Refreshes("scan") /\ Refreshes("scan")' /\ UnderBoth
      /\ \A s : ~Writing(s) /\ ~Writing(s)'
  BY <1>1, <1>2, <1>3, Phase, PhaseNext DEF Stored, KeysOK
<1>5. disk[rot].ver \in Nat /\ disk[rot].ver # Junk /\ Open(disk[rot], pprf) = disk[rot].ver
  <2>1. disk[rot].root = pprf.root /\ disk[rot].tag \notin pprf.punct
    BY <1>1, <1>4 DEF UnderBoth, Sector
  <2> QED
    BY <1>1, <2>1, Contents DEF Stored, Junk, Open
<1>6. Rotated = [root |-> newroot, tag |-> rot, ver |-> ver[rot]]
  BY <1>1, <1>5, Contents DEF Rotated, Stored, ContentAt
<1>7. /\ newroot \in Nat /\ newroot # Torn /\ ver[rot] \in Nat /\ rot \in Nat
      /\ newroot = pprf.root + 1 /\ pprf.root \in Nat
  BY <1>1, <1>4, Contents DEF Stored, StoreOK, UnderBoth, Torn, Sector
<1>8. /\ disk'[rot].root = newroot /\ disk'[rot].tag = rot /\ disk'[rot].ver = ver[rot]
      /\ \A r \in Sector : r # rot => disk'[r] = disk[r]
      /\ disk' \in [Sector -> [root : Nat \ {Torn}, tag : Nat, ver : Nat]]
  BY <1>1, <1>6, <1>7 DEF RefreshSector, Stored, StoreOK
<1>9. /\ \A r \in Sector : r # rot => entry'[r] = entry[r]
      /\ entry' \in [Sector -> [tag : Nat, ver : Nat \cup {Junk}, dirty : {"no", "new", "old"}]]
      /\ \A x \in Sector : Cached(x)' <=> Cached(x) /\ x # rot
  <2>1. CASE Cached(rot)
    <3>1. list' = [list EXCEPT ![BucketOf(rot)] = Without(@, rot)] /\ entry' = [entry EXCEPT ![rot] = NoEntry]
      BY <2>1 DEF RefreshSector, Drop
    <3>2. \A x \in Sector : Cached(x)' <=> Cached(x) /\ x # rot
      BY <1>1, <2>1, <3>1, ListDropped DEF Pointing
    <3> QED
      BY <1>1, <3>1, <3>2 DEF Stored, StoreOK, NoEntry
  <2>2. CASE ~Cached(rot)
    <3>1. list' = list /\ entry' = entry
      BY <2>2 DEF RefreshSector
    <3> QED
      BY <1>1, <2>2, <3>1 DEF Stored, StoreOK, Cached, BucketOf
  <2> QED
    BY <2>1, <2>2
<1>10. StoreOK'
  BY <1>1, <1>8, <1>9 DEF Stored, StoreOK, Sector
<1>11. UnderBoth'
  <2>1. ASSUME NEW s \in Sector
        PROVE  IF s < rot + 1 THEN disk'[s].root = newroot /\ disk'[s].tag = s
               ELSE disk'[s].root = pprf.root /\ disk'[s].tag \notin pprf.punct
    <3>1. CASE s = rot
      BY <1>1, <1>8, <3>1 DEF Sector
    <3>2. CASE s < rot
      BY <1>1, <1>4, <1>8, <3>2 DEF UnderBoth, RewrittenAt, Sector
    <3>3. CASE s > rot
      BY <1>1, <1>4, <1>8, <3>3 DEF UnderBoth, Sector
    <3> QED
      BY <1>1, <3>1, <3>2, <3>3 DEF Sector
  <2> QED
    BY <1>1, <1>4, <2>1 DEF UnderBoth, RewrittenAt, Sector
<1>12. KeysOK'
  BY <1>4, <1>11 DEF KeysOK
<1>13. PICK s \in Sector : s = rot /\ ContentAt(s)'
  <2>1. PICK s \in Sector : s = rot
    BY <1>1
  <2>2. ContentAt(s)'
    BY <1>1, <1>7, <1>8, <1>9, <2>1 DEF ContentAt
  <2> QED
    BY <2>1, <2>2
<1>14. \A u \in Thread \ {t} : at'[u] = at[u] \/ (u \in {E, D} /\ pc[u] \notin WalkLabel)
  <2>1. ASSUME NEW u \in Thread, u # t PROVE at'[u] = at[u] \/ (u \in {E, D} /\ pc[u] \notin WalkLabel)
    <3>1. CASE u \in {E, D}
      BY <1>2, <2>1, <3>1, Alone
    <3>2. CASE u \notin {E, D}
      BY <2>1, <3>2 DEF RefreshSector, Freeing, Pointing, PointersOK
    <3> QED
      BY <3>1, <3>2
  <2> QED
    BY <2>1
<1>15. CleanAt(t)'
  BY <1>1 DEF CleanAt
<1> QED
  BY <1>1, <1>2, <1>3, <1>4, <1>8, <1>9, <1>10, <1>12, <1>13, <1>14, <1>15, SectorStep

-----------------------------------------------------------------------------
\* persist_unlink without a refresh: the sector gets a new tag, then is written.
LEMMA PunctureStores ==
  ASSUME IInv, Pointing, Stored, NEW t \in {E, D}, Puncture(t)
  PROVE  Stored'
<1> USE DEF store, keys, sem, walk, life, Goto
<1>1. /\ pc[t] = "down_write" /\ pc[t] \in WalkLabel /\ pc' = [pc EXCEPT ![t] = "write"]
      /\ UNCHANGED <<disk, newroot, list, reading, at, willEvict, rot, ver>>
  BY DEF Puncture, WalkLabel
<1>2. t \in Thread /\ t \notin Item /\ OnEntry(t) /\ lock[bkt[t]] = t
  BY <1>1, WalkerKnows DEF WalkAt
<1>3. PICK s \in Sector : s = at[t] /\ Cached(s) /\ lock[BucketOf(s)] = t
  BY <1>2 DEF OnEntry
<1>4. PICK g \in Nat : g = entry[s].tag
  BY Contents DEF Stored
<1>5. /\ pprf' = [pprf EXCEPT !.punct = @ \cup {g}]
      /\ entry' = [entry EXCEPT ![s].tag = tagctr] /\ tagctr' = tagctr + 1
  BY <1>3, <1>4 DEF Puncture
<1>6. /\ \A l \in {"scan", "copy"} : ~Refreshes(l) /\ ~Refreshes(l)'
      /\ \A x : ~Writing(x) /\ (Writing(x)' <=> x = s)
  BY <1>1, <1>3, Phase, PhaseNext
<1>7. UnderKey /\ tagctr \in Nat /\ g = disk[s].tag
  BY <1>3, <1>4, <1>6, Contents DEF Stored, KeysOK, StoreOK, ContentAt
<1>8. StoreOK'
  <2>1. entry' \in [Sector -> [tag : Nat, ver : Nat \cup {Junk}, dirty : {"no", "new", "old"}]]
    BY <1>5, <1>7 DEF Stored, StoreOK
  <2>2. /\ pprf' = [root |-> pprf'.root, punct |-> pprf'.punct]
        /\ pprf'.root \in Nat /\ pprf'.punct \subseteq Nat /\ tagctr' \in Nat
    <3>1. PICK r, q : r = pprf.root /\ q = pprf.punct /\ pprf = [root |-> r, punct |-> q]
      BY DEF Stored, StoreOK
    <3>2. pprf' = [root |-> r, punct |-> q \cup {g}]
      BY <1>5, <3>1
    <3>3. r \in Nat /\ q \cup {g} \subseteq Nat
      BY <1>4, <3>1 DEF Stored, StoreOK
    <3>4. pprf'.root = r /\ pprf'.punct = q \cup {g}
      BY <3>2
    <3>5. tagctr' \in Nat
      BY <1>5, <1>7
    <3> QED
      BY <3>2, <3>3, <3>4, <3>5
  <2> QED
    BY <1>1, <2>1, <2>2 DEF Stored, StoreOK, Sector
<1>9. /\ entry'[s].tag = tagctr /\ entry'[s].ver = entry[s].ver /\ entry'[s].dirty = entry[s].dirty
      /\ \A r \in Sector : r # s => entry'[r] = entry[r]
      /\ pprf'.root = pprf.root /\ pprf'.punct = pprf.punct \cup {g}
  BY <1>5 DEF Stored, StoreOK
<1>10. UnderKey'
  <2>1. \A p \in pprf'.punct : p < tagctr + 1
    <3>1. \A p \in pprf.punct : p \in Nat /\ p < tagctr
      BY <1>7 DEF UnderKey, Stored, StoreOK
    <3>2. g < tagctr
      BY <1>7 DEF UnderKey
    <3> QED
      BY <1>4, <1>7, <1>9, <3>1, <3>2
  <2>2. ASSUME NEW x \in Sector
        PROVE  /\ disk[x].root = pprf.root /\ disk[x].tag < tagctr + 1
               /\ disk[x].tag \notin pprf'.punct \/ x = s
               /\ \A r \in Sector : disk[r].tag = disk[x].tag => r = x
               /\ disk[x].tag # tagctr
    <3>1. disk[x].tag \in Nat /\ disk[x].tag < tagctr
      BY <1>7, Contents DEF UnderKey, Stored
    <3>2. disk[x].tag \notin pprf'.punct \/ x = s
      BY <1>6, <1>7, <1>9 DEF UnderKey
    <3> QED
      BY <1>7, <3>1, <3>2 DEF UnderKey
  <2>3. tagctr < tagctr + 1 /\ tagctr \notin pprf'.punct
    <3>1. tagctr # g /\ tagctr \notin pprf.punct
      BY <1>7 DEF UnderKey
    <3> QED
      BY <1>7, <1>9, <3>1
  <2> QED
    BY <1>1, <1>5, <1>6, <1>7, <1>9, <2>1, <2>2, <2>3 DEF UnderKey, Sector
<1>11. KeysOK'
  BY <1>6, <1>10 DEF KeysOK
<1>12. \A r \in Sector : Cached(r)' <=> Cached(r)
  BY <1>1 DEF Cached, BucketOf
<1>13. ContentAt(s)'
  BY <1>1, <1>3, <1>6, <1>9, <1>12, Contents DEF ContentAt, Stored
<1>14. CleanAt(t)'
  BY <1>1, <1>2, Known DEF CleanAt
<1>15. \A r \in Sector \ {s} : Writing(r)' <=> Writing(r)
  BY <1>6
<1> QED
  BY <1>1, <1>2, <1>3, <1>8, <1>9, <1>11, <1>12, <1>13, <1>14, <1>15, SectorStep

\* The write of a punctured sector ends.
LEMMA WriteStores ==
  ASSUME IInv, Pointing, Stored, NEW t \in {E, D}, WriteEntry(t)
  PROVE  Stored'
<1> USE DEF store, keys, sem, walk, life, Goto
<1>1. /\ pc[t] = "write" /\ pc[t] \in WalkLabel /\ pc' = [pc EXCEPT ![t] = "master"]
      /\ UNCHANGED <<pprf, newroot, tagctr, list, reading, at, willEvict, rot, ver>>
  BY DEF WriteEntry, WalkLabel
<1>2. t \in Thread /\ t \notin Item /\ OnEntry(t) /\ lock[bkt[t]] = t
  BY <1>1, WalkerKnows DEF WalkAt
<1>3. PICK s \in Sector : s = at[t] /\ Cached(s) /\ lock[BucketOf(s)] = t
  BY <1>2 DEF OnEntry
<1>4. /\ \A l \in {"scan", "copy"} : ~Refreshes(l) /\ ~Refreshes(l)'
      /\ \A x : (Writing(x) <=> x = s) /\ ~Writing(x)'
  <2>1. (\A l \in {"scan", "copy"} : ~Refreshes(l)) /\ \A x : Writing(x) <=> x = s
    BY <1>1, <1>3, Phase
  <2>2. (\A l \in {"scan", "copy"} : ~Refreshes(l)') /\ \A x : ~Writing(x)'
    <3>1. /\ \A l \in {"scan", "copy"} : Refreshes(l)' <=> "master" = l
          /\ \A x : Writing(x)' <=> "master" = "write" /\ at'[t] = x
      BY <1>1, PhaseNext
    <3> QED
      BY <3>1
  <2> QED
    BY <2>1, <2>2
<1>5. PICK g, v \in Nat : g = entry[s].tag /\ v = entry[s].ver /\ v = ver[s]
  BY <1>3, Contents DEF Stored, ContentAt
<1>6. /\ disk' = [disk EXCEPT ![s] = [root |-> pprf.root, tag |-> g, ver |-> v]]
      /\ entry' = [entry EXCEPT ![s].dirty = "no"]
  BY <1>3, <1>5 DEF WriteEntry
<1>7. UnderKey /\ pprf.root \in Nat /\ pprf.root # Torn
  BY <1>4 DEF Stored, KeysOK, StoreOK, UnderKey
<1>8. /\ entry'[s].tag = g /\ entry'[s].ver = v /\ entry'[s].dirty = "no"
      /\ disk'[s].root = pprf.root /\ disk'[s].tag = g /\ disk'[s].ver = v
      /\ \A r \in Sector : r # s => entry'[r] = entry[r] /\ disk'[r] = disk[r]
  BY <1>5, <1>6 DEF Stored, StoreOK
<1>9. StoreOK'
  <2>1. entry' \in [Sector -> [tag : Nat, ver : Nat \cup {Junk}, dirty : {"no", "new", "old"}]]
    BY <1>6 DEF Stored, StoreOK
  <2>2. disk' \in [Sector -> [root : Nat \ {Torn}, tag : Nat, ver : Nat]]
    BY <1>5, <1>6, <1>7 DEF Stored, StoreOK
  <2> QED
    BY <1>1, <2>1, <2>2 DEF Stored, StoreOK, Sector
<1>10. UnderKey'
  <2>1. g < tagctr /\ g \notin pprf.punct /\ \A r \in Sector : disk[r].tag # g
    BY <1>4, <1>5, <1>7 DEF UnderKey
  <2>2. ASSUME NEW x \in Sector
        PROVE  /\ disk'[x].root = pprf.root /\ disk'[x].tag < tagctr
               /\ disk'[x].tag \notin pprf.punct
               /\ \A r \in Sector : disk'[r].tag = disk'[x].tag => r = x
    <3>1. CASE x = s
      BY <1>8, <2>1, <3>1
    <3>2. CASE x # s
      BY <1>4, <1>7, <1>8, <2>1, <3>2 DEF UnderKey
    <3> QED
      BY <3>1, <3>2
  <2> QED
    BY <1>1, <1>4, <1>7, <2>2 DEF UnderKey, Sector
<1>11. KeysOK'
  BY <1>4, <1>10 DEF KeysOK
<1>12. \A r \in Sector : Cached(r)' <=> Cached(r)
  BY <1>1 DEF Cached, BucketOf
<1>13. ContentAt(s)'
  BY <1>1, <1>3, <1>5, <1>8, <1>12 DEF ContentAt
<1>14. CleanAt(t)'
  BY <1>1, <1>3, <1>8 DEF CleanAt
<1>15. \A r \in Sector \ {s} : Writing(r)' <=> Writing(r)
  BY <1>4
<1> QED
  BY <1>1, <1>2, <1>3, <1>8, <1>9, <1>11, <1>12, <1>13, <1>14, <1>15, SectorStep

\* The refresh begins, and the new key takes the place of the old one.
LEMMA BeginStores ==
  ASSUME IInv, Pointing, Stored, NEW t \in {E, D}, RefreshBegin(t)
  PROVE  Stored'
<1> USE DEF store, keys, sem, walk, life, Goto
<1>1. CASE \E f : Fail(f)
  BY <1>1, FailStores
<1>2. CASE /\ reading = {} /\ ~(\E i \in Item : pc[i] = "recheck")
           /\ reading' = {t} /\ newroot' = pprf.root + 1 /\ rot' = 0
           /\ Goto(t, "scan")
           /\ UNCHANGED <<disk, pprf, tagctr, list, entry, at, willEvict, ver>>
  <2>1. /\ pc[t] = "down_read" /\ pc[t] \in WalkLabel /\ pc' = [pc EXCEPT ![t] = "scan"]
    BY <1>2 DEF RefreshBegin, WalkLabel
  <2>2. /\ \A l \in {"scan", "copy"} : ~Refreshes(l)
        /\ Refreshes("scan")'
        /\ \A x : ~Writing(x) /\ ~Writing(x)'
    BY <2>1, Phase, PhaseNext
  <2>3. UnderKey
    BY <2>2 DEF Stored, KeysOK
  <2>4. StoreOK'
    <3>1. newroot' \in Nat
      BY <1>2 DEF Stored, StoreOK
    <3> QED
      BY <1>2, <3>1 DEF Stored, StoreOK, Sector
  <2>5. UnderBoth'
    <3>1. \A s \in Sector : ~(s < 0)
      BY DEF Sector
    <3> QED
      BY <1>2, <2>2, <2>3, <3>1 DEF UnderKey, UnderBoth, Sector
  <2>6. KeysOK'
    BY <2>2, <2>5 DEF KeysOK
  <2> QED
    BY <1>2, <2>1, <2>4, <2>6, KeysStep
<1> QED
  BY <1>1, <1>2 DEF RefreshBegin

\* The old key is given up: the whole table is under the new one.
LEMMA ClearStores ==
  ASSUME IInv, Stored, NEW t \in {E, D}, ClearKey(t)
  PROVE  Stored'
<1> USE DEF store, keys, sem, walk, life, Goto
<1>1. /\ pc[t] = "scan" /\ pc[t] \in WalkLabel /\ pc' = [pc EXCEPT ![t] = "copy"]
      /\ rot = KeyTableLen /\ pprf' = [root |-> Torn, punct |-> {}] /\ tagctr' = KeyTableLen
      /\ UNCHANGED <<disk, newroot, list, entry, reading, at, willEvict, ver>>
  BY DEF ClearKey, WalkLabel
<1>2. Refreshes("scan") /\ ~Refreshes("scan")' /\ Refreshes("copy")'
  BY <1>1, Phase, PhaseNext
<1>3. UnderBoth /\ newroot \in Nat /\ newroot # Torn /\ pprf.root \in Nat
  BY <1>2 DEF Stored, KeysOK, StoreOK, UnderBoth, Torn
<1>4. StoreOK'
  BY <1>1, DeviceAssumption DEF Stored, StoreOK, Sector, Torn
<1>5. UnderNew'
  <2>1. \A s \in Sector : s < rot
    BY <1>1, DeviceAssumption DEF Sector
  <2> QED
    BY <1>1, <1>3, <2>1 DEF UnderBoth, UnderNew, RewrittenAt, Sector
<1>6. KeysOK'
  BY <1>2, <1>5 DEF KeysOK
<1> QED
  BY <1>1, <1>4, <1>6, KeysStep

\* The new PPRF key takes the place of the old.
LEMMA CopyStores ==
  ASSUME IInv, Pointing, Stored, NEW t \in {E, D}, CopyKey(t)
  PROVE  Stored'
<1> USE DEF store, keys, sem, walk, life, Goto
<1>1. /\ pc[t] = "copy" /\ pc[t] \in WalkLabel /\ pc' = [pc EXCEPT ![t] = "master"]
      /\ pprf' = [root |-> newroot, punct |-> {}]
      /\ UNCHANGED <<disk, newroot, tagctr, list, entry, reading, at, willEvict, ver>>
  BY DEF CopyKey, New, WalkLabel
<1>2. /\ ~Refreshes("scan") /\ Refreshes("copy") /\ \A l \in {"scan", "copy"} : ~Refreshes(l)'
      /\ \A x : ~Writing(x)'
  <2>1. ~Refreshes("scan") /\ Refreshes("copy")
    BY <1>1, Phase
  <2>2. (\A l \in {"scan", "copy"} : ~Refreshes(l)') /\ \A x : ~Writing(x)'
    <3>1. /\ \A l \in {"scan", "copy"} : Refreshes(l)' <=> "master" = l
          /\ \A x : Writing(x)' <=> "master" = "write" /\ at'[t] = x
      BY <1>1, PhaseNext
    <3> QED
      BY <3>1
  <2> QED
    BY <2>1, <2>2
<1>3. UnderNew /\ newroot \in Nat
  BY <1>2 DEF Stored, KeysOK, StoreOK
<1>4. StoreOK'
  BY <1>1, <1>3 DEF Stored, StoreOK, Sector
<1>5. UnderKey'
  <2>1. ASSUME NEW s \in Sector
        PROVE  /\ disk[s].root = newroot /\ disk[s].tag < tagctr
               /\ \A r \in Sector : disk[r].tag = disk[s].tag => r = s
    BY <1>3, DeviceAssumption DEF UnderNew, RewrittenAt, Sector
  <2> QED
    BY <1>1, <1>2, <1>3, <2>1 DEF UnderKey, UnderNew, Sector
<1>6. KeysOK'
  BY <1>2, <1>5 DEF KeysOK
<1>7. t \in reading
  BY <1>1, WalkerKnows
<1> QED
  BY <1>1, <1>4, <1>6, <1>7, KeysStep

\* Every step of persist_unlink keeps Stored.
LEMMA PersistStores ==
  ASSUME IInv, Pointing, Stored, NEW t \in {E, D}, PersistUnlink(t)
  PROVE  Stored'
<1> USE DEF store, keys, sem, walk, life, Goto
<1>1. t \in Thread /\ t \notin Item /\ WalkAt(t)
  BY WalkerKnows
<1>2. ASSUME NEW m \in {"down_read", "has_room", "down_write", "down_again", "leave"},
             pc' = [pc EXCEPT ![t] = m],
             pc[t] \in {"check", "has_room", "master", "down_again"},
             \A u \in Thread \ {t} : u \in reading' <=> u \in reading,
             UNCHANGED <<disk, pprf, newroot, tagctr, list, entry, ver, rot, at, willEvict>>,
             m = "leave" => (at[t] \in Sector => entry[at[t]].dirty = "no")
      PROVE  Stored'
  <2>1. CleanAt(t)'
    BY <1>1, <1>2, Known DEF CleanAt, Sector
  <2> QED
    BY <1>1, <1>2, <2>1, StoredQuiet
<1>3. ASSUME CheckRoom(t) \/ QueueWrite(t) PROVE Stored'
  <2>1. PICK m \in {"down_read", "has_room", "down_write"} : pc' = [pc EXCEPT ![t] = m]
    BY <1>3 DEF CheckRoom, QueueWrite
  <2> QED
    BY <1>2, <1>3, <2>1 DEF CheckRoom, QueueWrite
<1>4. ASSUME RotateMaster(t) PROVE Stored'
  <2>1. CASE t \in reading
    BY <1>2, <1>4, <2>1 DEF RotateMaster
  <2>2. CASE t \notin reading
    <3>1. pc' = [pc EXCEPT ![t] = "leave"] /\ pc[t] = "master"
      BY <1>1, <1>4, <2>2 DEF RotateMaster, Resume
    <3>2. at[t] \in Sector => entry[at[t]].dirty = "no"
      BY <2>2, <3>1 DEF Stored, CleanOK, CleanAt
    <3> QED
      BY <1>2, <1>4, <3>1, <3>2 DEF RotateMaster
  <2> QED
    BY <2>1, <2>2
<1>5. ASSUME Reacquire(t) PROVE Stored'
  <2>1. pc' = [pc EXCEPT ![t] = "leave"] /\ pc[t] = "down_again"
    BY <1>1, <1>5 DEF Reacquire, Resume
  <2>2. at[t] \notin Sector
    BY <1>1, <2>1 DEF WalkAt, Lost, Freed, Sector
  <2> QED
    BY <1>2, <1>5, <2>1, <2>2 DEF Reacquire
<1> QED
  BY <1>3, <1>4, <1>5, PunctureStores, WriteStores, BeginStores, RefreshStores, ClearStores,
     CopyStores DEF PersistUnlink

-----------------------------------------------------------------------------
\* An entry is dropped once it is clean.
LEMMA LeaveStores ==
  ASSUME IInv, Pointing, Stored, NEW t \in {E, D}, LeaveEntry(t)
  PROVE  Stored'
<1> USE DEF store, keys, sem, walk, life, Goto
<1>1. CASE \E f : Fail(f)
  BY <1>1, FailStores
<1>2. CASE /\ ~(Drops(t) /\ at[t] = Freed)
           /\ IF Drops(t) THEN Drop(at[t]) ELSE UNCHANGED <<list, entry>>
           /\ at' = [at EXCEPT ![t] = next[t]]
           /\ Goto(t, "entry")
           /\ UNCHANGED <<disk, pprf, newroot, tagctr, reading, willEvict, rot, ver>>
  <2>1. /\ t \in Thread /\ t \notin Item /\ pc[t] = "leave" /\ pc[t] \in WalkLabel
        /\ pc' = [pc EXCEPT ![t] = "entry"] /\ pc'[t] = "entry"
    BY <1>2, WalkerKnows, Known DEF LeaveEntry, WalkLabel
  <2>2. OnEntry(t) \/ Lost(t)
    BY <2>1, WalkerKnows DEF WalkAt
  <2>3. \A u \in Thread \ {t} : at'[u] = at[u]
    BY <1>2, WalkerKnows
  <2>4. CleanAt(t)'
    BY <2>1 DEF CleanAt
  <2>5. CASE ~Drops(t)
    BY <1>2, <2>1, <2>3, <2>4, <2>5, StoredQuiet
  <2>6. CASE Drops(t)
    <3>1. PICK s \in Sector : s = at[t] /\ Cached(s) /\ lock[BucketOf(s)] = t
      BY <1>2, <2>1, <2>2, <2>6, WalkerKnows DEF OnEntry, Lost
    <3>2. /\ list' = [list EXCEPT ![BucketOf(s)] = Without(@, s)]
          /\ entry' = [entry EXCEPT ![s] = NoEntry]
      BY <1>2, <2>6, <3>1 DEF Drop
    <3>3. \A x \in Sector : Cached(x)' <=> Cached(x) /\ x # s
      BY <3>1, <3>2, ListDropped DEF Pointing
    <3>4. entry[s].dirty = "no"
      <4>1. CleanAt(t)
        BY DEF Stored, CleanOK
      <4> QED
        BY <2>1, <2>6, <3>1, <4>1 DEF CleanAt, Drops
    <3>5. disk[s].ver = ver[s] /\ ver[s] \in Nat
      BY <3>1, <3>4, Contents DEF Stored, ContentAt
    <3>6. \A x : ~Writing(x) /\ ~Writing(x)'
      BY <2>1, Phase, PhaseNext
    <3>7. \A l \in {"scan", "copy"} : Refreshes(l)' <=> Refreshes(l)
      BY <2>1, Phase, PhaseNext
    <3>8. \A r \in Sector : r # s => entry'[r] = entry[r]
      BY <3>2 DEF Stored, StoreOK
    <3>9. StoreOK'
      <4>1. entry' \in [Sector -> [tag : Nat, ver : Nat \cup {Junk}, dirty : {"no", "new", "old"}]]
        BY <3>2 DEF Stored, StoreOK, NoEntry
      <4> QED
        BY <1>2, <4>1 DEF Stored, StoreOK, Sector
    <3>10. KeysOK'
      BY <1>2, <3>6, <3>7, KeysSame DEF Stored
    <3>11. ContentAt(s)'
      BY <1>2, <3>3, <3>5 DEF ContentAt
    <3> QED
      BY <1>2, <2>1, <2>3, <2>4, <3>1, <3>3, <3>6, <3>8, <3>9, <3>10, <3>11, SectorStep
  <2> QED
    BY <2>5, <2>6
<1> QED
  BY <1>1, <1>2 DEF LeaveEntry

\* Every step of a walk keeps Stored.
LEMMA WalkStores == ASSUME IInv, Pointing, Stored, NEW t \in {E, D}, Walk(t) PROVE Stored'
<1> USE DEF store, keys, sem, walk, life, Goto
<1>1. t \in Thread /\ t \notin Item /\ at \in [Thread -> Pointer]
  BY WalkerKnows
<1>2. ASSUME NEW m \in {"entry", "bucket", "sleep", "free"}, pc' = [pc EXCEPT ![t] = m],
             pc[t] \in {"bucket", "entry"}, \A u \in Thread \ {t} : at'[u] = at[u],
             UNCHANGED <<disk, pprf, newroot, tagctr, list, entry, ver, rot, reading>>,
             (willEvict' <=> willEvict) \/ t = E
      PROVE  Stored'
  <2>1. CleanAt(t)'
    BY <1>1, <1>2, Known DEF CleanAt
  <2> QED
    BY <1>1, <1>2, <2>1, StoredQuiet
<1>3. ASSUME EnterBucket(t) PROVE Stored'
  BY <1>1, <1>2, <1>3 DEF EnterBucket
<1>4. ASSUME PassBucket(t) \/ LeaveBucket(t) PROVE Stored'
  <2>1. PICK m \in {"bucket", "sleep", "free"} : pc' = [pc EXCEPT ![t] = m]
    BY <1>4 DEF PassBucket, LeaveBucket, NextBucket
  <2>2. (willEvict' <=> willEvict) \/ t = E
    <3>1. CASE PassBucket(t)
      BY <3>1 DEF PassBucket
    <3>2. CASE LeaveBucket(t)
      <4>1. willEvict' = (willEvict /\ t # E)
        BY <3>2 DEF LeaveBucket
      <4> QED
        BY <4>1, Zenon
    <3> QED
      BY <1>4, <3>1, <3>2
  <2>3. /\ UNCHANGED <<disk, pprf, newroot, tagctr, list, entry, ver, rot, reading, at>>
        /\ pc[t] \in {"bucket", "entry"}
    BY <1>4 DEF PassBucket, LeaveBucket
  <2> QED
    BY <1>2, <2>1, <2>2, <2>3
<1> QED
  BY <1>3, <1>4, LeaveStores DEF Walk

\* The eviction thread's steps keep Stored.
LEMMA EvictStores == ASSUME IInv, Pointing, Stored, Evict PROVE Stored'
<1> USE DEF store, keys, sem, walk, life, Goto
<1>1. E \in Thread /\ E \notin Item /\ WalkAt(E)
  BY WalkerKnows
<1>2. ASSUME Wake PROVE Stored'
  <2>1. PICK m \in {"dead", "bucket"} : pc' = [pc EXCEPT ![E] = m]
    BY <1>2 DEF Wake
  <2>2. CleanAt(E)'
    BY <1>1, <2>1, Known DEF CleanAt
  <2> QED
    BY <1>1, <1>2, <2>1, <2>2, StoredQuiet DEF Wake
<1>3. ASSUME NEW w \in BOOLEAN, NEW d \in BOOLEAN, EvictEntry(w, d) PROVE Stored'
  <2>1. /\ pc[E] = "entry" /\ pc[E] \in WalkLabel /\ (willEvict' <=> d)
        /\ UNCHANGED <<disk, pprf, newroot, tagctr, list, reading, at, ver, rot>>
    BY <1>3 DEF EvictEntry, WalkLabel
  <2>2. OnEntry(E) /\ lock[bkt[E]] = E
    BY <1>3, <2>1, WalkerKnows DEF EvictEntry, WalkAt
  <2>3. PICK s \in Sector : s = at[E] /\ Cached(s) /\ lock[BucketOf(s)] = E
    BY <2>2 DEF OnEntry
  <2>4. CASE (w \/ d) /\ entry[s].dirty # "no"
    <3>1. pc' = [pc EXCEPT ![E] = "check"] /\ entry' = entry
      BY <1>3, <2>3, <2>4 DEF EvictEntry
    <3>2. CleanAt(E)'
      BY <1>1, <3>1, Known DEF CleanAt
    <3> QED
      BY <1>1, <2>1, <3>1, <3>2, StoredQuiet
  <2>5. CASE ~((w \/ d) /\ entry[s].dirty # "no")
    <3>1. PICK y \in {"no", "new", "old"} :
            y = (IF entry[s].dirty = "no" THEN "no" ELSE "old") /\ (y = "no" <=> entry[s].dirty = "no")
      OBVIOUS
    <3>2. pc' = [pc EXCEPT ![E] = "leave"] /\ entry' = [entry EXCEPT ![s].dirty = y]
      BY <1>3, <2>3, <2>5, <3>1 DEF EvictEntry, Skipped
    <3>3. /\ entry'[s].tag = entry[s].tag /\ entry'[s].ver = entry[s].ver /\ entry'[s].dirty = y
          /\ \A r \in Sector : r # s => entry'[r] = entry[r]
          /\ entry' \in [Sector -> [tag : Nat, ver : Nat \cup {Junk}, dirty : {"no", "new", "old"}]]
      BY <3>2 DEF Stored, StoreOK
    <3>4. \A x : ~Writing(x) /\ ~Writing(x)'
      <4>1. \A x : ~Writing(x)
        BY <2>1, Phase
      <4>2. \A x : Writing(x)' <=> "leave" = "write" /\ at'[E] = x
        BY <2>1, <3>2, PhaseNext
      <4> QED
        BY <4>1, <4>2
    <3>5. \A l \in {"scan", "copy"} : Refreshes(l)' <=> Refreshes(l)
      <4>1. \A l \in {"scan", "copy"} : ~Refreshes(l)
        BY <2>1, Phase
      <4>2. \A l \in {"scan", "copy"} : Refreshes(l)' <=> "leave" = l
        BY <2>1, <3>2, PhaseNext
      <4> QED
        BY <4>1, <4>2
    <3>6. StoreOK'
      BY <2>1, <3>3 DEF Stored, StoreOK, Sector
    <3>7. KeysOK'
      BY <2>1, <3>4, <3>5, KeysSame DEF Stored
    <3>8. \A x \in Sector : Cached(x)' <=> Cached(x)
      BY <2>1 DEF Cached, BucketOf
    <3>9. ContentAt(s)'
      BY <2>1, <3>1, <3>3, <3>4, <3>8, Contents DEF ContentAt, Stored
    <3>10. CleanAt(E)'
      <4>1. willEvict' => entry'[at'[E]].dirty = "no"
        BY <2>1, <2>3, <2>5, <3>1, <3>3
      <4>2. pc'[E] = "leave"
        BY <1>1, <3>2, Known
      <4> QED
        BY <1>1, <4>1, <4>2, Names DEF CleanAt
    <3> QED
      BY <1>1, <2>1, <2>3, <3>2, <3>3, <3>4, <3>6, <3>7, <3>8, <3>9, <3>10, SectorStep
  <2> QED
    BY <2>4, <2>5
<1> QED
  BY <1>2, <1>3, WalkStores, PersistStores DEF Evict

\* The destructor's steps keep Stored.
LEMMA DestroyStores == ASSUME IInv, Pointing, Stored, Destroy \/ Shutdown PROVE Stored'
<1> USE DEF store, keys, sem, walk, life, Goto
<1>1. D \in Thread /\ D \notin Item /\ WalkAt(D)
  BY WalkerKnows
<1>2. ASSUME NEW m \in {"jobs", "stopping", "bucket", "flush", "closed", "check", "leave"},
             Goto(D, m), pc[D] \in {"open", "jobs", "stopping", "free", "flush", "entry"},
             UNCHANGED <<disk, pprf, newroot, tagctr, list, entry, ver, rot, reading, at, willEvict>>,
             m = "leave" => entry[at[D]].dirty = "no"
      PROVE  Stored'
  <2>1. CleanAt(D)'
    BY <1>1, <1>2, Known DEF CleanAt
  <2> QED
    BY <1>1, <1>2, <2>1, StoredQuiet
<1>3. ASSUME ForceEvictEntry PROVE Stored'
  BY <1>2, <1>3 DEF ForceEvictEntry
<1>4. ASSUME Shutdown \/ StopEviction \/ ForceEvict \/ Free \/ Closed PROVE Stored'
  BY <1>2, <1>4 DEF Shutdown, StopEviction, ForceEvict, Free, Closed
<1> QED
  BY <1>1, <1>3, <1>4, WalkStores, PersistStores DEF Destroy

\* A fresh key table, nothing cached.
LEMMA InitStores == Init => Stored
<1> SUFFICES ASSUME Init PROVE Stored
  OBVIOUS
<1>1. \A t \in Thread : pc[t] = IF t = E THEN "sleep" ELSE IF t = D THEN "open" ELSE "idle"
  BY DEF Init
<1>2. (\A s : ~Writing(s)) /\ ~Refreshes("scan") /\ ~Refreshes("copy") /\ CleanOK /\ RecheckOK
  BY <1>1, Names DEF Writing, Refreshes, CleanOK, CleanAt, RecheckOK, RecheckAt, Thread
<1>3. /\ \A s \in Sector : disk[s] = [root |-> 1, tag |-> s, ver |-> 0] /\ ver[s] = 0
      /\ disk = [s \in Sector |-> [root |-> 1, tag |-> s, ver |-> 0]]
      /\ ver = [s \in Sector |-> 0]
  BY DEF Init
<1>4. \A s \in Sector : ~Cached(s)
  BY BucketOfSector DEF Init, Cached, Range
<1>5. StoreOK
  <2>1. \A s \in Sector : s \in Nat
    BY DEF Sector
  <2>2. disk \in [Sector -> [root : Nat \ {Torn}, tag : Nat, ver : Nat]]
    BY <1>3, <2>1 DEF Torn
  <2>3. entry \in [Sector -> [tag : Nat, ver : Nat \cup {Junk}, dirty : {"no", "new", "old"}]]
    BY DEF Init, NoEntry
  <2> QED
    BY <1>3, <2>2, <2>3, DeviceAssumption DEF Init, StoreOK, Torn
<1>6. ContentsOK
  BY <1>3, <1>4 DEF ContentsOK, ContentAt
<1>7. UnderKey
  <2>1. /\ pprf.root = 1 /\ pprf.punct = {} /\ newroot = Torn /\ tagctr = KeyTableLen
    BY DEF Init
  <2>2. \A s \in Sector : disk[s].root = 1 /\ disk[s].tag = s /\ s < KeyTableLen
    BY <1>3, DeviceAssumption DEF Sector
  <2> QED
    BY <1>2, <2>1, <2>2 DEF UnderKey, Torn
<1> QED
  BY <1>2, <1>5, <1>6, <1>7 DEF Stored, KeysOK

\* Every step keeps Stored.
LEMMA NextStores == IInv /\ Pointing /\ Stored /\ [Next]_vars => Stored'
<1> SUFFICES ASSUME IInv, Pointing, Stored, [Next]_vars PROVE Stored'
  OBVIOUS
<1>1. CASE UNCHANGED vars
  BY <1>1, StoredSame DEF vars, store, keys, sem, walk
<1>2. CASE Step
  <2>1. ASSUME NEW i \in Item, Work(i) PROVE Stored'
    BY <2>1, ItemStores, FailStores DEF Work, LateWork
  <2> QED
    BY <1>2, <2>1, QueueStores, EvictStores, DestroyStores DEF Step
<1> QED
  BY <1>1, <1>2 DEF Next

\* The invariants so far, together.
LEMMA AlwaysStored == Spec => [](IInv /\ Pointing /\ Stored)
<1>1. IInv /\ Pointing /\ Stored /\ [Next]_vars => (IInv /\ Pointing /\ Stored)'
  BY NextIInv, NextPoints, NextStores
<1> QED
  BY <1>1, InitIInv, InitPoints, InitStores, PTL DEF Spec

\* A cache entry holds its sector's current keys (dm-holepunch-main.c:1191-1228),
\* whichever of the two PPRF keys it was read under: a read that meets a refresh half
\* done decrypts with the old key, then with pprf_key_new (1214-1222), and a refresh that
\* takes the bucket later rewrites the sector from the entry and drops it (1011-1014).
THEOREM EntriesAreCurrent == Spec => []EntriesCurrent
<1>1. IInv /\ Pointing /\ Stored => EntriesCurrent
  <2> SUFFICES ASSUME Pointing, Stored, NEW b \in Bucket, NEW s \in Range(list[b])
               PROVE  entry[s].ver = ver[s]
    BY DEF EntriesCurrent
  <2>1. s \in Sector /\ Cached(s)
    <3>1. Listed(list[b]) /\ BucketOf(s) = b
      BY DEF Pointing, ListsOK
    <3>2. PICK i \in 1 .. Len(list[b]) : s = list[b][i]
      BY <3>1, LenProperties DEF Listed, Range
    <3> QED
      BY <3>1, <3>2, ElementOfSeq DEF Listed, Cached
  <2> QED
    BY <2>1, Contents DEF Stored, ContentAt
<1> QED
  BY <1>1, AlwaysStored, PTL

-----------------------------------------------------------------------------
\* A sector that lacks unlinks is in the cache, dirty.
LEMMA BehindIs ==
  ASSUME Stored, LagOK, NEW s \in Sector, Lags(s)
  PROVE  Cached(s) /\ entry[s].dirty # "no" /\ ToCome(s)
<1>1. ContentAt(s) /\ disk[s].ver \in Nat /\ ver[s] \in Nat
  BY Contents DEF Stored
<1>2. due[s] \in Nat /\ due[s] <= ver[s] /\ disk[s].ver < due[s] /\ ToCome(s)
  BY DEF LagOK, Owed, Lags
<1>3. disk[s].ver # ver[s]
  BY <1>1, <1>2
<1> QED
  BY <1>1, <1>2, <1>3 DEF ContentAt

\* What a step that leaves `due` alone has to show.
LEMMA OwedStays ==
  ASSUME Stored, Stored', LagOK, due' = due, pc[D] # "open" \/ pc'[D] = pc[D],
         pc'[D] \in Waiting => pc[D] \in Waiting /\ bkt'[D] = bkt[D],
         \A s \in Sector : /\ ver[s] <= ver'[s]
                           /\ disk'[s] = disk[s] \/ ~Lags(s)' \/ ToCome(s)'
                           /\ Lags(s) => ToCome(s)' \/ ~Lags(s)'
  PROVE  LagOK'
<1>1. ASSUME NEW s \in Sector PROVE Owed(s)'
  <2>1. ver[s] \in Nat /\ ver'[s] \in Nat
    BY DEF Stored, StoreOK, Sector
  <2>2. due[s] \in Nat /\ due[s] <= ver[s]
    BY DEF LagOK, Owed
  <2>3. due'[s] \in Nat /\ due'[s] <= ver'[s]
    BY <2>1, <2>2
  <2>4. ASSUME Lags(s)' PROVE ToCome(s)'
    <3>1. CASE disk'[s] = disk[s]
      BY <2>4, <3>1 DEF Lags
    <3>2. CASE disk'[s] # disk[s]
      BY <2>4, <3>2
    <3> QED
      BY <3>1, <3>2
  <2> QED
    BY <2>3, <2>4 DEF Owed
<1> QED
  BY <1>1 DEF LagOK, Sector

\* While the destructor waits for jobs and eviction, everything is to come.
LEMMA WaitingOwes ==
  ASSUME Stored, Stored', LagOK, due' = due, pc[D] \in Waiting, pc'[D] \in Waiting,
         pc[D] # "open" \/ pc'[D] = pc[D], bkt'[D] = bkt[D], \A s \in Sector : ver[s] <= ver'[s]
  PROVE  LagOK'
<1>1. ASSUME NEW s \in Sector PROVE ToCome(s)'
  BY DEF ToCome, Waiting, InBucket, Passed
<1> QED
  BY <1>1, OwedStays

\* Somebody else's step while the destructor is at it.
LEMMA OthersOwe ==
  ASSUME IInv, Pointing, Stored, Stored', LagOK, NEW t \in Thread, t # D,
         UNCHANGED <<due, disk, rot>>, pc'[D] = pc[D], bkt'[D] = bkt[D], at'[D] = at[D],
         D \in reading' <=> D \in reading,
         \A b \in Bucket : list'[b] = list[b] \/ lock[b] = t,
         \A s \in Sector : ver[s] <= ver'[s]
  PROVE  LagOK'
<1>1. ASSUME NEW s \in Sector, ToCome(s) PROVE ToCome(s)'
  <2>1. pc[D] \in InBucket \/ (pc[D] = "master" /\ D \notin reading) => list'[bkt[D]] = list[bkt[D]]
    BY WalkerKnows DEF InBucket
  <2> QED
    BY <1>1, <2>1 DEF ToCome, BucketOf
<1>2. \A s \in Sector : Lags(s) => ToCome(s)
  BY DEF LagOK, Owed
<1> QED
  BY <1>1, <1>2, OwedStays, Names

\* Queueing changes no due.
LEMMA QueueOwes == ASSUME IInv, Pointing, Stored, Stored', LagOK, Queue PROVE LagOK'
<1>1. ASSUME NEW i \in Item, NEW s \in Sector, Goto(i, "down"), at' = [at EXCEPT ![i] = s],
             bkt' = [bkt EXCEPT ![i] = BucketOf(s)],
             UNCHANGED <<due, disk, rot, reading, list, ver>>
      PROVE  LagOK'
  <2>1. i \in Thread /\ i # D /\ pc'[D] = pc[D]
    BY <1>1, Names, Known DEF Thread, Goto
  <2>2. at'[D] = at[D] /\ bkt'[D] = bkt[D]
    BY <1>1, <2>1
  <2>3. \A x \in Sector : ver[x] <= ver'[x]
    BY <1>1, Contents DEF Stored
  <2> QED
    BY <1>1, <2>1, <2>2, <2>3, OthersOwe
<1>2. ASSUME NEW i \in IoWork, NEW s \in Sector, QueueIo(i, s) PROVE LagOK'
  BY <1>1, <1>2 DEF QueueIo, Item, store, keys, sem
<1>3. ASSUME NEW i \in UnlinkWork, NEW s \in Sector, QueueUnlink(i, s) PROVE LagOK'
  BY <1>1, <1>3 DEF QueueUnlink, Item, store, keys, sem, life
<1> QED
  BY <1>2, <1>3 DEF Queue

\* An entry filled or made newer behind the destructor lacks no unlink that is due.
LEMMA ItemOwes ==
  ASSUME IInv, Pointing, Stored, Stored', LagOK, NEW i \in Item, ItemStep(i)
  PROVE  LagOK'
<1> USE DEF store, keys, sem, walk, life, Goto
<1>1. /\ i \in Thread /\ i # D /\ ItemAt(i) /\ bkt[i] \in Bucket
      /\ pc[i] \in {"read", "recheck"} => lock[bkt[i]] = i
      /\ \A m : pc' = [pc EXCEPT ![i] = m] => pc'[D] = pc[D]
  BY Known, Names, Places DEF Thread, Pointing, PointersOK, ThreadAt, HoldsOK, IInv, PcOK, ItemLabel,
     Refreshing, Locked, Holds, Holding
<1>2. /\ UNCHANGED <<due, disk, rot, reading>> /\ \E m : pc' = [pc EXCEPT ![i] = m]
      /\ at'[D] = at[D] /\ bkt'[D] = bkt[D]
  <2>1. CASE GetEntry(i) \/ ReadEntry(i) \/ RereadEntry(i) \/ CopyKeyOut(i) \/ DoUnlink(i)
    BY <2>1 DEF GetEntry, ReadEntry, RereadEntry, CopyKeyOut, DoUnlink
  <2>2. CASE EndIo(i) \/ UnlinkDone(i)
    <3>1. at \in [Thread -> Pointer] /\ bkt \in [Thread -> Bucket] /\ D \in Thread
      BY WalkerKnows
    <3> QED
      BY <1>1, <2>2, <3>1 DEF EndIo, UnlinkDone, WorkDone
  <2> QED
    BY <2>1, <2>2, NoItemPersists DEF ItemStep
<1>3. \A b \in Bucket : list'[b] = list[b] \/ lock[b] = i
  <2>1. ASSUME NEW v, AddEntry(at[i], v), pc[i] \in {"read", "recheck"}
        PROVE  \A b \in Bucket : list'[b] = list[b] \/ lock[b] = i
    <3>1. lock[BucketOf(at[i])] = i
      BY <1>1, <2>1 DEF ItemAt, Placed
    <3> QED
      BY <2>1, <3>1 DEF AddEntry, Pointing, ListsOK
  <2> QED
    BY <2>1, NoItemPersists DEF ItemStep, GetEntry, ReadEntry, RereadEntry, CopyKeyOut, EndIo,
       DoUnlink, UnlinkDone
<1>4. \A s \in Sector : ver[s] <= ver'[s]
  <2>1. \A s \in Sector : ver[s] \in Nat
    BY Contents DEF Stored
  <2>2. ver' = ver \/ ver' = [ver EXCEPT ![at[i]] = @ + 1]
    BY NoItemPersists DEF ItemStep, GetEntry, ReadEntry, RereadEntry, CopyKeyOut, EndIo, DoUnlink,
       UnlinkDone
  <2>3. ver \in [Sector -> Nat]
    BY DEF Stored, StoreOK
  <2>4. \A s \in Sector : ver'[s] = ver[s] \/ ver'[s] = ver[s] + 1
    BY <2>2, <2>3
  <2> QED
    BY <2>1, <2>4
<1> QED
  BY <1>1, <1>2, <1>3, <1>4, OthersOwe

-----------------------------------------------------------------------------
\* The eviction thread works only while the destructor waits.
LEMMA EvictOwes == ASSUME IInv, Stored, Stored', LagOK, Evict PROVE LagOK'
<1> USE DEF store, keys, sem, walk, life, Goto
<1>1. pc[E] # "dead" /\ pc[D] \in Waiting /\ E # D
  <2>1. pc[E] # "dead"
    BY DEF Evict, Wake, EvictEntry, Walk, EnterBucket, PassBucket, LeaveEntry, LeaveBucket,
       PersistUnlink, CheckRoom, QueueWrite, Puncture, WriteEntry, RotateMaster, RefreshBegin,
       RefreshSector, ClearKey, CopyKey, Reacquire
  <2> QED
    BY <2>1, Names DEF IInv, EvictionFirst
<1>2. /\ due' = due /\ ver' = ver
      /\ pc' = pc \/ \E m : pc' = [pc EXCEPT ![E] = m]
      /\ bkt' = bkt \/ \E b : bkt' = [bkt EXCEPT ![E] = b]
  <2>1. CASE Wake \/ \E w, d \in BOOLEAN : EvictEntry(w, d)
    BY <2>1 DEF Wake, EvictEntry
  <2>2. CASE Walk(E)
    BY <2>2 DEF Walk, EnterBucket, PassBucket, LeaveEntry, LeaveBucket, NextBucket, Fail
  <2>3. CASE PersistUnlink(E)
    BY <2>3 DEF PersistUnlink, CheckRoom, QueueWrite, Puncture, WriteEntry, RotateMaster,
       RefreshBegin, RefreshSector, ClearKey, CopyKey, Reacquire, Fail
  <2> QED
    BY <2>1, <2>2, <2>3 DEF Evict
<1>3. pc'[D] = pc[D] /\ bkt'[D] = bkt[D]
  BY <1>1, <1>2, Known, Names
<1>4. \A s \in Sector : ver[s] <= ver'[s]
  BY <1>2, Contents DEF Stored
<1> QED
  BY <1>1, <1>2, <1>3, <1>4, WaitingOwes

-----------------------------------------------------------------------------
\* The destructor's steps.  Whoever comes to a bucket comes to its first entry,
\* and drops one after the other.
LEMMA NotAfterNext ==
  ASSUME NEW l, Listed(l), NEW k \in 1 .. Len(l), NEW s, s # l[k], NotAfter(l, l[k], s),
         NEW m, m = Without(l, l[k])
  PROVE  k + 1 \in 1 .. Len(l) /\ NotAfter(m, l[k + 1], s)
<1>1. PICK n \in Nat : n = Len(l)
  BY LenProperties DEF Listed
<1>2. PICK i, j \in 1 .. n : i <= j /\ l[i] = l[k] /\ l[j] = s
  BY <1>1 DEF NotAfter
<1>3. i = k /\ j # k /\ k \in 1 .. n
  BY <1>1, <1>2 DEF Listed
<1>4. k + 1 \in 1 .. n /\ j - 1 \in 1 .. n - 1 /\ k \in 1 .. n - 1 /\ k <= j - 1
  BY <1>1, <1>2, <1>3
<1>5. Len(m) = n - 1 /\ \A x \in 1 .. n - 1 : m[x] = IF x < k THEN l[x] ELSE l[x + 1]
  <2>1. /\ Listed(m) /\ Len(m) = Len(l) - 1
        /\ \A x \in 1 .. Len(m) : m[x] = IF x < k THEN l[x] ELSE l[x + 1]
        /\ Range(m) = Range(l) \ {l[k]}
    <3>1. Listed(l)
      OBVIOUS
    <3>2. k \in 1 .. Len(l)
      OBVIOUS
    <3>3. m = Without(l, l[k])
      OBVIOUS
    <3> QED
      BY <3>1, <3>2, <3>3, Removed
  <2> QED
    BY <1>1, <2>1
<1>6. m[k] = l[k + 1] /\ m[j - 1] = s
  <2>1. ~(k < k) /\ ~(j - 1 < k) /\ (j - 1) + 1 = j
    BY <1>2, <1>3, <1>4
  <2> QED
    BY <1>2, <1>4, <1>5, <2>1
<1>7. NotAfter(m, l[k + 1], s)
  BY <1>4, <1>5, <1>6 DEF NotAfter
<1> QED
  BY <1>1, <1>4, <1>7

\* When the destructor is called its whole pass is to come.
LEMMA ShutdownOwes == ASSUME IInv, Stored, Stored', LagOK, Shutdown PROVE LagOK'
<1>1. pc'[D] = "jobs" /\ bkt'[D] = bkt[D] /\ pc[D] = "open"
  BY Known, Names DEF Shutdown, Goto, walk
<1>2. \A s \in Sector : due'[s] = ver'[s] /\ ver'[s] \in Nat
  BY DEF Shutdown, Stored, StoreOK
<1>3. \A s \in Sector : due'[s] \in Nat /\ due'[s] <= ver'[s]
  BY <1>2
<1>4. \A s \in Sector : ToCome(s)'
  BY <1>1 DEF ToCome, InBucket, Passed
<1> QED
  BY <1>1, <1>3, <1>4 DEF LagOK, Owed, Sector, Waiting

\* A step that neither writes a sector nor counts an unlink.
LEMMA QuietOwes ==
  ASSUME IInv, Stored, Stored', LagOK, NEW m, pc' = [pc EXCEPT ![D] = m],
         UNCHANGED <<due, ver, disk>>, pc[D] # "open",
         m \in Waiting => pc[D] \in Waiting /\ bkt'[D] = bkt[D],
         \A s \in Sector : Lags(s) => ToCome(s)'
  PROVE  LagOK'
<1>1. pc'[D] = m
  BY Known, Names
<1>2. \A s \in Sector : ver[s] <= ver'[s]
  BY Contents DEF Stored
<1> QED
  BY <1>1, <1>2, OwedStays

\* The destructor goes on with the entry it is at.
LEMMA SamePlace ==
  ASSUME NEW s \in Sector, ToCome(s), UNCHANGED <<list, at, bkt>>,
         pc[D] \in InBucket \/ (pc[D] = "master" /\ D \notin reading),
         pc'[D] \in InBucket \/ (pc'[D] = "master" /\ D \notin reading')
  PROVE  ToCome(s)'
BY DEF ToCome, InBucket, Passed, BucketOf

\* The destructor, in persist_unlink, passes no sector that lags.
LEMMA DtrPersistOwes ==
  ASSUME IInv, Pointing, Stored, Stored', LagOK, PersistUnlink(D)
  PROVE  LagOK'
<1> USE DEF store, keys, sem, walk, life, Goto
<1>1. /\ D \in Thread /\ D \notin Item /\ WalkAt(D)
      /\ pc[D] \in {"check", "has_room", "down_write", "write"} => D \notin reading
      /\ pc[D] \in {"scan", "copy"} => D \in reading
      /\ \A m : pc' = [pc EXCEPT ![D] = m] => pc'[D] = m
  BY WalkerKnows, Known
<1>2. \A s \in Sector : Lags(s) => ToCome(s)
  BY BehindIs
<1>3. ASSUME NEW m \in {"has_room", "down_write", "write", "master", "leave"},
             pc' = [pc EXCEPT ![D] = m], UNCHANGED <<due, ver, list, at, bkt>>,
             pc[D] \in {"check", "has_room", "down_write", "write", "master"},
             D \notin reading, D \notin reading',
             \A s \in Sector : disk'[s] = disk[s] \/ ~Lags(s)'
      PROVE  LagOK'
  <2>1. \A s \in Sector : Lags(s) => ToCome(s)'
    BY <1>1, <1>2, <1>3, SamePlace DEF InBucket
  <2>2. \A s \in Sector : ver[s] <= ver'[s]
    BY <1>3, Contents DEF Stored
  <2>3. pc'[D] = m /\ m \notin Waiting /\ pc[D] # "open"
    BY <1>1, <1>3 DEF Waiting
  <2> QED
    BY <1>3, <2>1, <2>2, <2>3, OwedStays
<1>4. ASSUME NEW m, pc' = [pc EXCEPT ![D] = m], UNCHANGED <<due, ver, disk>>, m \notin Waiting,
             pc[D] \in Passed \/ (pc[D] = "master" /\ D \in reading)
      PROVE  LagOK'
  <2>1. \A s \in Sector : ~Lags(s)
    BY <1>2, <1>4 DEF ToCome, Passed
  <2> QED
    BY <1>4, <2>1, QuietOwes DEF Passed
<1>5. ASSUME CheckRoom(D) PROVE LagOK'
  <2>1. CASE Full
    <3>1. pc' = [pc EXCEPT ![D] = "down_read"] /\ UNCHANGED <<due, ver, disk>> /\ pc[D] = "check"
      BY <1>5, <2>1 DEF CheckRoom
    <3>2. \A s \in Sector : ToCome(s)'
      BY <1>1, <3>1 DEF ToCome, InBucket, Passed
    <3> QED
      BY <3>1, <3>2, QuietOwes DEF Waiting
  <2>2. CASE ~Full
    BY <1>1, <1>3, <1>5, <2>2 DEF CheckRoom
  <2> QED
    BY <2>1, <2>2
<1>6. ASSUME QueueWrite(D) PROVE LagOK'
  BY <1>1, <1>3, <1>6 DEF QueueWrite
<1>7. ASSUME Puncture(D) PROVE LagOK'
  BY <1>1, <1>3, <1>7 DEF Puncture
<1>8. ASSUME WriteEntry(D) PROVE LagOK'
  <2>1. PICK s \in Sector : s = at[D] /\ Cached(s)
    BY <1>1, <1>8 DEF WriteEntry, WalkAt, OnEntry
  <2>2. entry[s].ver = ver[s] /\ ver[s] \in Nat /\ due[s] \in Nat /\ due[s] <= ver[s]
    BY <2>1, Contents DEF Stored, ContentAt, LagOK, Owed
  <2>3. /\ pc' = [pc EXCEPT ![D] = "master"] /\ pc[D] = "write"
        /\ UNCHANGED <<due, ver, list, at, bkt, reading>>
    BY <1>8 DEF WriteEntry
  <2>4. disk'[s].ver = ver[s] /\ \A r \in Sector : r # s => disk'[r] = disk[r]
    BY <1>8, <2>1, <2>2 DEF WriteEntry, Stored, StoreOK
  <2>5. ~Lags(s)'
    BY <2>2, <2>3, <2>4 DEF Lags
  <2> QED
    BY <1>1, <1>3, <2>3, <2>4, <2>5
<1>9. ASSUME RotateMaster(D) PROVE LagOK'
  <2>1. CASE D \in reading
    BY <1>4, <1>9, <2>1 DEF RotateMaster, Waiting
  <2>2. CASE D \notin reading
    BY <1>1, <1>3, <1>9, <2>2 DEF RotateMaster, Resume
  <2> QED
    BY <2>1, <2>2
<1>10. ASSUME RefreshBegin(D) PROVE LagOK'
  <2>1. CASE \E f : Fail(f)
    BY <2>1, <1>2, Contents, OwedStays DEF Fail, Stored, Lags, ToCome, BucketOf
  <2>2. CASE pc' = [pc EXCEPT ![D] = "scan"] /\ rot' = 0 /\ UNCHANGED <<due, ver, disk>>
    <3>1. \A s \in Sector : ToCome(s)'
      <4>1. \A s \in Sector : s >= 0
        BY DEF Sector
      <4>2. pc'[D] = "scan"
        BY <1>1, <2>2
      <4> QED
        BY <2>2, <4>1, <4>2 DEF ToCome, InBucket, Passed
    <3> QED
      BY <1>10, <2>2, <3>1, QuietOwes DEF RefreshBegin, Waiting
  <2> QED
    BY <1>10, <2>1, <2>2 DEF RefreshBegin
<1>11. ASSUME RefreshSector(D) PROVE LagOK'
  <2>1. /\ pc[D] = "scan" /\ rot \in Sector /\ rot' = rot + 1 /\ pc' = pc
        /\ UNCHANGED <<due, ver>>
    BY <1>11, DeviceAssumption DEF RefreshSector, Pointing, PointersOK, Sector
  <2>2. disk' = [disk EXCEPT ![rot] = Rotated] /\ Rotated.ver = ver[rot]
    <3>1. Cached(rot) => entry[rot].ver = ver[rot]
      BY <2>1, Contents DEF Stored, ContentAt
    <3>2. ~Cached(rot) => Open(disk[rot], pprf) = ver[rot]
      <4>1. UnderBoth
        BY <2>1, Names DEF Stored, KeysOK, Refreshes
      <4>2. disk[rot].root = pprf.root /\ disk[rot].tag \notin pprf.punct
        BY <2>1, <4>1 DEF UnderBoth, Sector
      <4> QED
        BY <2>1, <4>2, Contents DEF Stored, ContentAt, Open
    <3> QED
      BY <1>11, <3>1, <3>2 DEF RefreshSector, Rotated
  <2>3. disk'[rot].ver = ver[rot] /\ \A s \in Sector : s # rot => disk'[s] = disk[s]
    BY <2>1, <2>2 DEF Stored, StoreOK
  <2>4. ~(disk'[rot].ver < due'[rot])
    BY <2>1, <2>3, Contents DEF Stored, LagOK, Owed
  <2>5. ASSUME NEW s \in Sector
        PROVE  /\ ver[s] <= ver'[s]
               /\ disk'[s] = disk[s] \/ ~Lags(s)'
               /\ Lags(s) => ToCome(s)' \/ ~Lags(s)'
    <3>1. ver[s] <= ver'[s]
      BY <2>1, Contents DEF Stored
    <3>2. CASE s = rot
      BY <2>4, <3>1, <3>2 DEF Lags
    <3>3. CASE s # rot
      <4>1. Lags(s) => s >= rot + 1
        BY <1>2, <2>1, <3>3 DEF ToCome, Sector
      <4>2. Lags(s) => ToCome(s)'
        BY <2>1, <4>1 DEF ToCome, InBucket, Passed
      <4> QED
        BY <2>3, <3>1, <3>3, <4>2
    <3> QED
      BY <3>2, <3>3
  <2> QED
    BY <2>1, <2>5, OwedStays DEF Waiting
<1>12. ASSUME ClearKey(D) PROVE LagOK'
  <2>1. /\ pc[D] = "scan" /\ rot = KeyTableLen /\ pc' = [pc EXCEPT ![D] = "copy"]
        /\ UNCHANGED <<due, ver, disk>>
    BY <1>12 DEF ClearKey
  <2>2. \A s \in Sector : ~Lags(s)
    BY <1>2, <2>1, DeviceAssumption DEF ToCome, Sector
  <2> QED
    BY <2>1, <2>2, QuietOwes DEF Waiting
<1>13. ASSUME CopyKey(D) \/ Reacquire(D) PROVE LagOK'
  <2>1. PICK m \in {"master", "leave"} : pc' = [pc EXCEPT ![D] = m]
    BY <1>1, <1>13 DEF CopyKey, Reacquire, Resume
  <2> QED
    BY <1>4, <1>13, <2>1 DEF CopyKey, Reacquire, Passed, Waiting
<1> QED
  BY <1>5, <1>6, <1>7, <1>8, <1>9, <1>10, <1>11, <1>12, <1>13 DEF PersistUnlink

\* The destructor, on its walk, passes clean entries only.
LEMMA DtrWalkOwes == ASSUME IInv, Pointing, Stored, Stored', LagOK, Walk(D) PROVE LagOK'
<1> USE DEF store, keys, sem, walk, life, Goto
<1>1. /\ D \in Thread /\ D \notin Item /\ WalkAt(D) /\ D # E /\ ListsOK /\ bkt[D] \in Bucket
      /\ at \in [Thread -> Pointer] /\ next \in [Thread -> Pointer] /\ bkt \in [Thread -> Bucket]
      /\ \A m : pc' = [pc EXCEPT ![D] = m] => pc'[D] = m
  BY WalkerKnows, Known, Names
<1>2. \A s \in Sector : Lags(s) => ToCome(s) /\ Cached(s) /\ entry[s].dirty # "no"
  BY BehindIs
<1>3. \A s \in Sector : BucketOf(s) \in 0 .. Buckets - 1
  BY BucketOfSector DEF Bucket
<1>4. ASSUME NextBucket(D), UNCHANGED <<due, ver, disk>>, pc[D] \in {"bucket", "entry"},
             \A s \in Sector : Lags(s) => BucketOf(s) > bkt[D]
      PROVE  LagOK'
  <2>1. PICK b \in 0 .. Buckets - 1 : b = bkt[D]
    BY <1>1 DEF Bucket
  <2>2. CASE b + 1 < Buckets
    <3>1. pc' = [pc EXCEPT ![D] = "bucket"] /\ bkt'[D] = b + 1
      BY <1>1, <1>4, <2>1, <2>2 DEF NextBucket
    <3>2. \A s \in Sector : Lags(s) => ToCome(s)'
      <4>1. \A s \in Sector : Lags(s) => BucketOf(s) >= b + 1
        BY <1>3, <1>4, <2>1
      <4> QED
        BY <1>1, <3>1, <4>1 DEF ToCome, InBucket, Passed, BucketOf
    <3> QED
      BY <1>4, <3>1, <3>2, QuietOwes DEF Waiting
  <2>3. CASE ~(b + 1 < Buckets)
    <3>1. pc' = [pc EXCEPT ![D] = "free"]
      BY <1>1, <1>4, <2>1, <2>3 DEF NextBucket
    <3>2. \A s \in Sector : ~Lags(s)
      BY <1>3, <1>4, <2>1, <2>3, DeviceAssumption
    <3> QED
      BY <1>4, <3>1, <3>2, QuietOwes DEF Waiting
  <2> QED
    BY <2>2, <2>3
<1>5. ASSUME EnterBucket(D) PROVE LagOK'
  <2>1. PICK b \in Bucket : b = bkt[D]
    BY <1>1
  <2>2. PICK l : l = list[b]
    OBVIOUS
  <2>3. /\ pc[D] = "bucket" /\ pc' = [pc EXCEPT ![D] = "entry"] /\ l # <<>>
        /\ at'[D] = From(b, 1) /\ bkt' = bkt /\ list' = list /\ UNCHANGED <<due, ver, disk>>
    BY <1>1, <1>5, <2>1, <2>2 DEF EnterBucket
  <2>4. Listed(l) /\ DOMAIN l = 1 .. Len(l) /\ Len(l) \in Nat
    BY <1>1, <2>2, LenProperties DEF ListsOK, Listed
  <2>5. ASSUME NEW s \in Sector, Lags(s) PROVE ToCome(s)'
    <3>1. BucketOf(s) >= b
      BY <1>2, <2>1, <2>3, <2>5 DEF ToCome
    <3>2. BucketOf(s) = b => NotAfter(l, at'[D], s)
      <4>1. ASSUME BucketOf(s) = b PROVE NotAfter(l, at'[D], s)
        <5>1. PICK j \in 1 .. Len(l) : l[j] = s
          BY <1>2, <2>2, <2>4, <2>5, <4>1 DEF Cached, Range
        <5>2. 1 \in 1 .. Len(l) /\ 1 <= j
          BY <2>4, <5>1
        <5>3. at'[D] = l[1]
          BY <2>2, <2>3, <2>4, <5>2 DEF From
        <5> QED
          BY <5>1, <5>2, <5>3 DEF NotAfter
      <4> QED
        BY <4>1
    <3>3. BucketOf(s) > b \/ BucketOf(s) = b
      BY <1>3, <2>1, <3>1 DEF Bucket
    <3> QED
      BY <1>1, <2>1, <2>2, <2>3, <3>2, <3>3 DEF ToCome, InBucket, Passed, BucketOf
  <2> QED
    BY <2>3, <2>5, QuietOwes DEF Waiting
<1>6. ASSUME PassBucket(D) PROVE LagOK'
  <2>1. pc[D] = "bucket" /\ list[bkt[D]] = <<>>
    BY <1>6 DEF PassBucket
  <2>2. ASSUME NEW s \in Sector, Lags(s) PROVE BucketOf(s) > bkt[D]
    <3>1. BucketOf(s) >= bkt[D]
      BY <1>2, <2>1, <2>2 DEF ToCome
    <3>2. BucketOf(s) # bkt[D]
      BY <1>2, <2>1, <2>2 DEF Cached, Range
    <3> QED
      BY <1>1, <1>3, <3>1, <3>2 DEF Bucket
  <2> QED
    BY <1>4, <1>6, <2>2 DEF PassBucket
<1>7. ASSUME LeaveBucket(D) PROVE LagOK'
  <2>1. pc[D] = "entry" /\ at[D] = End
    BY <1>7 DEF LeaveBucket
  <2>2. ~\E s : NotAfter(list[bkt[D]], End, s)
    <3>1. \A i \in 1 .. Len(list[bkt[D]]) : list[bkt[D]][i] \in Sector
      BY <1>1, ElementOfSeq DEF ListsOK, Listed
    <3> QED
      BY <3>1 DEF NotAfter, End, Sector
  <2>3. \A s \in Sector : Lags(s) => BucketOf(s) > bkt[D]
    BY <1>2, <2>1, <2>2 DEF ToCome, InBucket
  <2> QED
    BY <1>4, <1>7, <2>1, <2>3 DEF LeaveBucket
<1>8. ASSUME LeaveEntry(D) PROVE LagOK'
  <2>1. CASE \E f : Fail(f)
    BY <2>1, <1>2, Contents, OwedStays DEF Fail, Stored, Lags, ToCome, BucketOf
  <2>2. CASE /\ ~(Drops(D) /\ at[D] = Freed) /\ next[D] # Freed
             /\ IF Drops(D) THEN Drop(at[D]) ELSE UNCHANGED <<list, entry>>
             /\ at' = [at EXCEPT ![D] = next[D]]
             /\ Goto(D, "entry")
             /\ UNCHANGED <<disk, bkt, due, ver>>
    <3>1. pc[D] = "leave" /\ pc' = [pc EXCEPT ![D] = "entry"] /\ at'[D] = next[D] /\ bkt' = bkt
      BY <1>1, <1>8, <2>2 DEF LeaveEntry
    <3>2. OnEntry(D) /\ Drop(at[D])
      BY <1>1, <2>2, <3>1 DEF WalkAt, Lost, Drops
    <3>3. PICK a \in Sector : a = at[D] /\ Cached(a) /\ BucketOf(a) = bkt[D] /\ next[D] = After(a)
      BY <3>2 DEF OnEntry
    <3>4. entry[a].dirty = "no"
      BY <3>1, <3>3 DEF Stored, CleanOK, CleanAt
    <3>5. PICK b \in Bucket : b = bkt[D]
      BY <1>1
    <3>6. PICK l, l1 : l = list[b] /\ l1 = list'[b]
      OBVIOUS
    <3>7. Listed(l) /\ DOMAIN l = 1 .. Len(l) /\ Len(l) \in Nat
      BY <1>1, <3>6, LenProperties DEF ListsOK, Listed
    <3>8. PICK k \in 1 .. Len(l) : l[k] = a
      BY <3>3, <3>5, <3>6, <3>7 DEF Cached, Range
    <3>9. l1 = Without(l, l[k])
      BY <1>1, <3>2, <3>3, <3>5, <3>6, <3>8 DEF Drop, ListsOK
    <3>10. next[D] = IF k + 1 > Len(l) THEN End ELSE l[k + 1]
      BY <3>3, <3>5, <3>6, <3>7, <3>8, AfterAt
    <3>11. ASSUME NEW s \in Sector, Lags(s) PROVE ToCome(s)'
      <4>1. s # a
        BY <1>2, <3>4, <3>11
      <4>2. BucketOf(s) > b \/ (BucketOf(s) = b /\ NotAfter(l, a, s))
        BY <1>2, <3>1, <3>3, <3>5, <3>6, <3>11 DEF ToCome, InBucket
      <4>3. NotAfter(l, a, s) => NotAfter(l1, next[D], s)
        <5>1. ASSUME NotAfter(l, a, s) PROVE NotAfter(l1, next[D], s)
          <6>1. Listed(l)
            BY <3>7
          <6>2. k \in 1 .. Len(l) /\ s # l[k] /\ NotAfter(l, l[k], s)
            BY <3>8, <4>1, <5>1
          <6>3. k + 1 \in 1 .. Len(l) /\ NotAfter(l1, l[k + 1], s)
            BY <3>9, <6>1, <6>2, NotAfterNext
          <6> QED
            BY <3>7, <3>10, <6>3
        <5> QED
          BY <5>1
      <4> QED
        BY <1>1, <3>1, <3>5, <3>6, <4>2, <4>3 DEF ToCome, InBucket, Passed, BucketOf
    <3> QED
      BY <2>2, <3>1, <3>11, QuietOwes DEF Waiting
  <2> QED
    BY <1>8, <2>1, <2>2 DEF LeaveEntry
<1> QED
  BY <1>5, <1>6, <1>7, <1>8 DEF Walk

\* Every step of the destructor.
LEMMA DestroyOwes == ASSUME IInv, Pointing, Stored, Stored', LagOK, Destroy PROVE LagOK'
<1> USE DEF store, keys, sem, walk, life, Goto
<1>1. D \in Thread /\ \A m : pc' = [pc EXCEPT ![D] = m] => pc'[D] = m
  BY Names, Known
<1>2. \A s \in Sector : Lags(s) => ToCome(s)
  BY BehindIs
<1>3. ASSUME StopEviction PROVE LagOK'
  <2>1. pc' = [pc EXCEPT ![D] = "stopping"] /\ pc[D] = "jobs" /\ UNCHANGED <<due, ver, bkt>>
    BY <1>3 DEF StopEviction
  <2>2. \A s \in Sector : ver[s] <= ver'[s]
    BY <2>1, Contents DEF Stored
  <2> QED
    BY <1>1, <2>1, <2>2, WaitingOwes DEF Waiting
<1>4. ASSUME ForceEvict PROVE LagOK'
  <2>1. /\ pc' = [pc EXCEPT ![D] = "bucket"] /\ pc[D] = "stopping" /\ bkt' = bkt
        /\ UNCHANGED <<due, ver, disk>>
    BY <1>4 DEF ForceEvict
  <2>2. bkt[D] = 0
    BY <2>1 DEF LagOK, Waiting
  <2>3. \A s \in Sector : BucketOf(s) >= 0
    BY BucketOfSector DEF Bucket
  <2>4. \A s \in Sector : ToCome(s)'
    BY <1>1, <2>1, <2>2, <2>3 DEF ToCome, InBucket, Passed, BucketOf
  <2> QED
    BY <2>1, <2>4, QuietOwes DEF Waiting
<1>5. ASSUME ForceEvictEntry PROVE LagOK'
  <2>1. PICK m \in {"check", "leave"} : pc' = [pc EXCEPT ![D] = m]
    BY <1>5 DEF ForceEvictEntry
  <2>2. pc[D] = "entry" /\ UNCHANGED <<due, ver, disk, list, at, bkt>>
    BY <1>5 DEF ForceEvictEntry
  <2>3. \A s \in Sector : Lags(s) => ToCome(s)'
    BY <1>1, <1>2, <2>1, <2>2, SamePlace DEF InBucket
  <2> QED
    BY <2>1, <2>2, <2>3, QuietOwes DEF Waiting
<1>6. ASSUME Free \/ Closed PROVE LagOK'
  <2>1. PICK m \in {"flush", "closed"} : pc' = [pc EXCEPT ![D] = m]
    BY <1>6 DEF Free, Closed
  <2>2. pc[D] \in Passed /\ UNCHANGED <<due, ver, disk>>
    BY <1>6 DEF Free, Closed, Passed
  <2>3. \A s \in Sector : ~Lags(s)
    BY <1>2, <2>2 DEF ToCome
  <2> QED
    BY <2>1, <2>2, <2>3, QuietOwes DEF Waiting, Passed
<1> QED
  BY <1>3, <1>4, <1>5, <1>6, DtrWalkOwes, DtrPersistOwes DEF Destroy

\* Steps that leave all that LagOK speaks of alone.
LEMMA OwedSame ==
  ASSUME Stored, Stored', LagOK, UNCHANGED <<pc, at, bkt, list, reading, rot, disk, ver, due>>
  PROVE  LagOK'
<1>1. \A s \in Sector : ver[s] <= ver'[s]
  BY Contents DEF Stored
<1>2. \A s \in Sector : Lags(s) => ToCome(s)'
  BY BehindIs DEF ToCome, BucketOf
<1> QED
  BY <1>1, <1>2, OwedStays

\* Nothing is due before the destructor is called.
LEMMA InitOwes == Init => LagOK
<1> SUFFICES ASSUME Init PROVE LagOK
  OBVIOUS
<1>1. pc[D] = "open" /\ bkt[D] = 0
  BY Names DEF Init
<1>2. \A s \in Sector : due[s] = 0 /\ ver[s] = 0
  BY DEF Init
<1> QED
  BY <1>1, <1>2 DEF LagOK, Owed, Lags

\* Every step keeps LagOK.
LEMMA NextOwes == IInv /\ Pointing /\ Stored /\ Stored' /\ LagOK /\ [Next]_vars => LagOK'
<1> SUFFICES ASSUME IInv, Pointing, Stored, Stored', LagOK, [Next]_vars PROVE LagOK'
  OBVIOUS
<1>1. CASE UNCHANGED vars
  BY <1>1, OwedSame DEF vars, store, keys, sem, walk, life
<1>2. CASE Step
  <2>1. ASSUME NEW i \in Item, LateWork(i) PROVE LagOK'
    BY <2>1, OwedSame DEF LateWork, Fail, store, keys, sem, walk, life
  <2>2. ASSUME NEW i \in Item, Work(i) PROVE LagOK'
    BY <2>1, <2>2, ItemOwes DEF Work
  <2> QED
    BY <1>2, <2>2, QueueOwes, EvictOwes, ShutdownOwes, DestroyOwes DEF Step
<1> QED
  BY <1>1, <1>2 DEF Next

\* The same, with what the destructor owes.
LEMMA AlwaysOwed == Spec => [](IInv /\ Pointing /\ Stored /\ LagOK)
<1>1. IInv /\ Pointing /\ Stored /\ LagOK /\ [Next]_vars => (IInv /\ Pointing /\ Stored /\ LagOK)'
  BY NextIInv, NextPoints, NextStores, NextOwes
<1> QED
  BY <1>1, InitIInv, InitPoints, InitStores, InitOwes, PTL DEF Spec

\* When eraser_dtr returns, every sector opens under the PPRF key on the disk and
\* holds every unlink dirtied before it was called: its pass over the cache
\* (eraser_force_evict_map_cache, dm-holepunch-main.c:1140, 2578) skips no dirty
\* entry, whatever the eviction thread has written, dropped and refreshed before, and
\* though unlinks still queued go on adding entries behind it.  (A close that has to
\* refresh the key itself comes to no end in the model: see the fault "double free".)
THEOREM ClosesWhole == Spec => []ClosedWhole
<1>1. IInv /\ Stored /\ LagOK => ClosedWhole
  <2> SUFFICES ASSUME IInv, Stored, LagOK, pc[D] = "closed", NEW s \in Sector
               PROVE  Open(disk[s], pprf) \in due[s] .. ver[s]
    BY DEF ClosedWhole
  <2>1. pc[E] = "dead"
    BY DEF IInv, EvictionFirst, Waiting
  <2>2. ~Writing(s) /\ ~Refreshes("scan") /\ ~Refreshes("copy")
    BY <2>1 DEF Writing, Refreshes
  <2>3. disk[s].root = pprf.root /\ disk[s].tag \notin pprf.punct
    BY <2>2 DEF Stored, KeysOK, UnderKey
  <2>4. disk[s].ver \in Nat /\ disk[s].ver <= ver[s] /\ ver[s] \in Nat
    BY Contents DEF Stored, ContentAt
  <2>5. ~Lags(s) /\ due[s] \in Nat
    BY DEF LagOK, Owed, ToCome, Passed
  <2>6. due[s] <= disk[s].ver
    BY <2>4, <2>5 DEF Lags
  <2> QED
    BY <2>3, <2>4, <2>5, <2>6 DEF Open
<1> QED
  BY <1>1, AlwaysOwed, PTL

-----------------------------------------------------------------------------
\* An entry is freed under a pointer only by a refresh, which made a new key.
LEMMA FreedomNext == ASSUME IInv, Pointing, Stored, Freedom, [Next]_vars PROVE Freedom'
<1> USE DEF store, keys, sem, walk, life, Goto
<1>1. /\ E \in Thread /\ D \in Thread /\ E \notin Item /\ D \notin Item
      /\ at \in [Thread -> Pointer] /\ next \in [Thread -> Pointer]
  BY WalkerKnows, Names
<1>2. CASE UNCHANGED <<newroot, at, next>>
  BY <1>2 DEF Freedom
<1>3. ASSUME NEW i \in Item, UNCHANGED <<newroot, next>>, \E s : at' = [at EXCEPT ![i] = s]
      PROVE  Freedom'
  BY <1>1, <1>3 DEF Freedom
<1>4. ASSUME NEW t \in {E, D}, PersistUnlink(t) PROVE Freedom'
  <2>1. CASE CheckRoom(t) \/ QueueWrite(t) \/ Puncture(t) \/ WriteEntry(t) \/ RotateMaster(t)
             \/ ClearKey(t) \/ CopyKey(t) \/ Reacquire(t)
    BY <1>2, <2>1 DEF CheckRoom, QueueWrite, Puncture, WriteEntry, RotateMaster, ClearKey, CopyKey,
       Reacquire
  <2>2. CASE RefreshBegin(t)
    <3>1. newroot' = pprf.root + 1 \/ UNCHANGED <<newroot, at, next>>
      BY <2>2 DEF RefreshBegin, Fail
    <3>2. pprf.root \in Nat
      BY DEF Stored, StoreOK
    <3>3. CASE newroot' = pprf.root + 1
      BY <3>2, <3>3 DEF Freedom, Torn
    <3> QED
      BY <1>2, <3>1, <3>3
  <2>3. CASE RefreshSector(t)
    <3>1. UnderBoth /\ pprf.root \in Nat
      BY <2>3 DEF RefreshSector, Stored, StoreOK, KeysOK, Refreshes
    <3>2. newroot' = newroot /\ newroot # Torn
      BY <2>3, <3>1 DEF RefreshSector, UnderBoth, Torn
    <3> QED
      BY <3>2 DEF Freedom
  <2> QED
    BY <1>4, <2>1, <2>2, <2>3 DEF PersistUnlink
<1>5. ASSUME NEW t \in {E, D}, Walk(t) PROVE Freedom'
  <2>1. t \in Thread /\ ListsOK /\ bkt[t] \in Bucket /\ WalkAt(t)
    BY WalkerKnows
  <2>2. CASE PassBucket(t) \/ LeaveBucket(t)
    BY <1>2, <2>2 DEF PassBucket, LeaveBucket
  <2>3. ASSUME NEW x, NEW y, x # Freed, y # Freed, newroot' = newroot,
               at' = [at EXCEPT ![t] = x], next' = [next EXCEPT ![t] = y]
        PROVE  Freedom'
    BY <1>1, <2>3 DEF Freedom
  <2>4. CASE EnterBucket(t)
    <3>1. list[bkt[t]] # <<>>
      BY <2>4 DEF EnterBucket
    <3>2. /\ From(bkt[t], 1) \in Sector /\ Cached(From(bkt[t], 1))
          /\ From(bkt[t], 2) = After(From(bkt[t], 1))
      BY <2>1, <3>1, BucketLists
    <3>3. From(bkt[t], 2) = End \/ From(bkt[t], 2) \in Sector
      BY <2>1, <3>2, AfterIs
    <3>4. PICK x, y : x = From(bkt[t], 1) /\ y = From(bkt[t], 2) /\ x # Freed /\ y # Freed
      BY <3>2, <3>3 DEF Freed, End, Sector
    <3>5. newroot' = newroot /\ at' = [at EXCEPT ![t] = x] /\ next' = [next EXCEPT ![t] = y]
      BY <2>4, <3>4 DEF EnterBucket
    <3> QED
      BY <2>3, <3>4, <3>5
  <2>5. CASE LeaveEntry(t)
    <3>1. CASE \E f : Fail(f)
      BY <1>2, <3>1 DEF Fail
    <3>2. CASE /\ next[t] # Freed /\ newroot' = newroot /\ at' = [at EXCEPT ![t] = next[t]]
               /\ next' = [next EXCEPT ![t] = IF next[t] = End THEN End ELSE After(next[t])]
      <4>1. next[t] = End \/ (next[t] \in Sector /\ Cached(next[t]))
        BY <2>1, <2>5, <3>2, Pointed DEF LeaveEntry, WalkAt, Lost
      <4>2. next[t] # End => After(next[t]) = End \/ After(next[t]) \in Sector
        BY <2>1, <4>1, AfterIs
      <4>3. PICK x, y : /\ x = next[t] /\ y = (IF next[t] = End THEN End ELSE After(next[t]))
                        /\ x # Freed /\ y # Freed
        BY <3>2, <4>2 DEF Freed, End, Sector
      <4>4. newroot' = newroot /\ at' = [at EXCEPT ![t] = x] /\ next' = [next EXCEPT ![t] = y]
        BY <3>2, <4>3
      <4> QED
        BY <2>3, <4>3, <4>4
    <3> QED
      BY <2>5, <3>1, <3>2 DEF LeaveEntry
  <2> QED
    BY <1>5, <2>2, <2>4, <2>5 DEF Walk
<1>6. CASE Evict
  BY <1>2, <1>4, <1>5, <1>6 DEF Evict, Wake, EvictEntry
<1>7. CASE Destroy \/ Shutdown
  BY <1>2, <1>4, <1>5, <1>7 DEF Destroy, Shutdown, StopEviction, ForceEvict, ForceEvictEntry, Free,
     Closed
<1>8. CASE Queue
  BY <1>3, <1>8 DEF Queue, QueueIo, QueueUnlink, Item
<1>9. ASSUME NEW i \in Item, Work(i) PROVE Freedom'
  <2>1. CASE EndIo(i) \/ UnlinkDone(i)
    BY <1>3, <2>1 DEF EndIo, UnlinkDone, WorkDone
  <2>2. CASE GetEntry(i) \/ ReadEntry(i) \/ RereadEntry(i) \/ CopyKeyOut(i) \/ DoUnlink(i) \/ LateWork(i)
    BY <1>2, <2>2 DEF GetEntry, ReadEntry, RereadEntry, CopyKeyOut, DoUnlink, LateWork, Fail
  <2> QED
    BY <1>9, <2>1, <2>2, NoItemPersists DEF Work, ItemStep
<1> QED
  BY <1>2, <1>6, <1>7, <1>8, <1>9 DEF Next, Step, vars

\* The jobs counted are those that are under way.
LEMMA JobsNext == ASSUME IInv, JobsOK, [Next]_vars PROVE JobsOK'
<1> USE DEF store, keys, sem, walk, life, Goto
<1>1. /\ IoWork \subseteq Item /\ Item \subseteq Thread /\ IsFiniteSet(IoWork) /\ Busy \subseteq IoWork
      /\ IoWork \cap UnlinkWork = {}
  BY DeviceAssumption DEF Item, Thread, Busy
<1>2. IsFiniteSet(Busy) /\ Cardinality(Busy) \in Nat
  BY <1>1, FS_Subset, FS_CardinalityType
<1>3. CASE jobs' = jobs /\ pc' = pc
  BY <1>3 DEF JobsOK, Busy
<1>4. ASSUME NEW t \in {E, D}, NEW m, pc' = [pc EXCEPT ![t] = m], jobs' = jobs,
             t = E \/ pc[D] \notin {"open", "jobs"} \/ m = "jobs" \/ Busy = {}
      PROVE  JobsOK'
  <2>1. t \in Thread /\ t \notin Item
    BY Names
  <2>2. pc'[t] = m /\ \A u \in Thread : u # t => pc'[u] = pc[u]
    BY <1>4, <2>1, Known
  <2>3. \A i \in Item : pc'[i] = pc[i]
    BY <1>1, <2>1, <2>2
  <2>4. Busy' = Busy
    BY <1>1, <2>3 DEF Busy
  <2>5. pc'[D] \notin {"open", "jobs"} => Busy = {}
    BY <1>4, <2>2, Names DEF JobsOK
  <2> QED
    BY <1>4, <2>3, <2>4, <2>5 DEF JobsOK
<1>5. ASSUME NEW i \in Item, NEW m, pc' = [pc EXCEPT ![i] = m],
             m = "end_io" => i \in IoWork, m = "up" => i \notin IoWork,
             \/ jobs' = jobs /\ (i \notin IoWork \/ (pc[i] # "idle" /\ m # "idle"))
             \/ /\ i \in IoWork /\ pc[i] = "idle" /\ m # "idle" /\ pc[D] = "open"
                /\ jobs' = jobs + 1
             \/ i \in IoWork /\ pc[i] # "idle" /\ m = "idle" /\ jobs' = jobs - 1
      PROVE  JobsOK'
  <2>1. i \in Thread /\ i # D /\ D \in Thread
    BY <1>1, Names
  <2>2. pc'[i] = m /\ \A u \in Thread : u # i => pc'[u] = pc[u]
    BY <1>5, <2>1, Known
  <2>3. pc'[D] = pc[D] /\ \A u \in Item : u # i => pc'[u] = pc[u]
    BY <1>1, <2>1, <2>2
  <2>4. \A u \in Item : (pc'[u] = "end_io" => u \in IoWork) /\ (pc'[u] = "up" => u \notin IoWork)
    BY <1>5, <2>2, <2>3 DEF JobsOK
  <2>5. CASE jobs' = jobs /\ (i \notin IoWork \/ (pc[i] # "idle" /\ m # "idle"))
    <3>1. Busy' = Busy
      BY <1>1, <2>2, <2>3, <2>5 DEF Busy
    <3> QED
      BY <2>3, <2>4, <2>5, <3>1 DEF JobsOK
  <2>6. CASE /\ i \in IoWork /\ pc[i] = "idle" /\ m # "idle" /\ pc[D] = "open" /\ jobs' = jobs + 1
    <3>1. Busy' = Busy \cup {i} /\ i \notin Busy
      BY <1>1, <2>2, <2>3, <2>6 DEF Busy
    <3>2. Cardinality(Busy \cup {i}) = Cardinality(Busy) + 1
      BY <1>2, <3>1, FS_AddElement
    <3> QED
      BY <2>3, <2>4, <2>6, <3>1, <3>2 DEF JobsOK
  <2>7. CASE i \in IoWork /\ pc[i] # "idle" /\ m = "idle" /\ jobs' = jobs - 1
    <3>1. Busy' = Busy \ {i} /\ i \in Busy
      BY <1>1, <2>2, <2>3, <2>7 DEF Busy
    <3>2. Cardinality(Busy \ {i}) = Cardinality(Busy) - 1
      BY <1>2, <3>1, FS_RemoveElement
    <3> QED
      BY <2>3, <2>4, <2>7, <3>1, <3>2 DEF JobsOK
  <2> QED
    BY <1>5, <2>5, <2>6, <2>7
<1>6. ASSUME Queue PROVE JobsOK'
  <2>1. ASSUME NEW i \in IoWork, NEW s \in Sector, QueueIo(i, s) PROVE JobsOK'
    BY <1>1, <1>5, <2>1 DEF QueueIo
  <2>2. ASSUME NEW i \in UnlinkWork, NEW s \in Sector, QueueUnlink(i, s) PROVE JobsOK'
    BY <1>1, <1>5, <2>2 DEF QueueUnlink, Item
  <2> QED
    BY <1>6, <2>1, <2>2 DEF Queue
<1>7. ASSUME NEW i \in Item, ItemStep(i) PROVE JobsOK'
  <2>1. CASE GetEntry(i) \/ ReadEntry(i) \/ RereadEntry(i)
    <3>1. PICK m \in {"use", "read", "recheck"} : pc' = [pc EXCEPT ![i] = m]
      BY <2>1 DEF GetEntry, ReadEntry, RereadEntry
    <3>2. pc[i] # "idle" /\ jobs' = jobs
      BY <2>1 DEF GetEntry, ReadEntry, RereadEntry
    <3> QED
      BY <1>5, <3>1, <3>2
  <2>2. CASE CopyKeyOut(i)
    BY <1>5, <2>2 DEF CopyKeyOut
  <2>3. CASE DoUnlink(i)
    BY <1>1, <1>5, <2>3 DEF DoUnlink, Unlinked
  <2>4. CASE UnlinkDone(i)
    BY <1>5, <2>4 DEF UnlinkDone, WorkDone, JobsOK
  <2>5. CASE EndIo(i)
    BY <1>5, <2>5 DEF EndIo, WorkDone, JobsOK
  <2> QED
    BY <1>7, <2>1, <2>2, <2>3, <2>4, <2>5, NoItemPersists DEF ItemStep
<1>8. ASSUME NEW t \in {E, D}, PersistUnlink(t) \/ Walk(t) PROVE JobsOK'
  <2>1. pc[t] \in WalkLabel
    BY <1>8 DEF WalkLabel, Walk, EnterBucket, PassBucket, LeaveEntry, LeaveBucket, PersistUnlink,
       CheckRoom, QueueWrite, Puncture, WriteEntry, RotateMaster, RefreshBegin, RefreshSector,
       ClearKey, CopyKey, Reacquire
  <2>2. jobs' = jobs /\ (pc' = pc \/ \E m : pc' = [pc EXCEPT ![t] = m])
    <3>1. CASE Walk(t)
      BY <3>1 DEF Walk, EnterBucket, PassBucket, LeaveEntry, LeaveBucket, NextBucket, Fail
    <3>2. CASE PersistUnlink(t)
      BY <3>2 DEF PersistUnlink, CheckRoom, QueueWrite, Puncture, WriteEntry, RotateMaster,
         RefreshBegin, RefreshSector, ClearKey, CopyKey, Reacquire, Fail
    <3> QED
      BY <1>8, <3>1, <3>2
  <2>3. t = E \/ pc[D] \notin {"open", "jobs"}
    BY <2>1 DEF WalkLabel
  <2> QED
    BY <1>3, <1>4, <2>2, <2>3
<1>9. ASSUME Evict PROVE JobsOK'
  <2>1. ASSUME Wake \/ \E w, d \in BOOLEAN : EvictEntry(w, d) PROVE JobsOK'
    <3>1. jobs' = jobs /\ \E m : pc' = [pc EXCEPT ![E] = m]
      BY <2>1 DEF Wake, EvictEntry
    <3> QED
      BY <1>4, <3>1
  <2> QED
    BY <1>8, <1>9, <2>1 DEF Evict
<1>10. ASSUME Destroy \/ Shutdown PROVE JobsOK'
  <2>1. ASSUME Shutdown \/ ForceEvict \/ ForceEvictEntry \/ Free \/ Closed PROVE JobsOK'
    <3>1. PICK m : pc' = [pc EXCEPT ![D] = m] /\ (m = "jobs" \/ pc[D] \notin {"open", "jobs"})
      BY <2>1 DEF Shutdown, ForceEvict, ForceEvictEntry, Free, Closed
    <3>2. jobs' = jobs
      BY <2>1 DEF Shutdown, ForceEvict, ForceEvictEntry, Free, Closed
    <3> QED
      BY <1>4, <3>1, <3>2
  <2>2. ASSUME StopEviction PROVE JobsOK'
    <3>1. Busy = {}
      BY <1>2, <2>2, FS_EmptySet DEF StopEviction, JobsDone, JobsOK
    <3> QED
      BY <1>4, <2>2, <3>1 DEF StopEviction
  <2> QED
    BY <1>8, <1>10, <2>1, <2>2 DEF Destroy
<1>11. CASE UNCHANGED vars
  BY <1>3, <1>11 DEF vars
<1>12. ASSUME NEW i \in Item, LateWork(i) PROVE JobsOK'
  BY <1>3, <1>12 DEF LateWork, Fail
<1> QED
  BY <1>6, <1>7, <1>9, <1>10, <1>11, <1>12 DEF Next, Step, Work

-----------------------------------------------------------------------------
\* Each fault is explained by the step that records it.
LEMMA FaultsNext ==
  ASSUME IInv, Pointing, Stored, Freedom, JobsOK, FaultsExplained, [Next]_vars
  PROVE  FaultsExplained'
<1> USE DEF store, keys, sem, walk, life, Goto
<1>1. CASE UNCHANGED vars
  BY <1>1 DEF vars, FaultsExplained
<1>2. ASSUME fault' = "none" PROVE FaultsExplained'
  BY <1>2 DEF FaultsExplained
<1>3. ASSUME NEW f \in {"double free", "freed next", "new key replaced"}, Fail(f), newroot # Torn
      PROVE  FaultsExplained'
  BY <1>3 DEF FaultsExplained, Fail
<1>4. ASSUME NEW t \in {E, D}, PersistUnlink(t), fault = "none" PROVE FaultsExplained'
  <2>1. ASSUME RefreshBegin(t), reading # {} PROVE FALSE
    <3>1. PICK u \in reading : u \in Thread /\ pc[u] \in Refreshing
      BY <2>1, Known
    <3>2. pc[t] = "down_read" /\ t \in Thread
      BY <2>1, Names DEF RefreshBegin
    <3>3. u = t
      BY <3>1, <3>2, Alone DEF WalkLabel, Refreshing
    <3> QED
      BY <3>1, <3>2, <3>3 DEF Refreshing
  <2>2. ASSUME NEW i \in Item, pc[i] = "recheck" PROVE newroot # Torn
    <3>1. i \in Thread
      BY DEF Thread
    <3>2. at[i] \in Sector
      BY <2>2, <3>1 DEF Pointing, PointersOK, ThreadAt, ItemAt, Placed
    <3>3. disk[at[i]].root = newroot
      BY <2>2 DEF Stored, RecheckOK, RecheckAt
    <3> QED
      BY <3>2, <3>3, Contents DEF Stored
  <2>3. CASE RefreshBegin(t)
    <3>1. fault' = fault \/ (Fail("new key replaced") /\ \E i \in Item : pc[i] = "recheck")
      BY <2>1, <2>3 DEF RefreshBegin
    <3> QED
      BY <1>2, <1>3, <1>4, <2>2, <3>1
  <2>4. CASE ~RefreshBegin(t)
    BY <1>2, <1>4, <2>4 DEF PersistUnlink, CheckRoom, QueueWrite, Puncture, WriteEntry,
       RotateMaster, RefreshSector, ClearKey, CopyKey, Reacquire
  <2> QED
    BY <2>3, <2>4
<1>5. ASSUME NEW t \in {E, D}, Walk(t), fault = "none" PROVE FaultsExplained'
  <2>1. CASE LeaveEntry(t)
    <3>1. \/ fault' = fault
          \/ Fail("double free") /\ at[t] = Freed
          \/ Fail("freed next") /\ next[t] = Freed
      BY <2>1 DEF LeaveEntry
    <3> QED
      BY <1>2, <1>3, <1>5, <3>1 DEF Freedom
  <2>2. CASE ~LeaveEntry(t)
    BY <1>2, <1>5, <2>2 DEF Walk, EnterBucket, PassBucket, LeaveBucket
  <2> QED
    BY <2>1, <2>2
<1>6. ASSUME NEW i \in Item, Work(i), fault = "none" PROVE FaultsExplained'
  <2>1. CASE LateWork(i)
    <3>1. Fail("late work") /\ pc[D] = "flush"
      BY <2>1 DEF LateWork
    <3>2. \A k \in IoWork : pc'[k] = "idle"
      BY <3>1 DEF Fail, JobsOK, Busy
    <3> QED
      BY <3>1, <3>2 DEF Fail, FaultsExplained
  <2>2. CASE ItemStep(i)
    BY <1>2, <1>6, <2>2, NoItemPersists DEF ItemStep, GetEntry, ReadEntry, RereadEntry, CopyKeyOut,
       EndIo, DoUnlink, UnlinkDone
  <2> QED
    BY <1>6, <2>1, <2>2 DEF Work
<1>7. ASSUME Queue, fault = "none" PROVE FaultsExplained'
  BY <1>2, <1>7 DEF Queue, QueueIo, QueueUnlink
<1>8. ASSUME Evict, fault = "none" PROVE FaultsExplained'
  BY <1>2, <1>4, <1>5, <1>8 DEF Evict, Wake, EvictEntry
<1>9. ASSUME Destroy \/ Shutdown, fault = "none" PROVE FaultsExplained'
  BY <1>2, <1>4, <1>5, <1>9 DEF Destroy, Shutdown, StopEviction, ForceEvict, ForceEvictEntry, Free,
     Closed
<1> QED
  BY <1>1, <1>6, <1>7, <1>8, <1>9 DEF Next, Step

\* Who holds pprf_sem for writing.
LEMMA WriterNext ==
  ASSUME writing \in Thread \cup {NoOne}, [Next]_vars
  PROVE  writing' \in Thread \cup {NoOne}
<1> USE DEF store, keys, sem, walk, life
<1>1. writing' = writing \/ writing' = NoOne \/ \E t \in Thread : writing' = t
  <2>1. ASSUME NEW t \in Thread, PersistUnlink(t)
        PROVE  writing' = writing \/ writing' = NoOne \/ writing' = t
    BY <2>1 DEF PersistUnlink, CheckRoom, QueueWrite, Puncture, WriteEntry, RotateMaster,
       RefreshBegin, RefreshSector, ClearKey, CopyKey, Reacquire, Fail
  <2>2. ASSUME NEW t, Walk(t) PROVE writing' = writing
    BY <2>2 DEF Walk, EnterBucket, PassBucket, LeaveEntry, LeaveBucket, Fail
  <2>3. ASSUME NEW i \in Item, ItemStep(i), ~PersistUnlink(i) PROVE writing' = writing
    BY <2>3 DEF ItemStep, GetEntry, ReadEntry, RereadEntry, CopyKeyOut, EndIo, DoUnlink, UnlinkDone
  <2>4. ASSUME NEW i \in Item, LateWork(i) PROVE writing' = writing
    BY <2>4 DEF LateWork, Fail
  <2>5. Queue => writing' = writing
    BY DEF Queue, QueueIo, QueueUnlink
  <2>6. ASSUME Evict, ~PersistUnlink(E), ~Walk(E) PROVE writing' = writing
    BY <2>6 DEF Evict, Wake, EvictEntry
  <2>7. ASSUME Destroy \/ Shutdown, ~PersistUnlink(D), ~Walk(D) PROVE writing' = writing
    BY <2>7 DEF Destroy, Shutdown, StopEviction, ForceEvict, ForceEvictEntry, Free, Closed
  <2>8. E \in Thread /\ D \in Thread /\ Item \subseteq Thread
    BY DEF Thread
  <2>9. UNCHANGED vars => writing' = writing
    BY DEF vars
  <2> QED
    BY <2>1, <2>2, <2>3, <2>4, <2>5, <2>6, <2>7, <2>8, <2>9 DEF Next, Step, Work
<1> QED
  BY <1>1 DEF Thread, Item

\* The same, with what explains a fault.
LEMMA AlwaysAll == Spec => [](IInv /\ Pointing /\ Stored /\ Rest /\ FaultsExplained)
<1>1. Init => Rest /\ FaultsExplained
  <2> SUFFICES ASSUME Init PROVE Rest /\ FaultsExplained
    OBVIOUS
  <2>1. E \in Thread /\ D \in Thread /\ Item \subseteq Thread /\ IoWork \subseteq Item
        /\ E \notin Item /\ D \notin Item
    BY Names DEF Thread, Item
  <2>2. \A i \in Item : pc[i] = "idle"
    BY <2>1 DEF Init
  <2>3. Busy = {} /\ jobs = 0
    BY <2>1, <2>2 DEF Busy, Init
  <2>4. JobsOK
    BY <2>1, <2>2, <2>3, FS_EmptySet DEF JobsOK, Init
  <2>5. Freedom
    BY <2>1 DEF Init, Freedom, End, Freed
  <2> QED
    BY <2>4, <2>5 DEF Init, Rest, FaultsExplained
<1>2. IInv /\ Pointing /\ Stored /\ Rest /\ FaultsExplained /\ [Next]_vars
        => (IInv /\ Pointing /\ Stored /\ Rest /\ FaultsExplained)'
  <2> SUFFICES ASSUME IInv, Pointing, Stored, Rest, FaultsExplained, [Next]_vars
               PROVE  (IInv /\ Pointing /\ Stored /\ Rest /\ FaultsExplained)'
    OBVIOUS
  <2>1. IInv' /\ Pointing' /\ Stored'
    BY NextIInv, NextPoints, NextStores
  <2>2. Freedom' /\ JobsOK' /\ FaultsExplained' /\ writing' \in Thread \cup {NoOne}
    BY FreedomNext, JobsNext, FaultsNext, WriterNext DEF Rest
  <2> QED
    BY <2>1, <2>2 DEF Rest, Thread, Item
<1> QED
  BY <1>1, <1>2, InitIInv, InitPoints, InitStores, PTL DEF Spec

\* Memory is misused only as the code's two weak spots allow: the walks of the lists
\* (list_for_each_entry_safe, dm-holepunch-main.c:1152, 1305) keep entries a refresh drops
\* (977, 1014), so an entry is freed twice or followed once freed only after one;
\* and an unlink still queued when the destructor frees the keys (2578-2601) runs when no I/O
\* is left.  Without either no two threads collide, and two refreshes never meet.
THEOREM FaultsAreExplained == Spec => []FaultsExplained
BY AlwaysAll, PTL

\* Every variable keeps its type: no sector is under the root of a key being overwritten
\* (dm-holepunch-main.c:1102), no walk leaves the table, and jobs counts each bio from
\* map_bio to its end_io once, so that eraser_dtr's wait (2564) sees 0 only when none is left.
THEOREM TypeCorrect == Spec => []TypeOK
<1>1. ASSUME IInv, Pointing, Stored, Rest PROVE TypeOK
  <2>1. disk \in [Sector -> [root : Nat \ {Torn}, tag : Nat, ver : Nat \cup {Junk}]]
    BY <1>1 DEF Stored, StoreOK
  <2>2. /\ pprf.root \in Nat /\ pprf.punct \subseteq Nat
        /\ newroot \in Nat /\ used \in Nat /\ tagctr \in Nat
    BY <1>1 DEF Stored, StoreOK, IInv, RoomOK
  <2>3. ASSUME NEW b \in Bucket, NEW s \in Range(list[b]) PROVE s \in Sector /\ BucketOf(s) = b
    <3>1. Listed(list[b]) /\ BucketOf(s) = b
      BY <1>1 DEF Pointing, ListsOK
    <3>2. PICK i \in 1 .. Len(list[b]) : s = list[b][i]
      BY <3>1, LenProperties DEF Listed, Range
    <3> QED
      BY <3>1, <3>2, ElementOfSeq DEF Listed
  <2>4. /\ lock \in [Bucket -> Thread \cup {NoOne}] /\ reading \subseteq Thread
        /\ writing \in Thread \cup {NoOne} /\ bkt \in [Thread -> Bucket]
    BY <1>1, Known DEF Rest
  <2>5. at \in [Thread -> Pointer] /\ next \in [Thread -> Pointer] /\ rot \in 0 .. KeyTableLen
    BY <1>1 DEF Pointing, PointersOK
  <2>6. jobs \in 0 .. Cardinality(Item)
    <3>1. IsFiniteSet(Item) /\ Busy \subseteq Item
      BY DeviceAssumption, FS_Union DEF Item, Busy
    <3>2. Cardinality(Busy) \in Nat /\ Cardinality(Item) \in Nat /\ Cardinality(Busy) <= Cardinality(Item)
      BY <3>1, FS_Subset, FS_CardinalityType
    <3> QED
      BY <1>1, <3>2 DEF Rest, JobsOK
  <2> QED
    BY <2>1, <2>2, <2>3, <2>4, <2>5, <2>6 DEF TypeOK
<1> QED
  BY <1>1, AlwaysAll, PTL

=============================================================================
