------------------------- MODULE CircularBusProofs -------------------------
(***************************************************************************)
(* Proofs about CircularBus: its inductive invariant, and from it that     *)
(* committed messages stay whole and that readers follow the log, for any  *)
(* number of writers and readers, any sizes and any ring.                  *)
(***************************************************************************)
EXTENDS CircularBus, TLAPS

-----------------------------------------------------------------------------
(* Arithmetic of the ring. *)

\* Slot lengths: at least the two prefix words (HEADER_SIZE, align_to_usize).
LEMMA SlotWordsAtLeastTwo ==
    ASSUME NEW size \in Nat
    PROVE  SlotWords(size) \in Nat /\ SlotWords(size) >= 2
  BY DEF SlotWords, SlotLen, AlignToUsize, ALIGNED_HEADER_SIZE, HEADER_SIZE, WORD

\* Moving d <= n words ahead wraps around at most once.
LEMMA ModAdd ==
    ASSUME NEW n \in Nat \ {0}, NEW a \in Nat, NEW d \in 0 .. n
    PROVE  ((a + d) % n) = (a % n) + d \/ ((a + d) % n) = (a % n) + d - n
<1> DEFINE k == ((a + d) \div n) - (a \div n)
<1>1. /\ k \in Int
      /\ (a % n) \in 0 .. n - 1
      /\ ((a + d) % n) \in 0 .. n - 1
  OBVIOUS
<1>2. n * k = d + (a % n) - ((a + d) % n)
  <2>1. a = n * (a \div n) + (a % n)
    OBVIOUS
  <2>2. a + d = n * ((a + d) \div n) + ((a + d) % n)
    OBVIOUS
  <2> QED BY <2>1, <2>2
<1>3. k \in {0, 1}
  <2> HIDE DEF k
  <2>1. ~ (k >= 2) BY <1>1, <1>2
  <2>2. ~ (k <= -1) BY <1>1, <1>2
  <2> QED BY <2>1, <2>2, <1>1
<1> QED BY <1>1, <1>2, <1>3

\* A slot of a ring of wrap_size words lies within the doubled mapping.
LEMMA WordInMapping ==
    ASSUME NEW p \in Nat, NEW i \in 0 .. WrapSize - 1
    PROVE  /\ Word(p, i) \in Addr
           /\ Word(p, i) \in Nat
           /\ Wrapped(p) \in 0 .. WrapSize - 1
<1>1. (p % WrapSize) \in 0 .. WrapSize - 1
  BY RingAssumption
<1> QED BY <1>1, RingAssumption DEF Word, Wrapped, Addr

LEMMA StampWordInMapping ==
    ASSUME NEW p \in Nat
    PROVE  Word(p, 1) \in Addr
<1>1. (p % WrapSize) \in 0 .. WrapSize - 1
  BY RingAssumption
<1> QED BY <1>1, RingAssumption DEF Word, Wrapped, Addr

(* Two slots that do not overlap in the log and lie within one wrap_size   *)
(* of each other share no word of the ring, spilled or not.                *)
LEMMA WordsDisjoint ==
    ASSUME NEW p \in Nat, NEW lp \in Nat, NEW q \in Nat, NEW lq \in Nat,
           p + lp <= q, q + lq <= p + WrapSize,
           NEW i \in 0 .. lp - 1, NEW j \in 0 .. lq - 1
    PROVE  Word(p, i) # Word(q, j)
<1> DEFINE d == q - p
<1>1. d \in 0 .. WrapSize /\ q = p + d /\ i < d /\ d + j < WrapSize
  BY RingAssumption
<1>2. (q % WrapSize) = (p % WrapSize) + d \/ (q % WrapSize) = (p % WrapSize) + d - WrapSize
  <2> HIDE DEF d
  <2>1. \/ ((p + d) % WrapSize) = (p % WrapSize) + d
        \/ ((p + d) % WrapSize) = (p % WrapSize) + d - WrapSize
    BY <1>1, ModAdd, RingAssumption
  <2> QED BY <1>1, <2>1
<1>3. (p % WrapSize) \in 0 .. WrapSize - 1
  BY RingAssumption
<1> QED BY <1>1, <1>2, <1>3, RingAssumption DEF Word, Wrapped

-----------------------------------------------------------------------------
(* The type of the slots, and a reserved one. *)

LEMMA SlotTypes ==
    ASSUME TypeOK, NEW p \in DOMAIN slot
    PROVE  /\ p \in Nat
           /\ slot[p] = [len |-> slot[p].len, state |-> slot[p].state]
           /\ slot[p].len \in 2 .. WrapSize
           /\ slot[p].len \in Nat
           /\ slot[p].state \in {"reserved", "committed", "hole"}
           /\ WrapSize \in Nat \ {0}
           /\ write_head \in Nat
  BY RingAssumption DEF TypeOK

LEMMA SlotInMapping ==
    ASSUME TypeOK, NEW p \in DOMAIN slot, NEW i \in 0 .. slot[p].len - 1
    PROVE  Word(p, i) \in Addr
<1>1. i \in 0 .. WrapSize - 1 /\ p \in Nat
  BY SlotTypes
<1> QED BY <1>1, WordInMapping

LEMMA OthersDisjoint ==
    ASSUME TypeOK, SlotsTile,
           NEW p \in DOMAIN slot, NEW q \in DOMAIN slot, p # q,
           InWindow(p), InWindow(q),
           NEW i \in 0 .. slot[p].len - 1, NEW j \in 0 .. slot[q].len - 1
    PROVE  Word(p, i) # Word(q, j)
<1>1. CASE p < q
  <2>1. p + slot[p].len <= q /\ q + slot[q].len <= p + WrapSize
    BY <1>1, SlotTypes DEF SlotsTile, InWindow
  <2> QED BY <2>1, SlotTypes, WordsDisjoint
<1>2. CASE q < p
  <2>1. q + slot[q].len <= p /\ p + slot[p].len <= q + WrapSize
    BY <1>2, SlotTypes DEF SlotsTile, InWindow
  <2> QED BY <2>1, SlotTypes, WordsDisjoint
<1> QED BY <1>1, <1>2, SlotTypes

-----------------------------------------------------------------------------
(* write reserves: the only step that moves the head and may lap someone. *)

LEMMA ReserveKeeps ==
    ASSUME IndInv, NEW w \in Writers, NEW size \in Sizes, Reserve(w, size)
    PROVE  IndInv'
<1> DEFINE len == SlotWords(size)
<1> USE DEF IndInv
<1>1. /\ len \in 2 .. WrapSize /\ len \in Nat /\ write_head \in Nat /\ write_head' \in Nat
      /\ write_head' = write_head + len /\ write_head' <= MaxHead /\ MaxHead \in Nat
      /\ WrapSize \in Nat \ {0}
  BY SlotWordsAtLeastTwo, RingAssumption DEF Reserve, Admitted, TypeOK
<1>2. /\ write_head \notin DOMAIN slot
      /\ DOMAIN slot' = DOMAIN slot \cup {write_head}
      /\ \A p \in DOMAIN slot : p < write_head /\ slot'[p] = slot[p]
      /\ slot'[write_head] = [len |-> len, state |-> "reserved"]
  <2>1. \A p \in DOMAIN slot : p < write_head
    BY SlotTypes DEF SlotsTile
  <2> QED BY <2>1, <1>1 DEF Reserve
<1>3. TypeOK'
  <2>1. DOMAIN slot' \subseteq 0 .. MaxHead
    BY <1>1, <1>2 DEF TypeOK
  <2>2. slot' \in [DOMAIN slot' -> [len : 2 .. WrapSize, state : {"reserved", "committed", "hole"}]]
    BY <1>1, <1>2 DEF TypeOK, Reserve
  <2>3. owner' \in [Addr -> DOMAIN slot' \cup {NoOne}] /\ stamp' \in [Addr -> Int]
    BY <1>2 DEF TypeOK, Reserve
  <2>4. lapped' \subseteq Writers \cup Readers /\ lookalikes' \subseteq 0 .. MaxHead
    BY DEF TypeOK, Reserve, LappedBy
  <2> QED BY <2>1, <2>2, <2>3, <2>4, <1>1 DEF TypeOK, Reserve, readerVars
<1>4. SlotsTile'
  <2>1. ASSUME NEW p \in DOMAIN slot'
        PROVE  /\ p + slot'[p].len <= write_head'
               /\ p + slot'[p].len \in DOMAIN slot' \cup {write_head'}
    BY <1>1, <1>2, SlotTypes DEF SlotsTile
  <2>2. ASSUME NEW p \in DOMAIN slot', NEW q \in DOMAIN slot', p < q
        PROVE  p + slot'[p].len <= q
    BY <2>2, <1>1, <1>2, SlotTypes DEF SlotsTile
  <2> QED BY <2>1, <2>2 DEF SlotsTile
<1>5. wpc' = [wpc EXCEPT ![w] = "uncommit"] /\ wpos' = [wpos EXCEPT ![w] = write_head]
  BY DEF Reserve
<1>6. OneWriterPerSlot'
  BY <1>2, <1>5 DEF OneWriterPerSlot, TypeOK, Reserve
<1>7. NotLappedInWindow'
  <2>1. ASSUME NEW v \in Writers \ lapped', wpc'[v] # "idle"
        PROVE  InWindow(wpos[v])'
    <3>1. CASE v = w
      BY <3>1, <1>1, <1>5 DEF InWindow, TypeOK
    <3>2. CASE v # w
      <4>1. wpc[v] # "idle" /\ wpos'[v] = wpos[v] /\ wpos[v] \in Nat
        BY <3>2, <2>1, <1>5 DEF TypeOK
      <4>2. ~ (wpos[v] + WrapSize < write_head')
        BY <4>1, <2>1, <1>1 DEF Reserve, LappedBy
      <4> QED BY <4>1, <4>2, <1>1 DEF InWindow
    <3> QED BY <3>1, <3>2
  <2>2. ASSUME NEW r \in Readers \ lapped'
        PROVE  rpc'[r] # "panicked" /\ InWindow(Needs(r))'
    <3>1. r \notin lapped /\ rpc[r] # "panicked"
      BY DEF Reserve, NotLappedInWindow
    <3>2. ~ (Needs(r) + WrapSize < write_head') /\ Needs(r) \in Nat
      BY <3>1, <1>1 DEF Reserve, LappedBy, Needs, TypeOK
    <3>3. Needs(r)' = Needs(r) /\ rpc' = rpc
      BY DEF Reserve, Needs, readerVars
    <3> QED BY <3>1, <3>2, <3>3, <1>1 DEF InWindow
  <2> QED BY <2>1, <2>2 DEF NotLappedInWindow
<1>8. StampsSound'
  BY <1>2 DEF StampsSound, StampMatches, Committed, Reserve, Word, Wrapped, CommitStampFor
<1>9. (NoWriterLapped' => NoWriterLapped) /\ (NoLookalikes' => NoLookalikes)
  BY DEF NoWriterLapped, NoLookalikes, Reserve
<1>10. StoresDone'
  <2> SUFFICES ASSUME NoWriterLapped', NEW v \in Writers, wpc'[v] \in {"header", "callback", "commit"}
               PROVE  LET p == wpos'[v]
                      IN  /\ owner'[Word(p, 1)] = p
                          /\ wpc'[v] \in {"callback", "commit"} => owner'[Word(p, 0)] = p
                          /\ wpc'[v] = "commit" =>
                                \A i \in 2 .. slot'[p].len - 1 : owner'[Word(p, i)] = p
    BY DEF StoresDone, Word, Wrapped
  <2>1. v # w /\ wpc'[v] = wpc[v] /\ wpos'[v] = wpos[v]
    BY <1>5 DEF TypeOK
  <2>2. slot'[wpos[v]] = slot[wpos[v]]
    BY <2>1, <1>2 DEF OneWriterPerSlot
  <2> QED BY <2>1, <2>2, <1>9 DEF StoresDone, Reserve
<1>11. CommittedIntact'
  <2> SUFFICES ASSUME NoWriterLapped', NEW p \in DOMAIN slot', slot'[p].state = "committed", InWindow(p)'
               PROVE  Intact(p)'
    BY DEF CommittedIntact
  <2>1. p \in DOMAIN slot /\ slot'[p] = slot[p]
    BY <1>2
  <2>2. InWindow(p)
    BY <2>1, <1>1, SlotTypes DEF InWindow
  <2>3. Intact(p)
    BY <2>1, <2>2, <1>9 DEF CommittedIntact
  <2> QED BY <2>1, <2>3 DEF Intact, StampMatches, Reserve, Word, Wrapped, CommitStampFor
<1>12. ReadersFollowTheLog'
  <2> SUFFICES ASSUME NoWriterLapped', NoLookalikes', NEW r \in Readers \ lapped'
               PROVE  /\ position'[r] \in DOMAIN slot' \cup {write_head'}
                      /\ \A p \in DOMAIN slot' : p < position'[r] => slot'[p].state = "committed"
    BY DEF ReadersFollowTheLog
  <2>1. r \notin lapped /\ position' = position
    BY DEF Reserve, readerVars
  <2>2. /\ position[r] \in DOMAIN slot \cup {write_head}
        /\ \A p \in DOMAIN slot : p < position[r] => slot[p].state = "committed"
    BY <2>1, <1>9 DEF ReadersFollowTheLog
  <2>3. position[r] <= write_head
    BY <2>2, <1>1, <1>2, SlotTypes
  <2> QED BY <2>1, <2>2, <2>3, <1>1, <1>2, SlotTypes
<1>13. ReadersPlaced' /\ ViewsBehind'
  BY <1>2, <1>9 DEF ReadersPlaced, ViewsBehind, Committed, Reserve, readerVars
<1> QED BY <1>3, <1>4, <1>6, <1>7, <1>8, <1>10, <1>11, <1>12, <1>13

-----------------------------------------------------------------------------
(* write stores: a step of writer w inside its own slot. *)

\* What every storing step of a writer does, and what it leaves alone.
StoresInSlot(w, vals, state) ==
    /\ wpc[w] # "idle"
    /\ DOMAIN vals \subseteq SlotAddrs(wpos[w])
    /\ Store(wpos[w], vals)
    /\ slot' = [slot EXCEPT ![wpos[w]].state = state]
    /\ wpc' = [wpc EXCEPT ![w] = wpc'[w]]
    /\ lookalikes \subseteq lookalikes' /\ lookalikes' \subseteq 0 .. MaxHead
    /\ UNCHANGED <<write_head, readerVars, lapped>>

LEMMA StoreFrame ==
    ASSUME IndInv, NEW w \in Writers, NEW vals,
           NEW state \in {"reserved", "committed", "hole"},
           StoresInSlot(w, vals, state)
    PROVE  /\ wpos[w] \in DOMAIN slot /\ slot[wpos[w]].state = "reserved"
           /\ DOMAIN slot' = DOMAIN slot
           /\ \A p \in DOMAIN slot : /\ slot'[p].len = slot[p].len
                                     /\ p # wpos[w] => slot'[p] = slot[p]
                                     /\ slot[p].state = "committed" => slot'[p] = slot[p]
           /\ slot'[wpos[w]].state = state
           /\ slot' \in [DOMAIN slot -> [len : 2 .. WrapSize,
                                         state : {"reserved", "committed", "hole"}]]
           /\ DOMAIN vals \subseteq Addr
           /\ \A a \in Addr :
                 /\ a \in DOMAIN vals => owner'[a] = wpos[w] /\ stamp'[a] = vals[a]
                 /\ a \notin DOMAIN vals => owner'[a] = owner[a] /\ stamp'[a] = stamp[a]
           /\ owner' \in [Addr -> DOMAIN slot \cup {NoOne}]
<1> USE DEF IndInv
<1>1. wpos[w] \in DOMAIN slot /\ slot[wpos[w]].state = "reserved"
  BY DEF OneWriterPerSlot, StoresInSlot
<1>2. slot' = [slot EXCEPT ![wpos[w]].state = state]
  BY DEF StoresInSlot
<1>3. /\ DOMAIN slot' = DOMAIN slot
      /\ \A p \in DOMAIN slot : /\ slot'[p].len = slot[p].len
                                /\ p # wpos[w] => slot'[p] = slot[p]
                                /\ slot[p].state = "committed" => slot'[p] = slot[p]
      /\ slot'[wpos[w]].state = state
      /\ slot' \in [DOMAIN slot -> [len : 2 .. WrapSize,
                                    state : {"reserved", "committed", "hole"}]]
  BY <1>1, <1>2 DEF TypeOK
<1>4. DOMAIN vals \subseteq Addr
  <2> SUFFICES ASSUME NEW i \in 0 .. slot[wpos[w]].len - 1
               PROVE  Word(wpos[w], i) \in Addr
    BY DEF StoresInSlot, SlotAddrs
  <2> QED BY <1>1, SlotInMapping
<1>5. \A a \in Addr :
         /\ a \in DOMAIN vals => owner'[a] = wpos[w] /\ stamp'[a] = vals[a]
         /\ a \notin DOMAIN vals => owner'[a] = owner[a] /\ stamp'[a] = stamp[a]
  BY DEF StoresInSlot, Store
<1>6. owner' \in [Addr -> DOMAIN slot \cup {NoOne}]
  BY <1>1 DEF StoresInSlot, Store, TypeOK
<1> QED BY <1>1, <1>3, <1>4, <1>5, <1>6

\* While no writer is lapped, a store touches no word of another slot in the window.
LEMMA StoreLeavesOthers ==
    ASSUME IndInv, NoWriterLapped, NEW w \in Writers, NEW vals,
           NEW state \in {"reserved", "committed", "hole"},
           StoresInSlot(w, vals, state),
           NEW p \in DOMAIN slot, p # wpos[w], InWindow(p),
           NEW i \in 0 .. slot[p].len - 1
    PROVE  owner'[Word(p, i)] = owner[Word(p, i)] /\ stamp'[Word(p, i)] = stamp[Word(p, i)]
<1> USE DEF IndInv
<1>1. wpos[w] \in DOMAIN slot
  BY DEF OneWriterPerSlot, StoresInSlot
<1>2. InWindow(wpos[w])
  BY DEF NotLappedInWindow, NoWriterLapped, StoresInSlot
<1>3. Word(p, i) \notin DOMAIN vals
  BY <1>1, <1>2, OthersDisjoint DEF StoresInSlot, SlotAddrs
<1>4. Word(p, i) \in Addr
  BY SlotInMapping
<1> QED BY <1>3, <1>4, StoreFrame

(* Every conjunct of the invariant but the types of pc and stamp, the      *)
(* progress of w itself and what its own commit adds.                      *)
LEMMA StoreKeeps ==
    ASSUME IndInv, NEW w \in Writers, NEW vals,
           NEW state \in {"reserved", "committed", "hole"},
           StoresInSlot(w, vals, state),
           \A a \in DOMAIN vals : vals[a] \in Int,
           wpc'[w] \in {"idle", "uncommit", "header", "callback", "commit"},
           wpos' \in [Writers -> Nat],
           \A u \in Writers \ {w} : wpos'[u] = wpos[u],
           wpc'[w] # "idle" => wpos'[w] = wpos[w] /\ state = "reserved",
           \A p \in Imitated(vals) :
               (p = wpos[w] /\ state = "committed") \/ p \in lookalikes',
           NoWriterLapped' =>
               /\ wpc'[w] \in {"header", "callback", "commit"} =>
                     owner'[Word(wpos'[w], 1)] = wpos'[w]
               /\ wpc'[w] \in {"callback", "commit"} =>
                     owner'[Word(wpos'[w], 0)] = wpos'[w]
               /\ wpc'[w] = "commit" =>
                     \A i \in 2 .. slot'[wpos'[w]].len - 1 :
                         owner'[Word(wpos'[w], i)] = wpos'[w],
           NoWriterLapped /\ state = "committed" =>
               \A p \in DOMAIN slot : p = wpos[w] => Intact(p)'
    PROVE  IndInv'
<1> USE DEF IndInv
<1>1. /\ write_head' = write_head /\ lapped' = lapped /\ rpc' = rpc
      /\ position' = position /\ view' = view
      /\ wpc' = [wpc EXCEPT ![w] = wpc'[w]]
  BY DEF StoresInSlot, readerVars
<1>2. \A u \in Writers : u # w => wpc'[u] = wpc[u]
  BY <1>1 DEF TypeOK
<1>3. TypeOK'
  <2>1. stamp' \in [Addr -> Int]
    BY DEF StoresInSlot, Store, TypeOK
  <2>3. lookalikes' \subseteq 0 .. MaxHead
    BY DEF StoresInSlot
  <2>2. wpc' \in [Writers -> {"idle", "uncommit", "header", "callback", "commit"}]
    BY <1>1 DEF TypeOK
  <2> QED BY <2>1, <2>2, <2>3, <1>1, StoreFrame DEF TypeOK
<1>4. SlotsTile'
  BY <1>1, StoreFrame DEF SlotsTile
<1>5. OneWriterPerSlot'
  <2> SUFFICES ASSUME NEW u \in Writers, wpc'[u] # "idle"
               PROVE  /\ wpos'[u] \in DOMAIN slot'
                      /\ slot'[wpos'[u]].state = "reserved"
                      /\ \A x \in Writers : wpc'[x] # "idle" /\ wpos'[x] = wpos'[u] => x = u
    BY DEF OneWriterPerSlot
  <2>1. wpc[w] # "idle"
    BY DEF StoresInSlot
  <2>2. wpc[u] # "idle" /\ wpos'[u] = wpos[u]
    BY <1>2, <2>1
  <2>3. wpos[u] \in DOMAIN slot /\ slot[wpos[u]].state = "reserved"
    BY <2>2 DEF OneWriterPerSlot
  <2>4. u # w => wpos[u] # wpos[w]
    BY <2>1, <2>2 DEF OneWriterPerSlot
  <2>5. slot'[wpos[u]].state = "reserved"
    BY <2>3, <2>4, StoreFrame
  <2>6. \A x \in Writers : wpc'[x] # "idle" => wpc[x] # "idle" /\ wpos'[x] = wpos[x]
    BY <1>2, <2>1
  <2> QED BY <2>2, <2>3, <2>5, <2>6, StoreFrame DEF OneWriterPerSlot
<1>6. NotLappedInWindow'
  <2>1. \A u \in Writers : wpc'[u] # "idle" => wpc[u] # "idle" /\ wpos'[u] = wpos[u]
    BY <1>2 DEF StoresInSlot
  <2> QED BY <1>1, <2>1 DEF NotLappedInWindow, InWindow, Needs
<1>7. StampsSound'
  <2> SUFFICES ASSUME NEW p \in 0 .. MaxHead, stamp'[Word(p, 1)] = CommitStampFor(p)
               PROVE  Committed(p)' \/ p \in lookalikes'
    BY DEF StampsSound, StampMatches, Word, Wrapped, CommitStampFor
  <2>1. CASE Word(p, 1) \in DOMAIN vals
    <3>1. p \in Imitated(vals)
      BY <2>1, StoreFrame DEF Imitated
    <3> QED BY <3>1, StoreFrame DEF Committed
  <2>2. CASE Word(p, 1) \notin DOMAIN vals
    <3>1. Word(p, 1) \in Addr
      BY StampWordInMapping
    <3>2. StampMatches(p)
      BY <2>2, <3>1, StoreFrame DEF StampMatches
    <3>3. Committed(p) \/ p \in lookalikes
      BY <3>2 DEF StampsSound
    <3> QED BY <3>3, StoreFrame DEF Committed, StoresInSlot
  <2> QED BY <2>1, <2>2
<1>8. (NoWriterLapped' <=> NoWriterLapped) /\ (NoLookalikes' => NoLookalikes)
  BY <1>1 DEF NoWriterLapped, NoLookalikes, StoresInSlot
<1>9. StoresDone'
  <2> SUFFICES ASSUME NoWriterLapped', NEW u \in Writers, u # w,
                      wpc'[u] \in {"header", "callback", "commit"}
               PROVE  LET p == wpos'[u]
                      IN  /\ owner'[Word(p, 1)] = p
                          /\ wpc'[u] \in {"callback", "commit"} => owner'[Word(p, 0)] = p
                          /\ wpc'[u] = "commit" =>
                                \A i \in 2 .. slot'[p].len - 1 : owner'[Word(p, i)] = p
    BY DEF StoresDone, Word, Wrapped
  <2>1. wpc[u] = wpc'[u] /\ wpos'[u] = wpos[u] /\ wpc[u] # "idle" /\ wpc[w] # "idle"
    BY <1>2 DEF StoresInSlot
  <2>2. wpos[u] \in DOMAIN slot /\ wpos[u] # wpos[w]
    BY <2>1 DEF OneWriterPerSlot
  <2>3. InWindow(wpos[u])
    BY <2>1, <1>8 DEF NotLappedInWindow, NoWriterLapped
  <2>4. \A i \in 0 .. slot[wpos[u]].len - 1 :
            owner'[Word(wpos[u], i)] = owner[Word(wpos[u], i)]
    BY <2>2, <2>3, <1>8, StoreLeavesOthers
  <2>5. slot'[wpos[u]].len = slot[wpos[u]].len /\ slot[wpos[u]].len \in Nat /\ slot[wpos[u]].len >= 2
    BY <2>2, StoreFrame, SlotTypes
  <2> QED BY <2>1, <2>4, <2>5, <1>8 DEF StoresDone
<1>10. CommittedIntact'
  <2> SUFFICES ASSUME NoWriterLapped', NEW p \in DOMAIN slot', slot'[p].state = "committed",
                      InWindow(p)'
               PROVE  Intact(p)'
    BY DEF CommittedIntact
  <2>1. CASE p = wpos[w]
    BY <2>1, <1>8, StoreFrame
  <2>2. CASE p # wpos[w]
    <3>1. p \in DOMAIN slot /\ slot'[p] = slot[p] /\ InWindow(p)
      BY <2>2, <1>1, StoreFrame DEF InWindow
    <3>2. Intact(p)
      BY <3>1, <1>8 DEF CommittedIntact
    <3>3. \A i \in 0 .. slot[p].len - 1 : /\ owner'[Word(p, i)] = owner[Word(p, i)]
                                          /\ stamp'[Word(p, i)] = stamp[Word(p, i)]
      BY <3>1, <2>2, <1>8, StoreLeavesOthers
    <3>4. 1 \in 0 .. slot[p].len - 1
      BY <3>1, SlotTypes
    <3>5. stamp'[Word(p, 1)] = CommitStampFor(p)
      BY <3>2, <3>3, <3>4 DEF Intact, StampMatches
    <3>6. \A i \in 0 .. slot'[p].len - 1 : owner'[Word(p, i)] = p
      BY <3>1, <3>2, <3>3 DEF Intact
    <3>7. StampMatches(p)'
      BY <3>5 DEF StampMatches, Word, Wrapped, CommitStampFor
    <3> QED BY <3>6, <3>7 DEF Intact, Word, Wrapped
  <2> QED BY <2>1, <2>2
<1>11. ReadersFollowTheLog'
  <2> SUFFICES ASSUME NoWriterLapped', NoLookalikes', NEW r \in Readers \ lapped'
               PROVE  /\ position'[r] \in DOMAIN slot' \cup {write_head'}
                      /\ \A p \in DOMAIN slot' : p < position'[r] => slot'[p].state = "committed"
    BY DEF ReadersFollowTheLog
  <2> QED BY <1>1, <1>8, StoreFrame DEF ReadersFollowTheLog
<1>12. ReadersPlaced' /\ ViewsBehind'
  BY <1>1, <1>8, StoreFrame DEF ReadersPlaced, ViewsBehind, Committed
<1> QED BY <1>3, <1>4, <1>5, <1>6, <1>7, <1>9, <1>10, <1>11, <1>12

-----------------------------------------------------------------------------
(* The storing steps of write, each an instance of StoreKeeps. *)

\* A stamp that is stored is 0, or the slot's own.
LEMMA StampStored ==
    ASSUME TypeOK, NEW p \in DOMAIN slot, NEW v \in {0, CommitStampFor(p)}, StoreStamp(p, v)
    PROVE  LET vals == [a \in {Word(p, 1)} |-> v]
           IN  /\ Store(p, vals)
               /\ DOMAIN vals \subseteq SlotAddrs(p)
               /\ \A a \in DOMAIN vals : vals[a] \in Int
               /\ \A q \in Imitated(vals) : q = p /\ v = CommitStampFor(p)
               /\ stamp'[Word(p, 1)] = v
               /\ owner'[Word(p, 1)] = p
               /\ lookalikes \subseteq lookalikes' /\ lookalikes' \subseteq 0 .. MaxHead
<1>1. p \in Nat /\ slot[p].len \in Nat /\ 1 \in 0 .. slot[p].len - 1
  BY SlotTypes
<1>2. Word(p, 1) \in Addr
  BY <1>1, StampWordInMapping
<1>3. CommitStampFor(p) \in Int
  BY <1>1 DEF CommitStampFor
<1>4. \A q \in 0 .. MaxHead : CommitStampFor(q) = v => q = p /\ v = CommitStampFor(p)
  BY <1>1 DEF CommitStampFor
<1> DEFINE vals == [a \in {Word(p, 1)} |-> v]
<1>5. Store(p, vals) /\ lookalikes' = lookalikes /\ lookalikes \subseteq 0 .. MaxHead
  BY DEF StoreStamp, TypeOK
<1>6. DOMAIN vals = {Word(p, 1)} /\ vals[Word(p, 1)] = v
  OBVIOUS
<1> HIDE DEF vals
<1>7. DOMAIN vals \subseteq SlotAddrs(p)
  BY <1>1, <1>6 DEF SlotAddrs
<1>8. v \in Int
  BY <1>3
<1>9. \A a \in DOMAIN vals : vals[a] \in Int
  BY <1>6, <1>8
<1>10. \A q \in Imitated(vals) : q = p /\ v = CommitStampFor(p)
  <2> SUFFICES ASSUME NEW q \in Imitated(vals) PROVE q = p /\ v = CommitStampFor(p)
    OBVIOUS
  <2>1. q \in 0 .. MaxHead /\ Word(q, 1) \in DOMAIN vals /\ vals[Word(q, 1)] = CommitStampFor(q)
    BY DEF Imitated
  <2>2. CommitStampFor(q) = v
    BY <1>6, <2>1
  <2> QED BY <1>4, <2>1, <2>2
<1>11. stamp'[Word(p, 1)] = v /\ owner'[Word(p, 1)] = p
  BY <1>2, <1>5, <1>6 DEF Store
<1> QED BY <1>5, <1>7, <1>9, <1>10, <1>11 DEF vals

\* Bytes that are stored: what imitates a stamp among them is on the record.
LEMMA BytesStored ==
    ASSUME TypeOK, NEW p \in DOMAIN slot, NEW A, A \subseteq SlotAddrs(p), StoreBytes(p, A)
    PROVE  \E vals : /\ DOMAIN vals = A
                     /\ Store(p, vals)
                     /\ \A a \in A : vals[a] \in Int
                     /\ lookalikes' = lookalikes \cup Imitated(vals)
                     /\ \A q \in Imitated(vals) : q \in lookalikes'
                     /\ lookalikes \subseteq lookalikes' /\ lookalikes' \subseteq 0 .. MaxHead
<1>1. PICK vals \in [A -> Contents] :
         Store(p, vals) /\ lookalikes' = lookalikes \cup Imitated(vals)
  BY DEF StoreBytes
<1>2. \A a \in A : vals[a] \in Int
  <2>1. \A a \in A : vals[a] \in Contents
    OBVIOUS
  <2>2. \A c \in Contents : c \in Nat
    BY RingAssumption, Zenon
  <2> QED BY <2>1, <2>2
<1> QED BY <1>1, <1>2 DEF Imitated, TypeOK

LEMMA UncommitKeeps ==
    ASSUME IndInv, NEW w \in Writers, Uncommit(w)
    PROVE  IndInv'
<1> DEFINE vals == [a \in {Word(wpos[w], 1)} |-> 0]
<1>1. TypeOK /\ wpos[w] \in DOMAIN slot /\ slot[wpos[w]].state = "reserved"
  BY DEF IndInv, OneWriterPerSlot, Uncommit
<1>2. /\ Store(wpos[w], vals)
      /\ DOMAIN vals \subseteq SlotAddrs(wpos[w])
      /\ \A a \in DOMAIN vals : vals[a] \in Int
      /\ \A q \in Imitated(vals) : q = wpos[w] /\ 0 = CommitStampFor(wpos[w])
      /\ owner'[Word(wpos[w], 1)] = wpos[w]
      /\ lookalikes \subseteq lookalikes' /\ lookalikes' \subseteq 0 .. MaxHead
  BY <1>1, StampStored DEF Uncommit
<1>3. 0 # CommitStampFor(wpos[w])
  BY <1>1, SlotTypes DEF CommitStampFor
<1> HIDE DEF vals
<1>4. StoresInSlot(w, vals, "reserved")
  BY <1>1, <1>2 DEF StoresInSlot, Uncommit, TypeOK
<1>5. wpc'[w] = "header" /\ wpos' = wpos
  BY <1>1 DEF Uncommit, TypeOK
<1> QED BY <1>1, <1>2, <1>3, <1>4, <1>5, StoreKeeps DEF TypeOK

LEMMA WriteHeaderKeeps ==
    ASSUME IndInv, NEW w \in Writers, WriteHeader(w)
    PROVE  IndInv'
<1> DEFINE p == wpos[w]
<1>1. TypeOK /\ p \in DOMAIN slot /\ slot[p].state = "reserved"
  BY DEF IndInv, OneWriterPerSlot, WriteHeader
<1>2. 0 \in 0 .. slot[p].len - 1 /\ 1 \in 0 .. slot[p].len - 1
  BY <1>1, SlotTypes
<1>3. {Word(p, 0)} \subseteq SlotAddrs(p)
  BY <1>2 DEF SlotAddrs
<1>4. PICK vals : /\ DOMAIN vals = {Word(p, 0)}
                  /\ Store(p, vals)
                  /\ \A a \in {Word(p, 0)} : vals[a] \in Int
                  /\ \A q \in Imitated(vals) : q \in lookalikes'
                  /\ lookalikes \subseteq lookalikes' /\ lookalikes' \subseteq 0 .. MaxHead
  BY <1>1, <1>3, BytesStored DEF WriteHeader
<1>5. StoresInSlot(w, vals, "reserved")
  BY <1>1, <1>3, <1>4 DEF StoresInSlot, WriteHeader, TypeOK
<1>6. wpc'[w] = "callback" /\ wpos' = wpos
  BY <1>1 DEF WriteHeader, TypeOK
<1>7. owner'[Word(p, 0)] = p
  BY <1>4, <1>5, StoreFrame
<1>8. NoWriterLapped' => owner'[Word(p, 1)] = p
  <2> SUFFICES ASSUME NoWriterLapped'
               PROVE  owner'[Word(p, 1)] = p
    OBVIOUS
  <2>1. owner[Word(p, 1)] = p
    BY DEF IndInv, StoresDone, WriteHeader, NoWriterLapped
  <2>2. Word(p, 1) \in Addr
    BY <1>1, <1>2, SlotInMapping
  <2> QED BY <2>1, <2>2, <1>4 DEF Store
<1> QED BY <1>1, <1>4, <1>5, <1>6, <1>7, <1>8, StoreKeeps DEF TypeOK

LEMMA RunCallbackKeeps ==
    ASSUME IndInv, NEW w \in Writers, RunCallback(w)
    PROVE  IndInv'
<1> DEFINE p == wpos[w]
<1>1. TypeOK /\ p \in DOMAIN slot /\ slot[p].state = "reserved"
  BY DEF IndInv, OneWriterPerSlot, RunCallback
<1>2. /\ slot[p].len \in Nat /\ slot[p].len <= WrapSize /\ p \in Nat
      /\ 0 \in 0 .. slot[p].len - 1 /\ 1 \in 0 .. slot[p].len - 1
  BY <1>1, SlotTypes
<1>3. Payload(p) \subseteq SlotAddrs(p)
  BY <1>2 DEF SlotAddrs, Payload
<1>4. PICK vals : /\ DOMAIN vals = Payload(p)
                  /\ Store(p, vals)
                  /\ \A a \in Payload(p) : vals[a] \in Int
                  /\ \A q \in Imitated(vals) : q \in lookalikes'
                  /\ lookalikes \subseteq lookalikes' /\ lookalikes' \subseteq 0 .. MaxHead
  BY <1>1, <1>3, BytesStored DEF RunCallback
<1>5. StoresInSlot(w, vals, "reserved")
  BY <1>1, <1>3, <1>4 DEF StoresInSlot, RunCallback, TypeOK
<1>6. wpc'[w] = "commit" /\ wpos' = wpos
  BY <1>1 DEF RunCallback, TypeOK
<1>7. slot'[p].len = slot[p].len
  BY <1>1, <1>5, StoreFrame
<1>8. \A i \in 0 .. slot[p].len - 1 : Word(p, i) \in Addr
  BY <1>1, SlotInMapping
<1>9. \A i \in 2 .. slot[p].len - 1 : owner'[Word(p, i)] = p
  BY <1>2, <1>4, <1>8 DEF Store, Payload
<1>10. NoWriterLapped' => owner'[Word(p, 0)] = p /\ owner'[Word(p, 1)] = p
  <2> SUFFICES ASSUME NoWriterLapped'
               PROVE  owner'[Word(p, 0)] = p /\ owner'[Word(p, 1)] = p
    OBVIOUS
  <2>1. owner[Word(p, 0)] = p /\ owner[Word(p, 1)] = p
    BY DEF IndInv, StoresDone, RunCallback, NoWriterLapped
  <2> QED BY <2>1, <1>2, <1>4, <1>8 DEF Store
<1> QED BY <1>1, <1>4, <1>5, <1>6, <1>7, <1>9, <1>10, StoreKeeps DEF TypeOK

LEMMA CallbackPanicsKeeps ==
    ASSUME IndInv, NEW w \in Writers, CallbackPanics(w)
    PROVE  IndInv'
<1> DEFINE p == wpos[w]
<1>1. TypeOK /\ p \in DOMAIN slot
  BY DEF IndInv, OneWriterPerSlot, CallbackPanics
<1>2. PICK n \in 2 .. slot[p].len : StoreBytes(p, {Word(p, i) : i \in 2 .. n - 1})
  BY DEF CallbackPanics
<1> DEFINE A == {Word(p, i) : i \in 2 .. n - 1}
<1>3. A \subseteq SlotAddrs(p)
  <2>1. slot[p].len \in Nat
    BY <1>1, SlotTypes
  <2> QED BY <2>1 DEF SlotAddrs
<1> HIDE DEF A
<1>4. PICK vals : /\ DOMAIN vals = A
                  /\ Store(p, vals)
                  /\ \A a \in A : vals[a] \in Int
                  /\ \A q \in Imitated(vals) : q \in lookalikes'
                  /\ lookalikes \subseteq lookalikes' /\ lookalikes' \subseteq 0 .. MaxHead
  BY <1>1, <1>2, <1>3, BytesStored DEF A
<1>5. StoresInSlot(w, vals, "hole")
  BY <1>1, <1>3, <1>4 DEF StoresInSlot, CallbackPanics, TypeOK, Settled
<1>6. wpc'[w] = "idle"
  BY <1>1 DEF CallbackPanics, TypeOK
<1>7. wpos' \in [Writers -> Nat] /\ \A u \in Writers \ {w} : wpos'[u] = wpos[u]
  BY <1>1 DEF CallbackPanics, TypeOK
<1> QED BY <1>4, <1>5, <1>6, <1>7, StoreKeeps

LEMMA CommitKeeps ==
    ASSUME IndInv, NEW w \in Writers, Commit(w)
    PROVE  IndInv'
<1> DEFINE p == wpos[w]
           vals == [a \in {Word(p, 1)} |-> CommitStampFor(p)]
<1>1. TypeOK /\ p \in DOMAIN slot
  BY DEF IndInv, OneWriterPerSlot, Commit
<1>2. /\ slot[p].len \in Nat /\ slot[p].len <= WrapSize /\ p \in Nat
      /\ 0 \in 0 .. slot[p].len - 1 /\ 1 \in 0 .. slot[p].len - 1
  BY <1>1, SlotTypes
<1>3. /\ Store(p, vals)
      /\ DOMAIN vals \subseteq SlotAddrs(p)
      /\ \A a \in DOMAIN vals : vals[a] \in Int
      /\ \A q \in Imitated(vals) : q = p
      /\ stamp'[Word(p, 1)] = CommitStampFor(p)
      /\ lookalikes \subseteq lookalikes' /\ lookalikes' \subseteq 0 .. MaxHead
  BY <1>1, StampStored DEF Commit
<1>4. wpc'[w] = "idle"
  BY <1>1 DEF Commit, TypeOK
<1>5. wpos' \in [Writers -> Nat] /\ \A u \in Writers \ {w} : wpos'[u] = wpos[u]
  BY <1>1 DEF Commit, TypeOK
<1>6. \A i \in 0 .. slot[p].len - 1 : Word(p, i) \in Addr
  BY <1>1, SlotInMapping
<1>7. DOMAIN vals = {Word(p, 1)}
  OBVIOUS
<1> HIDE DEF vals
<1>8. StoresInSlot(w, vals, "committed")
  BY <1>1, <1>3 DEF StoresInSlot, Commit, TypeOK, Settled
<1>9. ASSUME NoWriterLapped, NEW q \in DOMAIN slot, q = p
      PROVE  Intact(q)'
  <2>1. /\ owner[Word(p, 0)] = p
        /\ \A i \in 2 .. slot[p].len - 1 : owner[Word(p, i)] = p
    BY <1>9 DEF IndInv, StoresDone, Commit
  <2>2. \A i \in 0 .. slot[p].len - 1 : owner[Word(p, i)] = p \/ i = 1
    BY <2>1, <1>2
  <2>3. \A i \in 0 .. slot'[p].len - 1 : owner'[Word(p, i)] = p
    BY <2>2, <1>6, <1>7, <1>1, <1>8, StoreFrame
  <2>4. StampMatches(q)'
    BY <1>3, <1>9 DEF StampMatches, Word, Wrapped, CommitStampFor
  <2>5. \A i \in 0 .. slot'[q].len - 1 : owner'[Word(q, i)] = q
    BY <2>3, <1>9
  <2> QED BY <2>4, <2>5 DEF Intact, Word, Wrapped
<1> HIDE DEF p
<1> QED BY <1>3, <1>4, <1>5, <1>8, <1>9, StoreKeeps DEF p

-----------------------------------------------------------------------------
(* The reader's steps store nothing. *)

\* A step of reader r: the log, the memory and the other readers are as before.
ReadsOnly(r) ==
    /\ UNCHANGED <<write_head, stamp, owner, slot, writerVars, history>>
    /\ \A x \in Readers \ {r} : /\ rpc'[x] = rpc[x]
                                /\ position'[x] = position[x]
                                /\ view'[x] = view[x]

\* What is left to show of reader r after its step.
ReaderOK(r) ==
    /\ NoWriterLapped /\ NoLookalikes /\ r \notin lapped =>
         /\ position[r] \in DOMAIN slot \cup {write_head}
         /\ \A p \in DOMAIN slot : p < position[r] => slot[p].state = "committed"
         /\ rpc[r] = "hit" => Committed(position[r])
         /\ rpc[r] \in {"advance", "handle"} =>
               Committed(view[r].pos) /\ view[r].len = slot[view[r].pos].len
    /\ rpc[r] = "advance" => position[r] = view[r].pos
    /\ rpc[r] = "handle" => position[r] >= view[r].pos
    /\ r \notin lapped => rpc[r] # "panicked" /\ InWindow(Needs(r))

LEMMA ReadKeeps ==
    ASSUME IndInv, NEW r \in Readers, ReadsOnly(r),
           rpc' \in [Readers -> {"poll", "miss", "hit", "advance", "handle", "panicked"}],
           position' \in [Readers -> Nat],
           view' \in [Readers -> [pos : Nat, len : Nat]],
           ReaderOK(r)'
    PROVE  IndInv'
<1> USE DEF IndInv
<1>1. /\ write_head' = write_head /\ stamp' = stamp /\ owner' = owner /\ slot' = slot
      /\ wpc' = wpc /\ wpos' = wpos /\ lapped' = lapped /\ lookalikes' = lookalikes
      /\ \A x \in Readers \ {r} : /\ rpc'[x] = rpc[x]
                                  /\ position'[x] = position[x]
                                  /\ view'[x] = view[x]
  BY DEF ReadsOnly, writerVars, history
<1>2. TypeOK'
  BY <1>1 DEF TypeOK
<1>3. SlotsTile' /\ OneWriterPerSlot' /\ StampsSound' /\ StoresDone' /\ CommittedIntact'
  BY <1>1 DEF SlotsTile, OneWriterPerSlot, StampsSound, StoresDone, CommittedIntact,
              NoWriterLapped, InWindow, Intact, StampMatches, Committed, Word, Wrapped,
              CommitStampFor
<1>4. NotLappedInWindow'
  <2>1. \A x \in Readers \ {r} : Needs(x)' = Needs(x)
    BY <1>1 DEF Needs
  <2>2. \A x \in Readers \ lapped' : rpc'[x] # "panicked" /\ InWindow(Needs(x))'
    BY <1>1, <2>1 DEF NotLappedInWindow, ReaderOK, InWindow
  <2>3. \A w \in Writers \ lapped' : wpc'[w] # "idle" => InWindow(wpos[w])'
    BY <1>1 DEF NotLappedInWindow, InWindow
  <2> QED BY <2>2, <2>3 DEF NotLappedInWindow
<1>5. ReadersFollowTheLog'
  BY <1>1 DEF ReadersFollowTheLog, ReaderOK, NoWriterLapped, NoLookalikes
<1>6. ReadersPlaced' /\ ViewsBehind'
  BY <1>1 DEF ReadersPlaced, ViewsBehind, ReaderOK, NoWriterLapped, NoLookalikes, Committed
<1> QED BY <1>2, <1>3, <1>4, <1>5, <1>6

LEMMA ReaderOKBefore ==
    ASSUME IndInv, NEW r \in Readers
    PROVE  ReaderOK(r)
  BY DEF IndInv, ReaderOK, ReadersFollowTheLog, ReadersPlaced, ViewsBehind, NotLappedInWindow

LEMMA HeaderLensNat ==
    ASSUME IndInv, NEW p \in Nat, NEW len \in HeaderLens(p)
    PROVE  len \in Nat
<1> DEFINE q == owner[Word(p, 0)]
<1>1. TypeOK
  BY DEF IndInv
<1>2. Word(p, 0) \in Addr
  BY WordInMapping, RingAssumption
<1>3. q \in DOMAIN slot \cup {NoOne}
  BY <1>1, <1>2 DEF TypeOK
<1>4. q \in DOMAIN slot => slot[q].len \in Nat
  BY <1>1, SlotTypes
<1>5. SlotWords(0) \in Nat
  BY SlotWordsAtLeastTwo
<1> QED BY <1>3, <1>4, <1>5, RingAssumption DEF HeaderLens

\* While nobody is lapped the header a reader finds is the message's own.
LEMMA HeaderIsExact ==
    ASSUME IndInv, NoWriterLapped, NEW r \in Readers \ lapped,
           Committed(position[r]), rpc[r] # "handle",
           NEW len \in HeaderLens(position[r])
    PROVE  len = slot[position[r]].len
<1> DEFINE p == position[r]
<1>1. TypeOK /\ p \in DOMAIN slot /\ slot[p].state = "committed"
  BY DEF IndInv, Committed
<1>2. InWindow(p)
  BY DEF IndInv, NotLappedInWindow, Needs
<1>3. Intact(p)
  BY <1>1, <1>2 DEF IndInv, CommittedIntact
<1>4. 0 \in 0 .. slot[p].len - 1 /\ p \in Nat
  BY <1>1, SlotTypes
<1>5. owner[Word(p, 0)] = p /\ p # NoOne
  BY <1>3, <1>4 DEF Intact, NoOne
<1> QED BY <1>5 DEF HeaderLens

LEMMA CheckStampKeeps ==
    ASSUME IndInv, NEW r \in Readers, CheckStamp(r)
    PROVE  IndInv'
<1>1. TypeOK /\ ReaderOK(r)
  BY ReaderOKBefore DEF IndInv
<1>2. /\ rpc'[r] = IF StampMatches(position[r]) THEN "hit" ELSE "miss"
      /\ position' = position /\ view' = view /\ slot' = slot
      /\ lapped' = lapped /\ lookalikes' = lookalikes /\ write_head' = write_head
      /\ rpc' \in [Readers -> {"poll", "miss", "hit", "advance", "handle", "panicked"}]
      /\ \A x \in Readers \ {r} : rpc'[x] = rpc[x]
  BY <1>1 DEF CheckStamp, TypeOK, history
<1>3. ASSUME NoWriterLapped, NoLookalikes, r \notin lapped, StampMatches(position[r])
      PROVE  Committed(position[r])
  <2>1. position[r] \in DOMAIN slot \cup {write_head}
    BY <1>1, <1>3 DEF ReaderOK
  <2>2. position[r] \in 0 .. MaxHead
    BY <1>1, <2>1 DEF TypeOK
  <2> QED BY <1>3, <2>2 DEF IndInv, StampsSound, NoLookalikes
<1>4. ReadsOnly(r)
  BY <1>2 DEF ReadsOnly, CheckStamp
<1>5. ReaderOK(r)'
  BY <1>1, <1>2, <1>3 DEF ReaderOK, CheckStamp, NoWriterLapped, NoLookalikes,
                               Needs, InWindow, Committed
<1> QED BY <1>1, <1>2, <1>4, <1>5, ReadKeeps DEF TypeOK

LEMMA ReadUncommittedKeeps ==
    ASSUME IndInv, NEW r \in Readers, ReadUncommitted(r)
    PROVE  IndInv'
<1>1. TypeOK /\ ReaderOK(r)
  BY ReaderOKBefore DEF IndInv
<1>2. /\ rpc'[r] = IF FellBehind(position[r]) THEN "panicked" ELSE "poll"
      /\ position' = position /\ view' = view /\ slot' = slot
      /\ lapped' = lapped /\ lookalikes' = lookalikes /\ write_head' = write_head
      /\ rpc' \in [Readers -> {"poll", "miss", "hit", "advance", "handle", "panicked"}]
      /\ \A x \in Readers \ {r} : rpc'[x] = rpc[x]
  BY <1>1 DEF ReadUncommitted, TypeOK, history
<1>3. r \notin lapped => ~ FellBehind(position[r])
  <2>1. position[r] \in Nat /\ write_head \in Nat
    BY <1>1 DEF TypeOK
  <2>2. r \notin lapped => write_head <= position[r] + WrapSize
    BY <1>1 DEF ReaderOK, ReadUncommitted, Needs, InWindow
  <2> QED BY <2>1, <2>2, RingAssumption DEF FellBehind
<1>4. ReadsOnly(r)
  BY <1>2 DEF ReadsOnly, ReadUncommitted
<1>5. ReaderOK(r)'
  BY <1>1, <1>2, <1>3 DEF ReaderOK, ReadUncommitted, NoWriterLapped, NoLookalikes,
                               Needs, InWindow, Committed
<1> QED BY <1>1, <1>2, <1>4, <1>5, ReadKeeps DEF TypeOK

LEMMA ReadHeaderKeeps ==
    ASSUME IndInv, NEW r \in Readers, ReadHeader(r)
    PROVE  IndInv'
<1>1. TypeOK /\ ReaderOK(r)
  BY ReaderOKBefore DEF IndInv
<1>2. PICK len \in HeaderLens(position[r]) :
          IF len > WrapSize
          THEN rpc' = [rpc EXCEPT ![r] = "poll"] /\ UNCHANGED view
          ELSE /\ rpc' = [rpc EXCEPT ![r] = "advance"]
               /\ view' = [view EXCEPT ![r] = [pos |-> position[r], len |-> len]]
  BY DEF ReadHeader
<1>3. position[r] \in Nat /\ len \in Nat
  BY <1>1, HeaderLensNat DEF TypeOK
<1>4. /\ position' = position /\ slot' = slot /\ lapped' = lapped /\ lookalikes' = lookalikes
      /\ write_head' = write_head /\ ReadsOnly(r)
      /\ rpc' \in [Readers -> {"poll", "miss", "hit", "advance", "handle", "panicked"}]
      /\ view' \in [Readers -> [pos : Nat, len : Nat]]
  <2>1. CASE len > WrapSize
    BY <2>1, <1>1, <1>2 DEF ReadHeader, TypeOK, ReadsOnly, history
  <2>2. CASE ~ (len > WrapSize)
    <3>1. /\ rpc' = [rpc EXCEPT ![r] = "advance"]
          /\ view' = [view EXCEPT ![r] = [pos |-> position[r], len |-> len]]
      BY <2>2, <1>2
    <3>2. view' \in [Readers -> [pos : Nat, len : Nat]]
      BY <3>1, <1>1, <1>3 DEF TypeOK
    <3> QED BY <3>1, <3>2, <1>1 DEF ReadHeader, TypeOK, ReadsOnly, history
  <2> QED BY <2>1, <2>2
<1>5. ReaderOK(r)'
  <2>1. CASE len > WrapSize
    <3>1. rpc'[r] = "poll" /\ view' = view
      BY <2>1, <1>1, <1>2 DEF TypeOK
    <3> QED BY <3>1, <1>1, <1>4 DEF ReaderOK, ReadHeader, NoWriterLapped, NoLookalikes,
                                   Needs, InWindow
  <2>2. CASE ~ (len > WrapSize)
    <3>1. rpc'[r] = "advance" /\ view'[r] = [pos |-> position[r], len |-> len]
      BY <2>2, <1>1, <1>2 DEF TypeOK
    <3>2. NoWriterLapped /\ NoLookalikes /\ r \notin lapped => Committed(position[r])
      BY <1>1 DEF ReaderOK, ReadHeader
    <3>3. NoWriterLapped /\ NoLookalikes /\ r \notin lapped => len = slot[position[r]].len
      BY <3>2, HeaderIsExact DEF ReadHeader
    <3> QED BY <3>1, <3>2, <3>3, <1>1, <1>4
            DEF ReaderOK, ReadHeader, NoWriterLapped, NoLookalikes, Needs, InWindow, Committed
  <2> QED BY <2>1, <2>2
<1> QED BY <1>1, <1>4, <1>5, ReadKeeps DEF TypeOK

LEMMA AdvanceKeeps ==
    ASSUME IndInv, NEW r \in Readers, Advance(r)
    PROVE  IndInv'
<1>1. TypeOK /\ ReaderOK(r)
  BY ReaderOKBefore DEF IndInv
<1>2. PICK len \in HeaderLens(position[r]) : position' = [position EXCEPT ![r] = @ + len]
  BY DEF Advance
<1>3. position[r] \in Nat /\ len \in Nat /\ position'[r] = position[r] + len
  BY <1>1, <1>2, HeaderLensNat DEF TypeOK
<1>4. /\ view' = view /\ slot' = slot /\ lapped' = lapped /\ lookalikes' = lookalikes
      /\ write_head' = write_head /\ ReadsOnly(r) /\ rpc'[r] = "handle"
      /\ rpc' \in [Readers -> {"poll", "miss", "hit", "advance", "handle", "panicked"}]
      /\ position' \in [Readers -> Nat]
  BY <1>1, <1>2, <1>3 DEF Advance, TypeOK, ReadsOnly, history
<1>5. position[r] = view[r].pos
  BY <1>1 DEF ReaderOK, Advance
<1>6. ASSUME NoWriterLapped, NoLookalikes, r \notin lapped
      PROVE  /\ position'[r] \in DOMAIN slot \cup {write_head}
             /\ \A p \in DOMAIN slot : p < position'[r] => slot[p].state = "committed"
  <2>1. Committed(position[r])
    BY <1>1, <1>5, <1>6 DEF ReaderOK, Advance
  <2>2. len = slot[position[r]].len
    BY <2>1, <1>6, HeaderIsExact DEF Advance
  <2>3. position'[r] \in DOMAIN slot \cup {write_head}
    BY <2>1, <2>2, <1>3 DEF IndInv, SlotsTile, Committed
  <2>4. ASSUME NEW p \in DOMAIN slot, p < position'[r]
        PROVE  slot[p].state = "committed"
    <3>1. p \in Nat /\ (p < position[r] \/ p = position[r] \/ position[r] < p)
      BY <1>1, <1>3, SlotTypes
    <3>2. ~ (position[r] < p)
      BY <2>1, <2>2, <2>4, <3>1, <1>3 DEF IndInv, SlotsTile, Committed
    <3>3. p < position[r] => slot[p].state = "committed"
      BY <1>1, <1>6 DEF ReaderOK
    <3> QED BY <3>1, <3>2, <3>3, <2>1 DEF Committed
  <2> QED BY <2>3, <2>4
<1>7. r \notin lapped => rpc'[r] # "panicked" /\ InWindow(Needs(r))'
  BY <1>1, <1>4, <1>5 DEF ReaderOK, Advance, Needs, InWindow
<1>8. NoWriterLapped /\ NoLookalikes /\ r \notin lapped =>
          Committed(view[r].pos) /\ view[r].len = slot[view[r].pos].len
  BY <1>1 DEF ReaderOK, Advance
<1>9. position'[r] >= view[r].pos
  BY <1>3, <1>5
<1>10. ReaderOK(r)'
  BY <1>4, <1>6, <1>7, <1>8, <1>9 DEF ReaderOK, NoWriterLapped, NoLookalikes, Committed
<1> QED BY <1>1, <1>4, <1>10, ReadKeeps DEF TypeOK

LEMMA HandleKeeps ==
    ASSUME IndInv, NEW r \in Readers, Handle(r)
    PROVE  IndInv'
<1>1. TypeOK /\ ReaderOK(r)
  BY ReaderOKBefore DEF IndInv
<1>2. /\ position' = position /\ slot' = slot /\ lapped' = lapped /\ lookalikes' = lookalikes
      /\ write_head' = write_head /\ ReadsOnly(r) /\ rpc'[r] = "poll"
      /\ rpc' \in [Readers -> {"poll", "miss", "hit", "advance", "handle", "panicked"}]
      /\ view' \in [Readers -> [pos : Nat, len : Nat]]
  BY <1>1 DEF Handle, TypeOK, ReadsOnly, NoView, history
<1>3. position[r] \in Nat /\ view[r].pos \in Nat /\ write_head \in Nat
  BY <1>1 DEF TypeOK
<1>4. r \notin lapped => InWindow(position[r])
  BY <1>1, <1>3, RingAssumption DEF ReaderOK, Handle, Needs, InWindow
<1>5. r \notin lapped => rpc'[r] # "panicked" /\ InWindow(Needs(r))'
  BY <1>2, <1>4 DEF Needs, InWindow
<1>6. ReaderOK(r)'
  BY <1>1, <1>2, <1>5 DEF ReaderOK, NoWriterLapped, NoLookalikes
<1> QED BY <1>1, <1>2, <1>6, ReadKeeps DEF TypeOK

-----------------------------------------------------------------------------
(* The theorems. *)

\* An empty ring satisfies the invariant.
LEMMA InitIndInv == Init => IndInv
<1> SUFFICES ASSUME Init PROVE IndInv
  OBVIOUS
<1>1. DOMAIN slot = {}
  BY DEF Init
<1>2. TypeOK
  BY <1>1, RingAssumption DEF Init, TypeOK, NoView
<1>3. /\ SlotsTile /\ OneWriterPerSlot /\ StoresDone
      /\ CommittedIntact /\ ReadersFollowTheLog /\ ReadersPlaced /\ ViewsBehind
  BY <1>1 DEF Init, SlotsTile, OneWriterPerSlot, StoresDone,
              CommittedIntact, ReadersFollowTheLog, ReadersPlaced, ViewsBehind
<1>5. StampsSound
  BY StampWordInMapping DEF Init, StampsSound, StampMatches, CommitStampFor
<1>4. NotLappedInWindow
  BY RingAssumption DEF Init, NotLappedInWindow, InWindow, Needs
<1> QED BY <1>2, <1>3, <1>4, <1>5 DEF IndInv

\* Every step of a writer or a reader keeps it.
LEMMA NextKeeps == IndInv /\ [Next]_vars => IndInv'
<1> SUFFICES ASSUME IndInv, [Next]_vars PROVE IndInv'
  OBVIOUS
<1>1. ASSUME NEW w \in Writers, WriterStep(w) PROVE IndInv'
  BY <1>1, ReserveKeeps, UncommitKeeps, WriteHeaderKeeps, RunCallbackKeeps,
     CallbackPanicsKeeps, CommitKeeps DEF WriterStep, FinishWrite
<1>2. ASSUME NEW r \in Readers, ReaderStep(r) PROVE IndInv'
  BY <1>2, CheckStampKeeps, ReadUncommittedKeeps, ReadHeaderKeeps, AdvanceKeeps,
     HandleKeeps DEF ReaderStep
<1>3. CASE UNCHANGED vars
  BY <1>3 DEF IndInv, vars, writerVars, readerVars, history, TypeOK, SlotsTile, OneWriterPerSlot,
              NotLappedInWindow, StampsSound, StoresDone, CommittedIntact,
              ReadersFollowTheLog, ReadersPlaced, ViewsBehind, NoWriterLapped, NoLookalikes,
              InWindow,
              Needs, Intact, StampMatches, Committed, Word, Wrapped, CommitStampFor
<1> QED BY <1>1, <1>2, <1>3 DEF Next

\* The invariant holds in every state of every execution of the ring.
THEOREM Invariance == Spec => []IndInv
  BY InitIndInv, NextKeeps, PTL DEF Spec

\* Every variable of the ring keeps its type.
THEOREM TypeCorrect == Spec => []TypeOK
<1>1. IndInv => TypeOK
  BY DEF IndInv
<1> QED BY <1>1, Invariance, PTL

(* For any number of writers and readers, any sizes and any ring: while no *)
(* writer is lapped, a committed message within wrap_size of the head is   *)
(* whole and carries its stamp.                                            *)
THEOREM CommittedMessagesIntact == Spec => []CommittedIntact
<1>1. IndInv => CommittedIntact
  BY DEF IndInv
<1> QED BY <1>1, Invariance, PTL

(* A reader that was never lapped stands at a slot boundary of the log,    *)
(* with only committed messages behind it.                                 *)
THEOREM ReadersFollow == Spec => []ReadersFollowTheLog
<1>1. IndInv => ReadersFollowTheLog
  BY DEF IndInv
<1> QED BY <1>1, Invariance, PTL

(* The slice a never-lapped reader works on is the message, until the      *)
(* handlers are done.                                                      *)
THEOREM ViewsStayIntact == Spec => []ViewsIntact
<1>1. ASSUME IndInv, NoWriterLapped, NoLookalikes, NEW r \in Readers \ lapped,
             rpc[r] \in {"advance", "handle"}
      PROVE  ViewExact(r)
  <2>1. Committed(view[r].pos) /\ view[r].len = slot[view[r].pos].len
    BY <1>1 DEF IndInv, ReadersPlaced
  <2>2. InWindow(view[r].pos)
    BY <1>1 DEF IndInv, NotLappedInWindow, ViewsBehind, Needs
  <2>3. Intact(view[r].pos)
    BY <2>1, <2>2, <1>1 DEF IndInv, CommittedIntact, Committed
  <2> QED BY <2>1, <2>3 DEF ViewExact, Committed
<1>2. IndInv => ViewsIntact
  BY <1>1 DEF ViewsIntact
<1> QED BY <1>2, Invariance, PTL

-----------------------------------------------------------------------------
(* The lap test. *)

\* Every word of the log up to the head belongs to a slot.
LogCovered ==
    \A x \in 0 .. write_head - 1 : \E q \in DOMAIN slot : q <= x /\ x < q + slot[q].len

LapInv == IndInv /\ LogCovered

LEMMA LogStaysCovered == LapInv /\ [Next]_vars => LapInv'
<1> SUFFICES ASSUME LapInv, [Next]_vars PROVE LogCovered'
  BY NextKeeps DEF LapInv
<1>1. IndInv /\ TypeOK
  BY DEF LapInv, IndInv
<1>2. ASSUME NEW w \in Writers, NEW size \in Sizes, Reserve(w, size)
      PROVE  LogCovered'
  <2> DEFINE len == SlotWords(size)
  <2>1. /\ write_head' = write_head + len /\ write_head \in Nat /\ len \in Nat
        /\ DOMAIN slot' = DOMAIN slot \cup {write_head}
        /\ slot'[write_head].len = len
        /\ \A p \in DOMAIN slot : p # write_head => slot'[p] = slot[p]
    BY <1>1, <1>2, SlotWordsAtLeastTwo, RingAssumption DEF Reserve, TypeOK
  <2> HIDE DEF len
  <2>2. \A p \in DOMAIN slot : p < write_head
    BY <1>1, SlotTypes DEF IndInv, SlotsTile
  <2> SUFFICES ASSUME NEW x \in 0 .. write_head' - 1
               PROVE  \E q \in DOMAIN slot' : q <= x /\ x < q + slot'[q].len
    BY DEF LogCovered
  <2>3. CASE x < write_head
    <3>1. PICK q \in DOMAIN slot : q <= x /\ x < q + slot[q].len
      BY <2>1, <2>3 DEF LapInv, LogCovered
    <3>2. q # write_head
      BY <2>1, <2>2, <3>1
    <3> QED BY <2>1, <3>1, <3>2
  <2>4. CASE ~ (x < write_head)
    BY <2>1, <2>4
  <2> QED BY <2>3, <2>4
<1>3. ASSUME NEW w \in Writers, FinishWrite(w)
      PROVE  LogCovered'
  <2>1. wpos[w] \in DOMAIN slot
    BY <1>1, <1>3 DEF IndInv, OneWriterPerSlot, FinishWrite, Uncommit, WriteHeader, RunCallback,
           CallbackPanics, Commit
  <2>2. \/ slot' = slot
        \/ \E state \in {"committed", "hole"} : slot' = [slot EXCEPT ![wpos[w]].state = state]
    BY <1>3 DEF FinishWrite, Uncommit, WriteHeader, RunCallback, CallbackPanics, Commit, Settled
  <2>3. DOMAIN slot' = DOMAIN slot /\ \A p \in DOMAIN slot : slot'[p].len = slot[p].len
    BY <1>1, <2>1, <2>2 DEF TypeOK
  <2>4. write_head' = write_head
    BY <1>3 DEF FinishWrite, Uncommit, WriteHeader, RunCallback, CallbackPanics, Commit
  <2> QED BY <2>3, <2>4 DEF LapInv, LogCovered
<1>4. ASSUME NEW r \in Readers, ReaderStep(r)
      PROVE  LogCovered'
  BY <1>4 DEF LapInv, LogCovered, ReaderStep, CheckStamp, ReadUncommitted, ReadHeader, Advance,
              Handle
<1>5. CASE UNCHANGED vars
  BY <1>5 DEF LapInv, LogCovered, vars
<1> QED BY <1>2, <1>3, <1>4, <1>5 DEF Next, WriterStep

(* A reader that finds no stamp panics only when a newer message holds the *)
(* place one lap after its position, and gets None only while no newer     *)
(* message has words of its slot.                                          *)
THEOREM LapTestDecides == Spec => LapTestExact
<1> DEFINE Told(r) ==
      LET p == position[r]
      IN  /\ rpc[r] = "miss" /\ rpc'[r] = "panicked" => CameRound(p)
          /\ rpc[r] = "miss" /\ rpc'[r] = "poll" /\ p \in DOMAIN slot => ~ Overlaid(p)
<1>1. Init => LapInv
  BY InitIndInv DEF LapInv, Init, LogCovered
<1>2. ASSUME LapInv, [Next]_vars, NEW r \in Readers
      PROVE  Told(r)
  <2> DEFINE p == position[r]
  <2>1. TypeOK /\ IndInv /\ p \in Nat /\ write_head \in Nat /\ WrapSize \in Nat
    BY <1>2, RingAssumption DEF LapInv, IndInv, TypeOK
  <2>2. rpc[r] = "miss" /\ rpc'[r] # "miss" =>
           rpc'[r] = IF FellBehind(p) THEN "panicked" ELSE "poll"
    <3>1. CASE UNCHANGED vars
      BY <3>1 DEF vars
    <3>2. ASSUME NEW w \in Writers, WriterStep(w) PROVE rpc' = rpc
      BY <3>2 DEF WriterStep, FinishWrite, Reserve, Uncommit, WriteHeader, RunCallback,
                  CallbackPanics, Commit, readerVars
    <3>3. ASSUME NEW x \in Readers, ReaderStep(x), rpc[r] = "miss", rpc'[r] # "miss"
          PROVE  rpc'[r] = IF FellBehind(p) THEN "panicked" ELSE "poll"
      <4>1. x = r
        BY <2>1, <3>3 DEF ReaderStep, CheckStamp, ReadUncommitted, ReadHeader, Advance, Handle,
                          TypeOK
      <4>2. ReadUncommitted(r)
        BY <3>3, <4>1 DEF ReaderStep, CheckStamp, ReadHeader, Advance, Handle
      <4> QED BY <2>1, <4>2 DEF ReadUncommitted, TypeOK
    <3> QED BY <1>2, <3>1, <3>2, <3>3 DEF Next
  <2>3. FellBehind(p) => CameRound(p)
    BY <1>2, <2>1 DEF FellBehind, CameRound, LapInv, LogCovered
  <2>4. ASSUME ~ FellBehind(p), p \in DOMAIN slot
        PROVE  ~ Overlaid(p)
    <3>1. SlotsTile /\ InWindow(p)
      BY <2>1, <2>4, SlotTypes DEF IndInv, SlotsTile, FellBehind, InWindow
    <3>2. ASSUME NEW q \in DOMAIN slot, p < q
          PROVE  SlotAddrs(p) \cap SlotAddrs(q) = {}
      <4>1. InWindow(q) /\ p # q
        BY <2>1, <2>4, <3>1, <3>2, SlotTypes DEF InWindow
      <4> QED BY <2>1, <2>4, <3>1, <4>1, OthersDisjoint DEF SlotAddrs
    <3> QED BY <3>2 DEF Overlaid
  <2> HIDE DEF p
  <2>5. "panicked" # "poll" /\ "miss" # "poll" /\ "miss" # "panicked"
    OBVIOUS
  <2> QED BY <2>2, <2>3, <2>4, <2>5 DEF p
<1>3. LapInv /\ [Next]_vars => [\A r \in Readers : Told(r)]_vars
  BY <1>2
<1> QED BY <1>1, <1>3, LogStaysCovered, PTL DEF Spec, LapTestExact

-----------------------------------------------------------------------------
(* Stamp words of slots in flight, and holes: unread until the commit. *)

\* A writer past its un-commit finds its stamp word cleared until it commits.
StampsGone ==
    NoWriterLapped =>
        \A w \in Writers : wpc[w] \in {"header", "callback", "commit"} =>
            stamp[Word(wpos[w], 1)] = 0

StampInv == IndInv /\ StampsGone /\ UncommittedUnreadable

\* A storing step leaves its stamp word cleared, or completes the slot with its stamp;
\* stamps are imitated in other words of the slot only.
StampStep(w, vals, state) ==
    /\ StoresInSlot(w, vals, state)
    /\ NoWriterLapped =>
          \/ stamp'[Word(wpos[w], 1)] = 0
          \/ /\ stamp'[Word(wpos[w], 1)] = CommitStampFor(wpos[w])
             /\ state = "committed"
    /\ wpc'[w] \in {"header", "callback", "commit"} => wpos'[w] = wpos[w] /\ state = "reserved"
    /\ wpc'[w] # "uncommit"
    /\ \A u \in Writers \ {w} : wpos'[u] = wpos[u]
    /\ \A p \in lookalikes' \ lookalikes :
          \E i \in 0 .. slot[wpos[w]].len - 1 : i # 1 /\ Word(p, 1) = Word(wpos[w], i)

\* Bytes stored beside the stamp word leave it cleared.
LEMMA BytesBesideStamp ==
    ASSUME StampInv, NEW w \in Writers, wpc[w] \in {"header", "callback", "commit"},
           NEW I, I \subseteq (0 .. slot[wpos[w]].len - 1) \ {1},
           StoreBytes(wpos[w], {Word(wpos[w], i) : i \in I})
    PROVE  \E vals :
              /\ DOMAIN vals \subseteq SlotAddrs(wpos[w])
              /\ Store(wpos[w], vals)
              /\ lookalikes \subseteq lookalikes' /\ lookalikes' \subseteq 0 .. MaxHead
              /\ NoWriterLapped => stamp'[Word(wpos[w], 1)] = 0
              /\ \A p \in lookalikes' \ lookalikes :
                    \E i \in 0 .. slot[wpos[w]].len - 1 : i # 1 /\ Word(p, 1) = Word(wpos[w], i)
<1> DEFINE q == wpos[w]
           A == {Word(q, i) : i \in I}
<1>1. TypeOK /\ q \in DOMAIN slot
  BY DEF StampInv, IndInv, OneWriterPerSlot
<1>2. A \subseteq SlotAddrs(q)
  BY DEF SlotAddrs
<1>3. Word(q, 1) \in Addr /\ Word(q, 1) \notin A
  <2>1. q \in Nat /\ slot[q].len \in Nat
    BY <1>1, SlotTypes
  <2>2. Wrapped(q) \in Nat
    BY <2>1, RingAssumption DEF Wrapped
  <2>3. Word(q, 1) \in Addr
    BY <2>1, StampWordInMapping
  <2> QED BY <2>1, <2>2, <2>3 DEF Word
<1>4. PICK vals : /\ DOMAIN vals = A
                  /\ Store(q, vals)
                  /\ lookalikes' = lookalikes \cup Imitated(vals)
                  /\ lookalikes \subseteq lookalikes' /\ lookalikes' \subseteq 0 .. MaxHead
  <2> HIDE DEF A
  <2> QED BY <1>1, <1>2, BytesStored DEF A
<1>5. NoWriterLapped => stamp'[Word(q, 1)] = 0
  <2>1. stamp'[Word(q, 1)] = stamp[Word(q, 1)]
    BY <1>3, <1>4 DEF Store
  <2> QED BY <2>1 DEF StampInv, StampsGone
<1>6. ASSUME NEW p \in lookalikes' \ lookalikes
      PROVE  \E i \in 0 .. slot[q].len - 1 : i # 1 /\ Word(p, 1) = Word(q, i)
  <2>1. Word(p, 1) \in A
    BY <1>4, <1>6 DEF Imitated
  <2> QED BY <2>1
<1> HIDE DEF A
<1> QED BY <1>2, <1>4, <1>5, <1>6

\* Every step of a writer after its reservation is one of these.
LEMMA FinishStamps ==
    ASSUME StampInv, NEW w \in Writers, FinishWrite(w)
    PROVE  \E vals : \E state \in {"reserved", "committed", "hole"} : StampStep(w, vals, state)
<1> DEFINE q == wpos[w]
<1>1. /\ TypeOK /\ q \in DOMAIN slot /\ slot[q].state = "reserved"
      /\ slot[q].len \in Nat /\ 0 \in 0 .. slot[q].len - 1 /\ 1 \in 0 .. slot[q].len - 1
  <2>1. q \in DOMAIN slot /\ slot[q].state = "reserved"
    BY DEF StampInv, IndInv, OneWriterPerSlot, FinishWrite, Uncommit, WriteHeader, RunCallback,
           CallbackPanics, Commit
  <2> QED BY <2>1, SlotTypes DEF StampInv, IndInv
<1>2. CASE Uncommit(w)
  <2> DEFINE vals == [a \in {Word(q, 1)} |-> 0]
  <2>1. /\ Store(q, vals) /\ DOMAIN vals \subseteq SlotAddrs(q)
        /\ stamp'[Word(q, 1)] = 0
        /\ lookalikes \subseteq lookalikes' /\ lookalikes' \subseteq 0 .. MaxHead
    BY <1>1, <1>2, StampStored DEF Uncommit
  <2>2. lookalikes' = lookalikes /\ wpos' = wpos /\ wpc'[w] = "header"
    BY <1>1, <1>2 DEF Uncommit, StoreStamp, TypeOK
  <2> HIDE DEF vals
  <2>3. StoresInSlot(w, vals, "reserved")
    BY <1>1, <1>2, <2>1 DEF StoresInSlot, Uncommit, TypeOK
  <2> QED BY <2>1, <2>2, <2>3 DEF StampStep
<1>3. CASE WriteHeader(w)
  <2>1. StoreBytes(q, {Word(q, i) : i \in {0}})
    <3>1. {Word(q, i) : i \in {0}} = {Word(q, 0)}
      OBVIOUS
    <3> QED BY <1>3, <3>1 DEF WriteHeader
  <2>2. {0} \subseteq (0 .. slot[q].len - 1) \ {1} /\ wpc[w] = "header"
    BY <1>1, <1>3 DEF WriteHeader
  <2>3. PICK vals :
              /\ DOMAIN vals \subseteq SlotAddrs(q)
              /\ Store(q, vals)
              /\ lookalikes \subseteq lookalikes' /\ lookalikes' \subseteq 0 .. MaxHead
              /\ NoWriterLapped => stamp'[Word(q, 1)] = 0
              /\ \A p \in lookalikes' \ lookalikes :
                    \E i \in 0 .. slot[q].len - 1 : i # 1 /\ Word(p, 1) = Word(q, i)
    BY <2>1, <2>2, BytesBesideStamp
  <2>4. StoresInSlot(w, vals, "reserved")
    BY <1>1, <1>3, <2>3 DEF StoresInSlot, WriteHeader, TypeOK
  <2>5. wpos' = wpos /\ wpc'[w] = "callback"
    BY <1>1, <1>3 DEF WriteHeader, TypeOK
  <2> QED BY <2>3, <2>4, <2>5 DEF StampStep
<1>4. CASE RunCallback(w)
  <2>1. StoreBytes(q, {Word(q, i) : i \in 2 .. slot[q].len - 1})
    BY <1>4 DEF RunCallback, Payload
  <2>2. 2 .. slot[q].len - 1 \subseteq (0 .. slot[q].len - 1) \ {1} /\ wpc[w] = "callback"
    BY <1>1, <1>4 DEF RunCallback
  <2>3. PICK vals :
              /\ DOMAIN vals \subseteq SlotAddrs(q)
              /\ Store(q, vals)
              /\ lookalikes \subseteq lookalikes' /\ lookalikes' \subseteq 0 .. MaxHead
              /\ NoWriterLapped => stamp'[Word(q, 1)] = 0
              /\ \A p \in lookalikes' \ lookalikes :
                    \E i \in 0 .. slot[q].len - 1 : i # 1 /\ Word(p, 1) = Word(q, i)
    BY <2>1, <2>2, BytesBesideStamp
  <2>4. StoresInSlot(w, vals, "reserved")
    BY <1>1, <1>4, <2>3 DEF StoresInSlot, RunCallback, TypeOK
  <2>5. wpos' = wpos /\ wpc'[w] = "commit"
    BY <1>1, <1>4 DEF RunCallback, TypeOK
  <2> QED BY <2>3, <2>4, <2>5 DEF StampStep
<1>5. CASE CallbackPanics(w)
  <2>1. PICK n \in 2 .. slot[q].len : StoreBytes(q, {Word(q, i) : i \in 2 .. n - 1})
    BY <1>5 DEF CallbackPanics
  <2>2. 2 .. n - 1 \subseteq (0 .. slot[q].len - 1) \ {1} /\ wpc[w] = "callback"
    BY <1>1, <1>5 DEF CallbackPanics
  <2>3. PICK vals :
              /\ DOMAIN vals \subseteq SlotAddrs(q)
              /\ Store(q, vals)
              /\ lookalikes \subseteq lookalikes' /\ lookalikes' \subseteq 0 .. MaxHead
              /\ NoWriterLapped => stamp'[Word(q, 1)] = 0
              /\ \A p \in lookalikes' \ lookalikes :
                    \E i \in 0 .. slot[q].len - 1 : i # 1 /\ Word(p, 1) = Word(q, i)
    BY <2>1, <2>2, BytesBesideStamp
  <2>4. StoresInSlot(w, vals, "hole")
    BY <1>1, <1>5, <2>3 DEF StoresInSlot, CallbackPanics, TypeOK, Settled
  <2>5. wpc'[w] = "idle" /\ \A u \in Writers \ {w} : wpos'[u] = wpos[u]
    BY <1>1, <1>5 DEF CallbackPanics, TypeOK
  <2> QED BY <2>3, <2>4, <2>5 DEF StampStep
<1>6. CASE Commit(w)
  <2> DEFINE vals == [a \in {Word(q, 1)} |-> CommitStampFor(q)]
  <2>1. /\ Store(q, vals) /\ DOMAIN vals \subseteq SlotAddrs(q)
        /\ stamp'[Word(q, 1)] = CommitStampFor(q)
        /\ lookalikes \subseteq lookalikes' /\ lookalikes' \subseteq 0 .. MaxHead
    BY <1>1, <1>6, StampStored DEF Commit
  <2>2. /\ lookalikes' = lookalikes /\ wpc'[w] = "idle"
        /\ \A u \in Writers \ {w} : wpos'[u] = wpos[u]
    BY <1>1, <1>6 DEF Commit, StoreStamp, TypeOK
  <2> HIDE DEF vals
  <2>3. StoresInSlot(w, vals, "committed")
    BY <1>1, <1>6, <2>1 DEF StoresInSlot, Commit, TypeOK, Settled
  <2> QED BY <2>1, <2>2, <2>3 DEF StampStep
<1> QED BY <1>2, <1>3, <1>4, <1>5, <1>6 DEF FinishWrite

\* A storing step keeps the stamp words of all slots in flight, and of all holes, unread.
LEMMA StampStore ==
    ASSUME StampInv, IndInv', NEW w \in Writers, NEW vals,
           NEW state \in {"reserved", "committed", "hole"}, StampStep(w, vals, state)
    PROVE  StampInv'
<1> DEFINE q == wpos[w]
<1>1. /\ IndInv /\ TypeOK /\ StoresInSlot(w, vals, state)
      /\ write_head' = write_head /\ lapped' = lapped
  BY DEF StampInv, IndInv, StampStep, StoresInSlot
<1>2. /\ q \in DOMAIN slot /\ DOMAIN slot' = DOMAIN slot /\ slot'[q].state = state
      /\ \A p \in DOMAIN slot : p # q => slot'[p] = slot[p]
  BY <1>1, StoreFrame
<1>3. \A u \in Writers : u # w => wpc'[u] = wpc[u] /\ wpos'[u] = wpos[u]
  BY <1>1 DEF StoresInSlot, StampStep, TypeOK
<1>4. NoWriterLapped' <=> NoWriterLapped
  BY <1>1 DEF NoWriterLapped
<1>5. ASSUME NoWriterLapped, NEW p \in DOMAIN slot, p # q, InWindow(p)
      PROVE  stamp'[Word(p, 1)] = stamp[Word(p, 1)]
  <2>1. 1 \in 0 .. slot[p].len - 1
    BY <1>1, SlotTypes
  <2> QED BY <1>1, <1>5, <2>1, StoreLeavesOthers
<1>6. StampsGone'
  <2> SUFFICES ASSUME NoWriterLapped, NEW u \in Writers,
                      wpc'[u] \in {"header", "callback", "commit"}
               PROVE  stamp'[Word(wpos'[u], 1)] = 0
    BY <1>4 DEF StampsGone, Word, Wrapped
  <2>1. CASE u = w
    BY <2>1 DEF StampStep
  <2>2. CASE u # w
    <3>1. wpc[u] = wpc'[u] /\ wpos'[u] = wpos[u] /\ wpc[u] # "idle"
      BY <1>3, <2>2
    <3>2. wpos[u] \in DOMAIN slot /\ wpos[u] # q
      BY <1>1, <2>2, <3>1 DEF IndInv, OneWriterPerSlot, StoresInSlot
    <3>3. InWindow(wpos[u])
      BY <1>1, <3>1 DEF IndInv, NotLappedInWindow, NoWriterLapped
    <3>4. stamp[Word(wpos[u], 1)] = 0
      BY <3>1 DEF StampInv, StampsGone
    <3> QED BY <1>5, <3>1, <3>2, <3>3, <3>4
  <2> QED BY <2>1, <2>2
<1>7. UncommittedUnreadable'
  <2> SUFFICES ASSUME NoWriterLapped, NEW p \in DOMAIN slot, InWindow(p),
                      stamp'[Word(p, 1)] = CommitStampFor(p)
               PROVE  Committed(p)' \/ \E u \in Writers : wpc'[u] = "uncommit" /\ wpos'[u] = p
    BY <1>1, <1>2, <1>4 DEF UncommittedUnreadable, InWindow, StampMatches, CommitStampFor, Word,
                            Wrapped
  <2>1. CASE p = q
    <3>1. CommitStampFor(q) # 0
      BY <1>1, <1>2, SlotTypes DEF CommitStampFor
    <3> QED BY <1>2, <2>1, <3>1 DEF StampStep, Committed
  <2>2. CASE p # q
    <3>1. StampMatches(p)
      BY <1>5, <2>2 DEF StampMatches
    <3>2. Committed(p) \/ \E u \in Writers : wpc[u] = "uncommit" /\ wpos[u] = p
      BY <3>1 DEF StampInv, UncommittedUnreadable
    <3>3. Committed(p) => Committed(p)'
      BY <1>2, <2>2 DEF Committed
    <3> QED BY <1>3, <2>2, <3>2, <3>3
  <2> QED BY <2>1, <2>2
<1> QED BY <1>6, <1>7 DEF StampInv

\* A reservation stores nothing; the new slot waits for its un-commit.
LEMMA StampReserve ==
    ASSUME StampInv, IndInv', NEW w \in Writers, NEW size \in Sizes, Reserve(w, size)
    PROVE  StampInv'
<1> DEFINE n == SlotWords(size)
<1>1. /\ IndInv /\ TypeOK /\ SlotsTile
      /\ write_head' = write_head + n /\ write_head \in Nat /\ n \in Nat
      /\ DOMAIN slot' = DOMAIN slot \cup {write_head}
      /\ stamp' = stamp /\ lapped \subseteq lapped'
  BY SlotWordsAtLeastTwo, RingAssumption DEF StampInv, IndInv, TypeOK, Reserve
<1> HIDE DEF n
<1>2. \A p \in DOMAIN slot : p # write_head /\ slot'[p] = slot[p]
  <2>1. write_head \notin DOMAIN slot
    BY <1>1, SlotTypes DEF SlotsTile
  <2> QED BY <2>1 DEF Reserve
<1>3. NoWriterLapped' => NoWriterLapped
  BY <1>1 DEF NoWriterLapped
<1>4. /\ wpc[w] = "idle" /\ wpc'[w] = "uncommit" /\ wpos'[w] = write_head
      /\ \A u \in Writers \ {w} : wpc'[u] = wpc[u] /\ wpos'[u] = wpos[u]
  BY <1>1 DEF Reserve, TypeOK
<1>5. StampsGone'
  BY <1>1, <1>3, <1>4 DEF StampInv, StampsGone, Word, Wrapped
<1>6. UncommittedUnreadable'
  <2> SUFFICES ASSUME NoWriterLapped, NEW p \in DOMAIN slot', InWindow(p)', StampMatches(p)'
               PROVE  Committed(p)' \/ \E u \in Writers : wpc'[u] = "uncommit" /\ wpos'[u] = p
    BY <1>3 DEF UncommittedUnreadable
  <2>1. CASE p = write_head
    BY <1>4, <2>1
  <2>2. CASE p # write_head
    <3>1. p \in DOMAIN slot /\ StampMatches(p)
      BY <1>1, <2>2 DEF StampMatches, CommitStampFor, Word, Wrapped
    <3>2. InWindow(p)
      BY <1>1, <3>1, SlotTypes DEF InWindow
    <3>3. Committed(p) \/ \E u \in Writers : wpc[u] = "uncommit" /\ wpos[u] = p
      BY <3>1, <3>2 DEF StampInv, UncommittedUnreadable
    <3>4. Committed(p) => Committed(p)'
      BY <1>1, <1>2, <3>1 DEF Committed
    <3>5. \A u \in Writers : wpc[u] = "uncommit" => u # w
      BY <1>4
    <3> QED BY <1>4, <3>3, <3>4, <3>5
  <2> QED BY <2>1, <2>2
<1> QED BY <1>5, <1>6 DEF StampInv

\* Steps that store nothing and move no writer.
LEMMA StampReads ==
    ASSUME StampInv, IndInv', UNCHANGED <<write_head, stamp, owner, slot, writerVars, history>>
    PROVE  StampInv'
<1>1. /\ write_head' = write_head /\ stamp' = stamp /\ slot' = slot
      /\ wpc' = wpc /\ wpos' = wpos /\ lapped' = lapped
  BY DEF writerVars, history
<1> QED BY <1>1 DEF StampInv, StampsGone, UncommittedUnreadable, NoWriterLapped, InWindow,
       Committed, StampMatches, Word, Wrapped, CommitStampFor

\* Steps of readers, and stuttering, are of that kind.
LEMMA OthersOnlyRead ==
    ASSUME UNCHANGED vars \/ \E r \in Readers : ReaderStep(r)
    PROVE  UNCHANGED <<write_head, stamp, owner, slot, writerVars, history>>
<1>1. CASE UNCHANGED vars
  BY <1>1 DEF vars, writerVars, history
<1>2. ASSUME NEW r \in Readers, ReaderStep(r)
      PROVE  UNCHANGED <<write_head, stamp, owner, slot, writerVars, history>>
  BY <1>2 DEF ReaderStep, CheckStamp, ReadUncommitted, ReadHeader, Advance, Handle
<1> QED BY <1>1, <1>2

LEMMA StampInvInit == Init => StampInv
<1> SUFFICES ASSUME Init PROVE StampInv
  OBVIOUS
<1>1. DOMAIN slot = {}
  BY DEF Init
<1> QED BY <1>1, InitIndInv DEF Init, StampInv, StampsGone, UncommittedUnreadable

LEMMA StampInvNext == StampInv /\ [Next]_vars => StampInv'
<1> SUFFICES ASSUME StampInv, [Next]_vars PROVE StampInv'
  OBVIOUS
<1>1. IndInv'
  BY NextKeeps DEF StampInv
<1>2. ASSUME NEW w \in Writers, WriterStep(w) PROVE StampInv'
  BY <1>1, <1>2, StampReserve, FinishStamps, StampStore DEF WriterStep
<1>3. CASE UNCHANGED vars \/ \E r \in Readers : ReaderStep(r)
  BY <1>1, <1>3, OthersOnlyRead, StampReads
<1> QED BY <1>2, <1>3 DEF Next

(* For any contents of headers and payloads: while no writer is lapped, a  *)
(* slot in the window whose writer is past the un-commit, or that was left *)
(* as a hole, does not carry its stamp unless it is committed.             *)
THEOREM UncommittedStaysUnread == Spec => []UncommittedUnreadable
<1>1. StampInv => UncommittedUnreadable
  BY DEF StampInv
<1> QED BY <1>1, StampInvInit, StampInvNext, PTL DEF Spec

-----------------------------------------------------------------------------
(* Messages of one length that divides the ring: no late reader finds the  *)
(* stamp of a message that is not whole.                                   *)

\* Different multiples of d are at least d apart.
LEMMA MultiplesApart ==
    ASSUME NEW d \in Nat \ {0}, NEW a \in Nat, NEW b \in Nat, a % d = 0, b % d = 0, a < b
    PROVE  a + d <= b
<1> DEFINE i == a \div d
           j == b \div d
<1>1. i \in Nat /\ j \in Nat /\ a = d * i /\ b = d * j
  OBVIOUS
<1> HIDE DEF i, j
<1>2. i < j
  <2> SUFFICES ASSUME ~(i < j) PROVE FALSE
    OBVIOUS
  <2>1. i - j \in Nat
    BY <1>1
  <2>2. d * (i - j) \in Nat
    BY <2>1
  <2>3. d * (i - j) = d * i - d * j
    BY <1>1
  <2> QED BY <1>1, <2>2, <2>3
<1>3. j - i - 1 \in Nat
  BY <1>1, <1>2
<1>4. d * (j - i - 1) \in Nat
  BY <1>3
<1>5. d * (j - i - 1) = d * j - d * i - d
  BY <1>1
<1> QED BY <1>1, <1>4, <1>5

LEMMA MultipleMod ==
    ASSUME NEW d \in Nat \ {0}, NEW m \in Nat
    PROVE  (d * m) % d = 0
<1> DEFINE x == d * m
           r == x % d
           k == m - (x \div d)
<1>1. x \in Nat
  OBVIOUS
<1>2. r \in 0 .. d - 1 /\ (x \div d) \in Int /\ x = d * (x \div d) + r
  <2> HIDE DEF x
  <2> QED BY <1>1
<1>3. k \in Int /\ r = d * k
  BY <1>2
<1> HIDE DEF x, k
<1>4. k = 0
  <2>1. ASSUME k >= 1 PROVE FALSE
    <3>1. d * (k - 1) \in Nat
      BY <1>3, <2>1
    <3>2. d * (k - 1) = d * k - d
      BY <1>3
    <3> QED BY <1>2, <1>3, <3>1, <3>2
  <2>2. ASSUME k <= -1 PROVE FALSE
    <3>1. d * (-1 - k) \in Nat
      BY <1>3, <2>2
    <3>2. d * (-1 - k) = -d - d * k
      BY <1>3
    <3> QED BY <1>2, <1>3, <3>1, <3>2
  <2> QED BY <1>3, <2>1, <2>2
<1> QED BY <1>3, <1>4

\* Wrapping around a multiple of d keeps multiples of d.
LEMMA MultiplesWrap ==
    ASSUME NEW d \in Nat \ {0}, NEW n \in Nat \ {0}, NEW a \in Nat, n % d = 0, a % d = 0
    PROVE  (a % n) % d = 0
<1> DEFINE k == n \div d
           i == a \div d
           q == a \div n
<1>1. /\ k \in Nat /\ i \in Nat /\ q \in Nat
      /\ n = d * k /\ a = d * i /\ a = n * q + (a % n) /\ (a % n) \in Nat
  OBVIOUS
<1> DEFINE m == i - k * q
<1>2. m \in Int /\ (a % n) = d * m
  <2> HIDE DEF k, i, q
  <2>1. d * m = d * i - d * (k * q)
    BY <1>1
  <2>2. d * (k * q) = (d * k) * q
    BY <1>1
  <2> QED BY <1>1, <2>1, <2>2
<1> HIDE DEF m
<1>3. m \in Nat
  BY <1>1, <1>2
<1> QED BY <1>2, <1>3, MultipleMod

\* Adding one more d to a multiple of d.
LEMMA NextMultiple ==
    ASSUME NEW d \in Nat \ {0}, NEW a \in Nat, a % d = 0
    PROVE  (a + d) % d = 0
<1>1. ((a + d) % d) = (a % d) + d \/ ((a + d) % d) = (a % d) + d - d
  <2>1. d \in 0 .. d
    OBVIOUS
  <2> QED BY <2>1, ModAdd
<1>2. ((a + d) % d) \in 0 .. d - 1
  OBVIOUS
<1> QED BY <1>1, <1>2


\* Slots of one length start at its multiples.
SlotsAligned ==
    \A len \in 2 .. WrapSize : Uniform(len) =>
        \A p \in DOMAIN slot \cup {write_head} : p % len = 0

\* Bytes lie where no slot of that length has its stamp.
LookalikesApart ==
    \A len \in 2 .. WrapSize : Uniform(len) => \A p \in lookalikes : p % len # 0

UniformInv == StampInv /\ SlotsAligned /\ LookalikesApart /\ UniformSlotsNeverTorn

\* Two slots of one length lie over each other word by word or share no word.
LEMMA UniformWords ==
    ASSUME NEW len \in 2 .. WrapSize, WrapSize % len = 0,
           NEW p \in Nat, NEW q \in Nat, p % len = 0, q % len = 0,
           NEW i \in 0 .. len - 1, NEW j \in 0 .. len - 1, Word(p, i) = Word(q, j)
    PROVE  Wrapped(p) = Wrapped(q) /\ i = j
<1>1. len \in Nat \ {0} /\ WrapSize \in Nat \ {0}
  BY RingAssumption
<1>2. /\ Wrapped(p) \in Nat /\ Wrapped(q) \in Nat
      /\ Wrapped(p) % len = 0 /\ Wrapped(q) % len = 0
  <2>1. (p % WrapSize) \in Nat /\ (q % WrapSize) \in Nat
    BY <1>1
  <2>2. (p % WrapSize) % len = 0 /\ (q % WrapSize) % len = 0
    BY <1>1, MultiplesWrap
  <2> QED BY <2>1, <2>2 DEF Wrapped
<1>3. Wrapped(p) + len <= Wrapped(q) \/ Wrapped(q) + len <= Wrapped(p) \/ Wrapped(p) = Wrapped(q)
  BY <1>1, <1>2, MultiplesApart
<1> QED BY <1>1, <1>2, <1>3 DEF Word

\* A storing step: slots elsewhere are as they were, and the stamps of those the slot
\* lies over are gone.
LEMMA UniformStore ==
    ASSUME UniformInv, StampInv', NEW w \in Writers, NEW vals,
           NEW state \in {"reserved", "committed", "hole"}, StampStep(w, vals, state)
    PROVE  UniformInv'
<1> DEFINE q == wpos[w]
<1>1. /\ StampInv /\ IndInv /\ TypeOK /\ StoresInSlot(w, vals, state)
      /\ write_head' = write_head /\ lapped' = lapped
  BY DEF UniformInv, StampInv, IndInv, StampStep, StoresInSlot
<1>2. /\ q \in DOMAIN slot /\ DOMAIN slot' = DOMAIN slot
      /\ \A p \in DOMAIN slot : slot'[p].len = slot[p].len
      /\ slot'[q].state = state
  BY <1>1, StoreFrame
<1>3. \A len \in 2 .. WrapSize : Uniform(len)' => Uniform(len)
  BY <1>2 DEF Uniform
<1>4. SlotsAligned'
  BY <1>1, <1>2, <1>3 DEF UniformInv, SlotsAligned
<1>5. ASSUME NEW len \in 2 .. WrapSize, Uniform(len)
      PROVE  /\ q % len = 0 /\ q \in Nat /\ slot[q].len = len /\ WrapSize % len = 0
             /\ 1 \in 0 .. len - 1 /\ len \in Nat
             /\ \A p \in DOMAIN slot : p \in Nat /\ p % len = 0 /\ slot[p].len = len
  BY <1>1, <1>2, <1>5, SlotTypes, RingAssumption DEF UniformInv, SlotsAligned, Uniform
<1>6. LookalikesApart'
  <2> SUFFICES ASSUME NEW len \in 2 .. WrapSize, Uniform(len), NEW p \in lookalikes', p % len = 0
               PROVE  FALSE
    BY <1>3 DEF LookalikesApart
  <2>1. p \notin lookalikes
    BY DEF UniformInv, LookalikesApart
  <2>2. PICK i \in 0 .. slot[q].len - 1 : i # 1 /\ Word(p, 1) = Word(q, i)
    BY <2>1 DEF StampStep
  <2>3. p \in Nat
    BY <1>1, RingAssumption DEF StoresInSlot
  <2> QED BY <1>5, <2>2, <2>3, UniformWords
<1>7. ASSUME NoWriterLapped, NEW len \in 2 .. WrapSize, Uniform(len),
             NEW p \in DOMAIN slot, stamp'[Word(p, 1)] = CommitStampFor(p)
      PROVE  Intact(p)'
  <2>1. CASE Wrapped(p) = Wrapped(q)
    <3>1. stamp'[Word(q, 1)] = CommitStampFor(p)
      BY <1>7, <2>1 DEF Word
    <3>2. p = q /\ state = "committed"
      <4>1. p \in Nat /\ q \in Nat
        BY <1>5, <1>7
      <4> QED BY <1>7, <3>1, <4>1 DEF StampStep, CommitStampFor
    <3>3. InWindow(p)'
      <4>1. InWindow(q)
        BY <1>1, <1>7 DEF IndInv, NotLappedInWindow, NoWriterLapped, StoresInSlot
      <4> QED BY <1>1, <3>2, <4>1 DEF InWindow
    <3>4. NoWriterLapped' /\ slot'[p].state = "committed" /\ p \in DOMAIN slot'
      BY <1>1, <1>2, <1>7, <3>2 DEF NoWriterLapped
    <3> QED BY <3>3, <3>4 DEF StampInv, IndInv, CommittedIntact
  <2>2. CASE Wrapped(p) # Wrapped(q)
    <3>1. \A i, j \in 0 .. len - 1 : Word(p, i) # Word(q, j)
      BY <1>5, <1>7, <2>2, UniformWords
    <3>2. DOMAIN vals \subseteq {Word(q, j) : j \in 0 .. len - 1}
      BY <1>1, <1>5, <1>7 DEF StoresInSlot, SlotAddrs
    <3>3. \A i \in 0 .. len - 1 : Word(p, i) \in Addr /\ Word(p, i) \notin DOMAIN vals
      BY <1>1, <1>5, <1>7, <3>1, <3>2, SlotInMapping
    <3>4. \A i \in 0 .. len - 1 : /\ owner'[Word(p, i)] = owner[Word(p, i)]
                                  /\ stamp'[Word(p, i)] = stamp[Word(p, i)]
      BY <1>1, <3>3, StoreFrame
    <3>5. StampMatches(p)
      BY <1>5, <1>7, <3>4 DEF StampMatches
    <3>6. Intact(p)
      BY <1>7, <3>5 DEF UniformInv, UniformSlotsNeverTorn
    <3>7. slot'[p].len = len /\ slot[p].len = len
      BY <1>2, <1>5, <1>7
    <3>8. \A i \in 0 .. slot'[p].len - 1 : owner'[Word(p, i)] = p
      BY <3>4, <3>6, <3>7 DEF Intact
    <3>9. StampMatches(p)'
      BY <1>7 DEF StampMatches, Word, Wrapped, CommitStampFor
    <3> QED BY <3>8, <3>9 DEF Intact, Word, Wrapped
  <2> QED BY <2>1, <2>2
<1>8. UniformSlotsNeverTorn'
  <2> SUFFICES ASSUME NoWriterLapped, NEW len \in 2 .. WrapSize, Uniform(len),
                      NEW p \in DOMAIN slot, stamp'[Word(p, 1)] = CommitStampFor(p)
               PROVE  Intact(p)'
    BY <1>1, <1>2, <1>3 DEF UniformSlotsNeverTorn, NoWriterLapped, StampMatches, Word, Wrapped,
                            CommitStampFor
  <2> QED BY <1>7
<1> QED BY <1>4, <1>6, <1>8 DEF UniformInv

\* A reservation stores nothing; no bytes look like the stamp of the new slot.
LEMMA UniformReserve ==
    ASSUME UniformInv, StampInv', NEW w \in Writers, NEW size \in Sizes, Reserve(w, size)
    PROVE  UniformInv'
<1> DEFINE n == SlotWords(size)
<1>1. /\ IndInv /\ TypeOK /\ SlotsTile
      /\ write_head' = write_head + n /\ write_head \in Nat /\ n \in Nat
      /\ DOMAIN slot' = DOMAIN slot \cup {write_head}
      /\ slot'[write_head].len = n
      /\ stamp' = stamp /\ owner' = owner /\ lapped \subseteq lapped'
      /\ lookalikes' = lookalikes
  BY SlotWordsAtLeastTwo, RingAssumption DEF UniformInv, StampInv, IndInv, TypeOK, Reserve
<1> HIDE DEF n
<1>2. write_head \notin DOMAIN slot
  BY <1>1, SlotTypes DEF SlotsTile
<1>3. \A p \in DOMAIN slot : slot'[p] = slot[p]
  BY <1>2 DEF Reserve
<1>4. \A len \in 2 .. WrapSize : Uniform(len)' => Uniform(len) /\ n = len
  BY <1>1, <1>3 DEF Uniform
<1>5. SlotsAligned'
  <2> SUFFICES ASSUME NEW len \in 2 .. WrapSize, Uniform(len)',
                      NEW p \in DOMAIN slot' \cup {write_head'}
               PROVE  p % len = 0
    BY DEF SlotsAligned
  <2>1. \A q \in DOMAIN slot \cup {write_head} : q % len = 0
    BY <1>4 DEF UniformInv, SlotsAligned
  <2>2. len \in Nat \ {0} /\ write_head' = write_head + len
    BY <1>1, <1>4, RingAssumption
  <2>3. write_head' % len = 0
    BY <1>1, <2>1, <2>2, NextMultiple
  <2> QED BY <1>1, <2>1, <2>3
<1>6. LookalikesApart'
  BY <1>1, <1>4 DEF UniformInv, LookalikesApart
<1>7. NoWriterLapped' => NoWriterLapped
  BY <1>1 DEF NoWriterLapped
<1>8. ASSUME NoWriterLapped, NEW len \in 2 .. WrapSize, Uniform(len)',
             NEW p \in DOMAIN slot', StampMatches(p)'
      PROVE  Intact(p)'
  <2>1. StampMatches(p)
    BY <1>1, <1>8 DEF StampMatches, CommitStampFor, Word, Wrapped
  <2>2. CASE p \in DOMAIN slot
    <3>1. Intact(p)
      BY <1>4, <1>8, <2>1, <2>2 DEF UniformInv, UniformSlotsNeverTorn
    <3> QED BY <1>1, <1>3, <1>8, <2>2, <3>1 DEF Intact, Word, Wrapped
  <2>3. CASE p = write_head
    <3>1. p \in 0 .. MaxHead /\ ~ Committed(p)
      BY <1>1, <1>2, <2>3 DEF TypeOK, Committed
    <3>2. p \in lookalikes
      BY <1>1, <2>1, <3>1 DEF IndInv, StampsSound
    <3>3. p % len = 0
      BY <1>4, <1>8, <2>3 DEF UniformInv, SlotsAligned
    <3> QED BY <1>4, <1>8, <3>2, <3>3 DEF UniformInv, LookalikesApart
  <2> QED BY <1>1, <2>2, <2>3
<1>9. UniformSlotsNeverTorn'
  BY <1>7, <1>8 DEF UniformSlotsNeverTorn
<1> QED BY <1>5, <1>6, <1>9 DEF UniformInv

\* Steps that store nothing and move no writer.
LEMMA UniformReads ==
    ASSUME UniformInv, StampInv',
           UNCHANGED <<write_head, stamp, owner, slot, writerVars, history>>
    PROVE  UniformInv'
<1>1. /\ write_head' = write_head /\ stamp' = stamp /\ slot' = slot /\ owner' = owner
      /\ lapped' = lapped /\ lookalikes' = lookalikes
  BY DEF history
<1> QED BY <1>1 DEF UniformInv, SlotsAligned, LookalikesApart, UniformSlotsNeverTorn,
       NoWriterLapped, Uniform, Intact, StampMatches, Word, Wrapped, CommitStampFor

(* For messages of one length that divides the ring, the un-commit of      *)
(* write (atomic_circular_bus.rs) is enough for readers however late: a    *)
(* stamp they find is that of a whole message, as long as no writer is     *)
(* lapped, and whatever the messages contain.                              *)
THEOREM UniformMessagesWhole == Spec => []UniformSlotsNeverTorn
<1>1. Init => UniformInv
  <2> SUFFICES ASSUME Init PROVE UniformInv
    OBVIOUS
  <2>1. DOMAIN slot = {} /\ write_head = 0 /\ lookalikes = {}
    BY DEF Init
  <2>2. UniformSlotsNeverTorn /\ LookalikesApart
    BY <2>1 DEF UniformSlotsNeverTorn, LookalikesApart
  <2>3. SlotsAligned
    <3>1. \A len \in 2 .. WrapSize : 0 % len = 0
      BY RingAssumption
    <3> QED BY <2>1, <3>1 DEF SlotsAligned
  <2> QED BY <2>2, <2>3, StampInvInit DEF UniformInv
<1>2. UniformInv /\ [Next]_vars => UniformInv'
  <2> SUFFICES ASSUME UniformInv, [Next]_vars PROVE UniformInv'
    OBVIOUS
  <2>1. StampInv /\ StampInv'
    BY StampInvNext DEF UniformInv
  <2>2. ASSUME NEW w \in Writers, WriterStep(w) PROVE UniformInv'
    BY <2>1, <2>2, UniformReserve, FinishStamps, UniformStore DEF WriterStep
  <2>3. CASE UNCHANGED vars \/ \E r \in Readers : ReaderStep(r)
    BY <2>1, <2>3, OthersOnlyRead, UniformReads
  <2> QED BY <2>2, <2>3 DEF Next
<1>3. UniformInv => UniformSlotsNeverTorn
  BY DEF UniformInv
<1> QED BY <1>1, <1>2, <1>3, PTL DEF Spec

-----------------------------------------------------------------------------
(* The paced ring implements the bus log. *)

PacedInv == IndInv /\ lapped = {} /\ lookalikes = {}

\* What a reader holds, on a ring where nobody is lapped.
Held == [r \in Readers |-> IF rpc[r] = "handle" THEN view[r].pos ELSE NoOne]

LogHolds == [r \in Readers |->
                IF rpc[r] # "handle" THEN NoOne
                ELSE IF ViewExact(r) THEN view[r].pos ELSE Torn]

LEMMA PacedViewsExact ==
    ASSUME PacedInv, NEW r \in Readers, rpc[r] = "handle"
    PROVE  ViewExact(r)
<1>1. NoWriterLapped /\ NoLookalikes /\ r \notin lapped
  BY DEF PacedInv, NoWriterLapped, NoLookalikes
<1>2. Committed(view[r].pos) /\ view[r].len = slot[view[r].pos].len
  BY <1>1 DEF PacedInv, IndInv, ReadersPlaced
<1>3. InWindow(view[r].pos)
  BY <1>1 DEF PacedInv, IndInv, NotLappedInWindow, Needs
<1>4. Intact(view[r].pos)
  BY <1>1, <1>2, <1>3 DEF PacedInv, IndInv, CommittedIntact, Committed
<1> QED BY <1>2, <1>4 DEF ViewExact, Committed

LEMMA PacedHolds == PacedInv => LogHolds = Held
  BY PacedViewsExact DEF LogHolds, Held

LEMMA PacedHoldsNext == PacedInv' => LogHolds' = Held'
<1>1. PacedInv' => (LogHolds = Held)'
  BY PacedHolds, PTL
<1> QED BY <1>1

LEMMA PacedInvInit == Init => PacedInv
  BY InitIndInv DEF PacedInv, Init

LEMMA PacedInvNext == PacedInv /\ [NextPaced]_vars => PacedInv'
<1> SUFFICES ASSUME PacedInv, [NextPaced]_vars PROVE PacedInv'
  OBVIOUS
<1>1. IndInv'
  BY NextKeeps DEF PacedInv, NextPaced
<1>2. lapped' = {} /\ lookalikes' = {}
  BY DEF PacedInv, NextPaced, vars
<1> QED BY <1>1, <1>2 DEF PacedInv

\* A step that moves no slot, cursor or reference is a stutter of the log.
LEMMA StepIsStutter ==
    ASSUME PacedInv, PacedInv',
           UNCHANGED <<write_head, slot, position, view>>,
           \A r \in Readers : rpc'[r] = "handle" <=> rpc[r] = "handle"
    PROVE  UNCHANGED Log!vars
<1>1. LogHolds = Held /\ LogHolds' = Held'
  BY PacedHolds, PacedHoldsNext
<1>2. Held' = Held
  BY DEF Held
<1> QED BY <1>1, <1>2 DEF Log!vars, LogHolds

LEMMA WriterRefines ==
    ASSUME PacedInv, PacedInv', NEW w \in Writers, WriterStep(w)
    PROVE  [Log!Next]_(Log!vars)
<1>1. LogHolds = Held /\ LogHolds' = Held'
  BY PacedHolds, PacedHoldsNext
<1>2. rpc' = rpc /\ position' = position /\ view' = view
  BY DEF WriterStep, FinishWrite, Reserve, Uncommit, WriteHeader, RunCallback,
         CallbackPanics, Commit, readerVars
<1>3. LogHolds' = LogHolds
  BY <1>1, <1>2 DEF Held
<1>4. ASSUME NEW size \in Sizes, Reserve(w, size)
      PROVE  Log!Next
  <2> DEFINE len == SlotWords(size)
  <2>1. len \in 2 .. WrapSize
    BY <1>4, SlotWordsAtLeastTwo, RingAssumption DEF Reserve, Admitted
  <2>2. Log!Append(len)
    BY <1>4, <1>2, <1>3 DEF Log!Append, Reserve, LogHolds
  <2> QED BY <2>1, <2>2 DEF Log!Next
<1>5. CASE Uncommit(w) \/ WriteHeader(w) \/ RunCallback(w)
  <2>1. slot' = slot /\ write_head' = write_head
    BY <1>5 DEF Uncommit, WriteHeader, RunCallback
  <2> QED BY <2>1, <1>2, <1>3 DEF Log!vars, LogHolds
<1>6. wpc[w] # "idle" => wpos[w] \in DOMAIN slot /\ slot[wpos[w]].state = "reserved"
  BY DEF PacedInv, IndInv, OneWriterPerSlot
<1>7. CASE CallbackPanics(w)
  <2>1. Log!Settle(wpos[w], "hole")
    BY <1>7, <1>2, <1>3, <1>6 DEF Log!Settle, CallbackPanics, Settled, LogHolds
  <2> QED BY <2>1, <1>6, <1>7 DEF Log!Next, CallbackPanics
<1>8. CASE Commit(w)
  <2>1. Log!Settle(wpos[w], "committed")
    BY <1>8, <1>2, <1>3, <1>6 DEF Log!Settle, Commit, Settled, LogHolds
  <2> QED BY <2>1, <1>6, <1>8 DEF Log!Next, Commit
<1> QED BY <1>4, <1>5, <1>7, <1>8 DEF WriterStep, FinishWrite

LEMMA ReaderRefines ==
    ASSUME PacedInv, PacedInv', NEW r \in Readers, ReaderStep(r)
    PROVE  [Log!Next]_(Log!vars)
<1>1. LogHolds = Held /\ LogHolds' = Held'
  BY PacedHolds, PacedHoldsNext
<1>2. TypeOK /\ IndInv
  BY DEF PacedInv, IndInv
<1>3. NoWriterLapped /\ NoLookalikes /\ r \notin lapped
  BY DEF PacedInv, NoWriterLapped, NoLookalikes
<1>4. CASE CheckStamp(r) \/ ReadUncommitted(r)
  <2>1. \A x \in Readers : rpc'[x] = "handle" <=> rpc[x] = "handle"
    BY <1>4, <1>2 DEF CheckStamp, ReadUncommitted, TypeOK
  <2> QED BY <1>4, <2>1, StepIsStutter DEF CheckStamp, ReadUncommitted
<1>5. CASE ReadHeader(r)
  <2>1. /\ \A x \in Readers : rpc'[x] = "handle" <=> rpc[x] = "handle"
        /\ \A x \in Readers : rpc[x] = "handle" => view'[x] = view[x]
        /\ UNCHANGED <<write_head, slot, position>>
    BY <1>5, <1>2 DEF ReadHeader, TypeOK
  <2>2. Held' = Held
    BY <2>1 DEF Held
  <2> QED BY <1>1, <2>1, <2>2 DEF Log!vars, LogHolds
<1>6. CASE Advance(r)
  <2>1. /\ position[r] = view[r].pos /\ rpc[r] = "advance"
        /\ Committed(position[r])
    BY <1>2, <1>3, <1>6 DEF IndInv, ViewsBehind, ReadersPlaced, Advance
  <2>2. position' = [position EXCEPT ![r] = @ + slot[@].len]
    BY <1>2, <1>3, <1>6, <2>1, HeaderIsExact DEF Advance, TypeOK
  <2>3. /\ rpc' = [rpc EXCEPT ![r] = "handle"]
        /\ UNCHANGED <<write_head, slot, view>>
    BY <1>6 DEF Advance
  <2>4. Held' = [Held EXCEPT ![r] = position[r]] /\ Held[r] = NoOne
    BY <2>1, <2>3, <1>2 DEF Held, TypeOK
  <2>5. Log!Take(r)
    BY <1>1, <2>1, <2>2, <2>3, <2>4 DEF Log!Take, LogHolds, Committed
  <2> QED BY <2>5 DEF Log!Next
<1>7. CASE Handle(r)
  <2>1. /\ rpc[r] = "handle" /\ rpc' = [rpc EXCEPT ![r] = "poll"]
        /\ view' = [view EXCEPT ![r] = NoView]
        /\ UNCHANGED <<write_head, slot, position>>
    BY <1>7 DEF Handle
  <2>2. Held' = [Held EXCEPT ![r] = NoOne]
    BY <2>1, <1>2 DEF Held, TypeOK
  <2>4. Held[r] # NoOne
    BY <2>1, <1>2 DEF Held, TypeOK, NoOne
  <2>3. Log!Finish(r)
    BY <1>1, <2>1, <2>2, <2>4 DEF Log!Finish, LogHolds
  <2> QED BY <2>3 DEF Log!Next
<1> QED BY <1>4, <1>5, <1>6, <1>7 DEF ReaderStep

(* A ring on which nobody is lapped implements the bus log, for any number *)
(* of writers and readers: every reader takes every message before its     *)
(* position, whole, in log order, and none past a hole.                    *)
THEOREM PacedRingImplementsLog == PacedSpec => ImplementsLog
<1>1. Init => Log!Init
  <2> SUFFICES ASSUME Init PROVE Log!Init
    OBVIOUS
  <2>1. slot = [p \in {} |-> 0]
    BY DEF Init
  <2>2. LogHolds = [r \in Readers |-> NoOne]
    BY DEF Init, LogHolds
  <2> QED BY <2>1, <2>2 DEF Init, Log!Init, LogHolds
<1>2. PacedInv /\ PacedInv' /\ [NextPaced]_vars => [Log!Next]_(Log!vars)
  <2> SUFFICES ASSUME PacedInv, PacedInv', [NextPaced]_vars
               PROVE  [Log!Next]_(Log!vars)
    OBVIOUS
  <2>1. CASE UNCHANGED vars
    BY <2>1, StepIsStutter DEF vars, readerVars
  <2>2. CASE NextPaced
    BY <2>2, WriterRefines, ReaderRefines DEF NextPaced, Next
  <2> QED BY <2>1, <2>2
<1> QED BY <1>1, <1>2, PacedInvInit, PacedInvNext, PTL DEF PacedSpec, ImplementsLog, Log!Spec

=============================================================================
