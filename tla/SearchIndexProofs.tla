-------------------------- MODULE SearchIndexProofs --------------------------
(***************************************************************************)
(* The full-text index, for any pages, requests and bounds: it settles on  *)
(* the current pages, its texts never go back, and transactions that wait  *)
(* in a circle wait for a Clear.                                           *)
(*                                                                         *)
(* The argument is that of CurrentPageMatches: the text of a page that an  *)
(* open transaction will write is current, because its row is locked and   *)
(* every mutation that changes a text waits for the lock.  A path may      *)
(* change under the lock, when an ancestor moves; then the mover has the   *)
(* current page on its list, and writes it after the lock is free.         *)
(* Rows are written under the lock of their page, and removed by one worker *)
(* each once their pages are gone: only a Clear waits for rows, or for a   *)
(* worker to which it has to be waited for.                                *)
(***************************************************************************)
EXTENDS SearchIndex, FiniteSetTheorems, WellFoundedInduction, TLAPS

Phase == {"idle", "batch", "each", "read", "remove", "clear", "wipe", "walk"}

IndexTypeOK ==
  /\ used \in SUBSET Page /\ IsFiniteSet(used)
  /\ Live \subseteq used /\ pages \in [Live -> PageRow]
  /\ rows \in SUBSET SearchRow /\ missed \in SUBSET Page /\ rebuilds \in Nat
  /\ phase \in [Worker -> Phase] /\ ids \in [Worker -> SUBSET Page]
  /\ todo \in [Worker -> SUBSET Snapshot] /\ found \in [Worker -> SUBSET Snapshot]
  /\ held \in [Worker -> SUBSET Page] /\ latched \in [Worker -> SUBSET Page]

\* What a worker has in each phase; a batch locks its pages in the order of their ids.
Busy(w) ==
  /\ phase[w] \notin {"batch", "each"} => todo[w] = {} /\ found[w] = {} /\ held[w] = {}
  /\ phase[w] \notin {"read", "remove", "wipe"} => ids[w] = {}
  /\ phase[w] \notin {"remove", "wipe"} => latched[w] \subseteq held[w]
  /\ ids[w] \cup latched[w] \subseteq used
  /\ phase[w] = "batch" => \A p \in held[w], s \in todo[w] : p <= s.id

\* The pages whose rows w removes are deleted, and nobody else removes them.
Dropped(w) == IF phase[w] = "remove" THEN ids[w] \cup latched[w] ELSE {}

Removing(w) ==
  /\ Dropped(w) \cap Live = {}
  /\ \A v \in Worker \ {w} : Dropped(v) \cap Dropped(w) = {}

\* What an open transaction will write is locked by it alone, and its text is current.
Locking(w) ==
  /\ held[w] \subseteq Live
  /\ \A v \in Worker \ {w} : held[v] \cap held[w] = {}
  /\ \A s \in found[w] : s.id \in held[w] /\ s.page.text = pages[s.id].text
  /\ \A s, r \in found[w] : s.id = r.id => s = r

Ages ==
  /\ \A p \in Live : pages[p].text <= pages[p].stamp
  /\ \A r \in rows : r.id \in used /\ (r.id \in Live => r.text <= pages[r.id].text)
  /\ \A q, r \in rows : q.id = r.id => q = r

\* w will bring the index to the page as it is, or remove what is there of it.
Following(w, p) ==
  IF p \in Live
  THEN \/ phase[w] = "walk"
       \/ phase[w] = "read" /\ p \in ids[w]
       \/ \E s \in todo[w] \cup found[w] : s.id = p /\ s.page = pages[p]
  ELSE p \in Dropped(w)

\* The index has the page as it is, and nobody is about to write anything else.
Settled(p) ==
  /\ RowsOf(p) = Current(p)
  /\ \A w \in Worker : \A s \in found[w] : s.id = p => s.page = pages[p]

Followed(p) == p \in missed \/ (\E w \in Worker : Following(w, p)) \/ Settled(p)

IndexInv ==
  /\ IndexTypeOK /\ Ages
  /\ \A w \in Worker : Busy(w) /\ Locking(w) /\ Removing(w)
  /\ \A p \in Page : Followed(p)

-----------------------------------------------------------------------------
(* Snapshots and pages *)

LEMMA MatchIsEquality ==
  ASSUME IndexTypeOK, NEW s \in Snapshot, s.id \in Live
  PROVE  Matches(s) <=> s.page = pages[s.id]
<1>1. s.page \in PageRow /\ pages[s.id] \in PageRow
  BY DEF IndexTypeOK, Snapshot
<1>2. Raw(s.page) = Raw(pages[s.id]) <=>
        /\ s.page.text = pages[s.id].text /\ s.page.stamp = pages[s.id].stamp
        /\ s.page.pin = pages[s.id].pin
  BY DEF Raw
<1> QED BY <1>1, <1>2 DEF Matches, PageRow

\* A page that is rewritten gets a later stamp and, at most, its text; only those of S move.
LEMMA Rewriting ==
  ASSUME IndexTypeOK, Ages, NEW p \in Live, NEW retext \in BOOLEAN, NEW S \in SUBSET Live,
         NEW place \in Place, pages' = Rewritten(p, retext, S, place)
  PROVE  /\ Live' = Live /\ pages' \in [Live -> PageRow]
         /\ \A q \in Live : /\ pages'[q].text >= pages[q].text
                            /\ pages'[q].text <= pages'[q].stamp
                            /\ q # p => pages'[q].text = pages[q].text
                            /\ q \notin S \cup {p} => pages'[q] = pages[q]
<1>1. Live' = Live
  BY DEF Rewritten, Live
<1>2. ASSUME NEW q \in Live
      PROVE  /\ pages'[q] \in PageRow /\ pages'[q].text >= pages[q].text
             /\ pages'[q].text <= pages'[q].stamp
             /\ q # p => pages'[q].text = pages[q].text
             /\ q \notin S \cup {p} => pages'[q] = pages[q]
  <2>1. pages[q] \in PageRow /\ pages[q].text <= pages[q].stamp
    BY DEF IndexTypeOK, Ages
  <2>2. pages'[q] = [text |-> IF q = p /\ retext THEN pages[q].stamp + 1 ELSE pages[q].text,
                     stamp |-> IF q = p THEN pages[q].stamp + 1 ELSE pages[q].stamp,
                     pin |-> pages[q].pin,
                     place |-> IF q \in S THEN place ELSE pages[q].place]
    BY <2>1 DEF Rewritten, PageRow
  <2> QED BY <2>1, <2>2 DEF PageRow
<1>3. pages' = [q \in Live |-> pages'[q]]
  BY <1>1 DEF Rewritten
<1> QED BY <1>1, <1>2, <1>3

\* A worker that stops removing, or removes less.
LEMMA RemovingLess ==
  ASSUME IndexInv, Live' \cap used \subseteq Live, \A w \in Worker : Dropped(w)' \subseteq Dropped(w)
  PROVE  \A w \in Worker : Removing(w)'
<1> SUFFICES ASSUME NEW w \in Worker
             PROVE  Removing(w)'
  OBVIOUS
<1>1. Dropped(w) \subseteq used /\ Dropped(w) \cap Live = {}
  BY DEF IndexInv, Busy, Removing, Dropped
<1>2. Dropped(w)' \cap Live' = {}
  BY <1>1
<1>3. ASSUME NEW v \in Worker \ {w}
      PROVE  Dropped(v)' \cap Dropped(w)' = {}
  <2>1. Dropped(v) \cap Dropped(w) = {}
    BY DEF IndexInv, Removing
  <2> QED BY <2>1
<1> QED BY <1>2, <1>3 DEF Removing

\* Whom a worker follows, it owes to the index.
LEMMA FollowedIsOwed ==
  ASSUME IndexInv, NEW w \in Worker
  PROVE  Owed(w) \in SUBSET Page /\ \A p \in Page : Following(w, p) => p \in Owed(w)
<1>1. /\ Live \subseteq Page /\ ids[w] \subseteq Page /\ latched[w] \subseteq Page
      /\ \A s \in todo[w] \cup found[w] : s.id \in Page
  BY DEF IndexInv, IndexTypeOK, Snapshot
<1>2. Owed(w) \in SUBSET Page
  BY <1>1 DEF Owed
<1>3. ASSUME NEW p \in Page, Following(w, p)
      PROVE  p \in Owed(w)
  <2>1. CASE p \notin Live
    BY <1>3, <2>1 DEF Following, Dropped, Owed
  <2>2. CASE p \in Live /\ phase[w] \in {"walk", "read"}
    BY <1>3, <2>2 DEF Following, Owed, IndexInv, Busy
  <2>3. CASE p \in Live /\ phase[w] \notin {"walk", "read"}
    <3>1. PICK s \in todo[w] \cup found[w] : s.id = p
      BY <1>3, <2>3 DEF Following
    <3>2. phase[w] \in {"batch", "each"}
      BY <3>1 DEF IndexInv, Busy
    <3> QED BY <3>1, <3>2 DEF Owed
  <2> QED BY <2>1, <2>2, <2>3
<1> QED BY <1>2, <1>3

-----------------------------------------------------------------------------
(* Mutations *)

\* A transaction that changes the pages of P: it changes no text under a lock, and uses no id again.
Mutates(P) ==
  /\ used \subseteq used' /\ used' \in SUBSET Page /\ IsFiniteSet(used') /\ P \subseteq used'
  /\ Live' \subseteq used' /\ Live' \cap used \subseteq Live /\ pages' \in [Live' -> PageRow]
  /\ Held \subseteq Live'
  /\ \A q \in Live' : pages'[q].text <= pages'[q].stamp
  /\ \A q \in Live \cap Live' : /\ pages'[q].text >= pages[q].text
                                /\ q \in Held => pages'[q].text = pages[q].text
  /\ \A q \in Page \ P : (q \in Live <=> q \in Live') /\ (q \in Live => pages'[q] = pages[q])

\* What is done about them: nothing, or an idle thread indexes, reads or removes them.
Takes(t, P) ==
  /\ Idle(t) /\ missed' = missed \ P /\ UNCHANGED <<rows, found, held, latched, rebuilds>>
  /\ \A w \in Worker \ {t} : phase'[w] = phase[w] /\ ids'[w] = ids[w] /\ todo'[w] = todo[w]
  /\ \/ /\ phase'[t] = "batch" /\ P \subseteq Live' /\ ids'[t] = ids[t]
        /\ todo'[t] = {[id |-> p, page |-> pages'[p]] : p \in P}
     \/ phase'[t] = "read" /\ P \subseteq Live' /\ ids'[t] = P /\ todo'[t] = todo[t]
     \/ /\ phase'[t] = "remove" /\ P \subseteq Live /\ P \cap Live' = {} /\ ids'[t] = P
        /\ todo'[t] = todo[t]
  /\ phase' \in [Worker -> Phase] /\ ids' \in [Worker -> SUBSET Page]
  /\ todo' \in [Worker -> SUBSET Snapshot]

LEMMA MutatingKeepsTransactions ==
  ASSUME IndexInv, NEW P \in SUBSET Page, Mutates(P), UNCHANGED <<rows, found, held>>
  PROVE  Ages' /\ \A w \in Worker : Locking(w)'
<1>0. \A q \in Live \cap Live' : /\ pages'[q].text >= pages[q].text
                                 /\ q \in Held => pages'[q].text = pages[q].text
  BY DEF Mutates
<1>1. Ages'
  <2>1. \A r \in rows : r.id \in used' /\ (r.id \in Live' => r.id \in Live)
    BY DEF IndexInv, Ages, Mutates
  <2>2. ASSUME NEW r \in rows, r.id \in Live'
        PROVE  r.text <= pages'[r.id].text
    <3>1. r.id \in Live /\ r.text <= pages[r.id].text
      BY <2>1, <2>2 DEF IndexInv, Ages
    <3>2. pages'[r.id].text >= pages[r.id].text
      BY <1>0, <2>2, <3>1
    <3>3. r.text \in Nat /\ pages[r.id].text \in Nat /\ pages'[r.id].text \in Nat
      BY <2>2, <3>1 DEF IndexInv, IndexTypeOK, SearchRow, PageRow, Mutates
    <3> QED BY <3>1, <3>2, <3>3
  <2> QED BY <2>1, <2>2 DEF IndexInv, Ages, Mutates
<1>2. ASSUME NEW w \in Worker
      PROVE  Locking(w)'
  <2>1. held[w] \subseteq Held /\ held[w] \subseteq Live /\ held[w] \subseteq Live'
    BY DEF IndexInv, Locking, Held, Mutates
  <2>2. \A q \in held[w] : pages'[q].text = pages[q].text
    BY <1>0, <2>1
  <2>3. \A s \in found[w] : s.id \in held[w] /\ s.page.text = pages'[s.id].text
    BY <2>2 DEF IndexInv, Locking
  <2> QED BY <2>1, <2>3 DEF IndexInv, Locking
<1> QED BY <1>1, <1>2

\* A page that the transaction does not change is followed as before.
LEMMA MutatingKeepsFollowed ==
  ASSUME IndexInv, NEW P \in SUBSET Page, Mutates(P), UNCHANGED <<rows, found, held, latched>>,
         \A w \in Worker : \/ Idle(w)
                           \/ phase'[w] = phase[w] /\ ids'[w] = ids[w] /\ todo'[w] = todo[w],
         missed \ P \subseteq missed', NEW p \in Page \ P
  PROVE  Followed(p)'
<1>1. (p \in Live <=> p \in Live') /\ (p \in Live => pages'[p] = pages[p])
  BY DEF Mutates
<1>2. CASE p \in missed
  BY <1>2 DEF Followed
<1>3. ASSUME NEW w \in Worker, Following(w, p)
      PROVE  Following(w, p)'
  <2>1. ~Idle(w)
    BY <1>3 DEF Idle, IndexInv, Busy, Following, Dropped
  <2> QED BY <1>1, <1>3, <2>1 DEF Following, Dropped
<1>4. CASE Settled(p)
  <2>1. RowsOf(p)' = RowsOf(p) /\ Current(p)' = Current(p)
    BY <1>1 DEF RowsOf, Current
  <2>2. ASSUME NEW w \in Worker, NEW s \in found[w], s.id = p
        PROVE  s.page = pages'[p]
    <3>1. p \in Live /\ s.page = pages[p]
      BY <1>4, <2>2 DEF IndexInv, Locking, Settled
    <3> QED BY <1>1, <3>1
  <2> QED BY <1>4, <2>1, <2>2 DEF Settled, Followed
<1> QED BY <1>2, <1>3, <1>4 DEF IndexInv, Followed

LEMMA UnindexedKeepsInv ==
  ASSUME IndexInv, NEW P \in SUBSET Page, Mutates(P), Unindexed(P)
  PROVE  IndexInv'
<1>1. UNCHANGED <<rows, phase, ids, todo, found, held, latched, rebuilds>> /\ missed' = missed \cup P
  BY DEF Unindexed, workVars, lockVars
<1>2. IndexTypeOK'
  BY <1>1 DEF IndexInv, IndexTypeOK, Mutates
<1>3. Ages' /\ \A w \in Worker : Locking(w)'
  BY <1>1, MutatingKeepsTransactions
<1>4. ASSUME NEW w \in Worker
      PROVE  Busy(w)'
  <2>1. Busy(w)
    BY DEF IndexInv
  <2>2. ids[w] \cup latched[w] \subseteq used'
    BY <2>1 DEF Busy, Mutates
  <2> QED BY <1>1, <2>1, <2>2 DEF Busy
<1>5. ASSUME NEW p \in Page
      PROVE  Followed(p)'
  BY <1>1, MutatingKeepsFollowed DEF Followed
<1>6. \A w \in Worker : Removing(w)'
  BY <1>1, RemovingLess DEF Mutates, Dropped
<1> QED BY <1>2, <1>3, <1>4, <1>5, <1>6 DEF IndexInv

LEMMA TakingKeepsInv ==
  ASSUME IndexInv, NEW P \in SUBSET Page, Mutates(P), NEW t \in Worker, Takes(t, P)
  PROVE  IndexInv'
<1>1. IndexTypeOK'
  BY DEF IndexInv, IndexTypeOK, Mutates, Takes
<1>2. Ages' /\ \A w \in Worker : Locking(w)'
  BY MutatingKeepsTransactions DEF Takes
<1>3. ASSUME NEW w \in Worker \ {t}
      PROVE  Busy(w)'
  <2>1. Busy(w)
    BY DEF IndexInv
  <2>2. ids[w] \cup latched[w] \subseteq used'
    BY <2>1 DEF Busy, Mutates
  <2> QED BY <2>1, <2>2 DEF Busy, Takes
<1>4. held[t] = {} /\ found[t] = {} /\ todo[t] = {} /\ ids[t] = {} /\ latched[t] = {}
  BY DEF IndexInv, Busy, Takes, Idle
<1>5. Busy(t)'
  BY <1>4 DEF Busy, Takes, Mutates
<1>6. ASSUME NEW p \in P
      PROVE  Followed(p)'
  <2>1. CASE phase'[t] = "batch"
    <3>1. [id |-> p, page |-> pages'[p]] \in todo'[t] /\ p \in Live'
      BY <2>1 DEF Takes
    <3> QED BY <3>1 DEF Following, Followed
  <2>2. CASE phase'[t] # "batch"
    BY <2>2 DEF Takes, Following, Followed, Dropped
  <2> QED BY <2>1, <2>2
<1>7. ASSUME NEW p \in Page \ P
      PROVE  Followed(p)'
  BY MutatingKeepsFollowed DEF Takes
<1>8. ASSUME NEW w \in Worker
      PROVE  Removing(w)'
  <2>1. \A v \in Worker \ {t} : Dropped(v)' = Dropped(v)
    BY DEF Takes, Dropped
  <2>2. \A v \in Worker : /\ Dropped(v) \subseteq used /\ Dropped(v) \cap Live = {}
                          /\ \A u \in Worker \ {v} : Dropped(u) \cap Dropped(v) = {}
    BY DEF IndexInv, Busy, Removing, Dropped
  <2>3. Dropped(t)' \cap Live' = {} /\ Dropped(t)' \subseteq Live
    BY <1>4 DEF Takes, Dropped
  <2>4. Live' \cap used \subseteq Live
    BY DEF Mutates
  <2>5. CASE w = t
    <3>1. \A v \in Worker \ {t} : Dropped(v)' \cap Dropped(t)' = {}
      BY <2>1, <2>2, <2>3
    <3> QED BY <2>3, <2>5, <3>1 DEF Removing
  <2>6. CASE w # t
    <3>1. Dropped(w)' \cap Live' = {}
      BY <2>1, <2>2, <2>4, <2>6
    <3>2. \A v \in Worker \ {w} : Dropped(v)' \cap Dropped(w)' = {}
      BY <2>1, <2>2, <2>3, <2>6
    <3> QED BY <3>1, <3>2 DEF Removing
  <2> QED BY <2>5, <2>6
<1> QED BY <1>1, <1>2, <1>3, <1>5, <1>6, <1>7, <1>8 DEF IndexInv

\* A rewritten page and the pages that move with it are all that changes.
LEMMA RewritingMutates ==
  ASSUME IndexInv, NEW p \in Live \ Held, NEW retext \in BOOLEAN, NEW S \in SUBSET Live,
         NEW place \in Place, pages' = Rewritten(p, retext, S, place), used' = used
  PROVE  Mutates(S \cup {p}) /\ Live' = Live
<1>1. /\ Live' = Live /\ pages' \in [Live -> PageRow]
      /\ \A q \in Live : /\ pages'[q].text >= pages[q].text
                         /\ pages'[q].text <= pages'[q].stamp
                         /\ q # p => pages'[q].text = pages[q].text
                         /\ q \notin S \cup {p} => pages'[q] = pages[q]
  BY Rewriting DEF IndexInv
<1>2. Held \subseteq Live /\ Live \subseteq used /\ used \in SUBSET Page /\ IsFiniteSet(used)
  BY DEF IndexInv, IndexTypeOK, Locking, Held
<1> QED BY <1>1, <1>2 DEF Mutates

LEMMA IndexingTakes ==
  ASSUME IndexInv, NEW P \in SUBSET Page, P \subseteq Live', pages' \in [Live' -> PageRow],
         NEW t \in Thread, Idle(t), Indexed(t, P)
  PROVE  Takes(t, P)
<1>1. \A p \in P : [id |-> p, page |-> pages'[p]] \in Snapshot
  BY DEF Snapshot
<1> QED BY <1>1 DEF IndexInv, IndexTypeOK, Indexed, Takes, Phase, Worker, lockVars

LEMMA CreatingKeepsInv ==
  ASSUME IndexInv, NEW t \in Thread, NEW p \in Page, NEW place \in Place, Create(t, p, place)
  PROVE  IndexInv'
<1>1. p \notin used /\ used' = used \cup {p} /\ Idle(t) /\ Indexed(t, {p})
  BY DEF Create
<1>2. Live' = Live \cup {p} /\ p \notin Live
  BY <1>1 DEF Create, Live, IndexInv, IndexTypeOK
<1>3. /\ pages' \in [Live' -> PageRow]
      /\ pages'[p].text = 1 /\ pages'[p].stamp = 1
      /\ \A q \in Live : pages'[q] = pages[q]
  BY <1>2 DEF Create, PageRow, IndexInv, IndexTypeOK
<1>4. \A q \in Live : pages'[q].text >= pages[q].text /\ pages'[q].text <= pages'[q].stamp
  BY <1>3 DEF PageRow, IndexInv, IndexTypeOK, Ages
<1>5. Held \subseteq Live
  BY DEF IndexInv, Locking, Held
<1>6. IsFiniteSet(used')
  BY <1>1, FS_AddElement DEF IndexInv, IndexTypeOK
<1>7. Mutates({p})
  BY <1>1, <1>2, <1>3, <1>4, <1>5, <1>6 DEF Mutates, IndexInv, IndexTypeOK
<1> QED BY <1>1, <1>2, <1>3, <1>7, IndexingTakes, TakingKeepsInv DEF Worker

LEMMA RelocatingKeepsInv ==
  ASSUME IndexInv, NEW t \in Thread, NEW p \in Live, NEW retext \in BOOLEAN, NEW S \in SUBSET Live,
         NEW place \in Place, Relocate(t, p, retext, S, place)
  PROVE  IndexInv'
<1>1. /\ p \notin Held /\ S \cup {p} = S /\ Idle(t) /\ Indexed(t, S) /\ used' = used
      /\ pages' = Rewritten(p, retext, S, place)
  BY DEF Relocate, Writable
<1>2. Mutates(S) /\ Live' = Live
  BY <1>1, RewritingMutates
<1>3. S \in SUBSET Page
  BY DEF IndexInv, IndexTypeOK
<1>4. pages' \in [Live' -> PageRow]
  BY <1>2 DEF Mutates
<1>5. Takes(t, S)
  BY <1>1, <1>2, <1>3, <1>4, IndexingTakes
<1> QED BY <1>2, <1>3, <1>5, TakingKeepsInv DEF Worker

\* Saving and restoring a revision change one page, in its place.
LEMMA SavingKeepsInv ==
  ASSUME IndexInv, NEW t \in Thread, NEW p \in Live, Save(t, p) \/ RestoreRevision(t, p)
  PROVE  IndexInv'
<1>1. /\ p \notin Held /\ Idle(t) /\ used' = used
      /\ pages' = Rewritten(p, TRUE, {}, pages[p].place)
  BY DEF Save, RestoreRevision, Writable
<1>2. pages[p].place \in Place /\ p \in Page
  BY DEF IndexInv, IndexTypeOK, PageRow
<1>3. Mutates({p}) /\ Live' = Live
  <2>1. Mutates({} \cup {p}) /\ Live' = Live
    BY <1>1, <1>2, RewritingMutates
  <2>2. {} \cup {p} = {p}
    OBVIOUS
  <2> QED BY <2>1, <2>2
<1>4. Takes(t, {p})
  <2>1. CASE Save(t, p)
    <3>1. pages' \in [Live' -> PageRow]
      BY <1>3 DEF Mutates
    <3> QED BY <1>1, <1>2, <1>3, <2>1, <3>1, IndexingTakes DEF Save
  <2>2. CASE RestoreRevision(t, p)
    BY <1>1, <1>2, <1>3, <2>2
      DEF RestoreRevision, Takes, IndexInv, IndexTypeOK, Phase, Worker, lockVars
  <2> QED BY <2>1, <2>2
<1> QED BY <1>2, <1>3, <1>4, TakingKeepsInv DEF Worker

LEMMA DeletingKeepsInv ==
  ASSUME IndexInv, NEW t \in Thread, NEW S \in SUBSET Live, Delete(t, S)
  PROVE  IndexInv'
<1>1. /\ S \subseteq Live \ Held /\ used' = used /\ pages' = [q \in Live \ S |-> pages[q]]
      /\ S \in SUBSET Page
  BY DEF Delete, IndexInv, IndexTypeOK
<1>2. Live' = Live \ S /\ \A q \in Live \ S : pages'[q] = pages[q]
  BY <1>1 DEF Live
<1>3. Held \subseteq Live
  BY DEF IndexInv, Locking, Held
<1>4. \A q \in Live : pages[q] \in PageRow /\ pages[q].text <= pages[q].stamp
  BY DEF IndexInv, IndexTypeOK, Ages
<1>5. pages' \in [Live' -> PageRow]
  BY <1>1, <1>2, <1>4
<1>6. \A q \in Live' : pages'[q].text >= pages[q].text /\ pages'[q].text <= pages'[q].stamp
  BY <1>2, <1>4 DEF PageRow
<1>7. Mutates(S)
  BY <1>1, <1>2, <1>3, <1>5, <1>6 DEF Mutates, IndexInv, IndexTypeOK
<1>8. Takes(t, S)
  BY <1>1, <1>2 DEF Delete, Takes, IndexInv, IndexTypeOK, Phase, Worker, lockVars
<1> QED BY <1>1, <1>7, <1>8, TakingKeepsInv DEF Worker

\* Mutations that run no effect on the index.
LEMMA BareMutationsKeepInv ==
  ASSUME IndexInv, NEW p \in Live,
         \/ Pin(p) \/ Convert(p) \/ RewriteLinks(p)
         \/ \E retext \in BOOLEAN, S \in SUBSET Live, place \in Place : Refactor(p, retext, S, place)
  PROVE  IndexInv'
<1>1. p \notin Held /\ used' = used
  BY DEF Pin, Convert, RewriteLinks, Refactor, Writable
<1>2. pages[p].place \in Place /\ p \in Page /\ Live \subseteq Page
  BY DEF IndexInv, IndexTypeOK, PageRow
<1>3. CASE Pin(p)
  <2>1. pages' = [pages EXCEPT ![p].pin = ~@] /\ Unindexed({p})
    BY <1>3 DEF Pin
  <2>2. Live' = Live /\ pages' \in [Live -> PageRow]
    BY <2>1 DEF Live, IndexInv, IndexTypeOK, PageRow
  <2>3. \A q \in Live : /\ pages'[q].text = pages[q].text /\ pages'[q].stamp = pages[q].stamp
                        /\ q # p => pages'[q] = pages[q]
    BY <2>1 DEF IndexInv, IndexTypeOK, PageRow
  <2>4. \A q \in Live : pages'[q].text >= pages[q].text /\ pages'[q].text <= pages'[q].stamp
    BY <2>3 DEF IndexInv, IndexTypeOK, PageRow, Ages
  <2>5. Held \subseteq Live
    BY DEF IndexInv, Locking, Held
  <2>6. Mutates({p})
    BY <1>1, <2>2, <2>3, <2>4, <2>5 DEF Mutates, IndexInv, IndexTypeOK
  <2> QED BY <1>2, <2>1, <2>6, UnindexedKeepsInv
<1>4. CASE Convert(p) \/ RewriteLinks(p)
  <2>1. PICK retext \in BOOLEAN : pages' = Rewritten(p, retext, {}, pages[p].place) /\ Unindexed({p})
    BY <1>4 DEF Convert, RewriteLinks
  <2>2. Mutates({} \cup {p})
    BY <1>1, <1>2, <2>1, RewritingMutates
  <2>3. {} \cup {p} = {p}
    OBVIOUS
  <2> QED BY <1>2, <2>1, <2>2, <2>3, UnindexedKeepsInv
<1>5. CASE \E retext \in BOOLEAN, S \in SUBSET Live, place \in Place : Refactor(p, retext, S, place)
  <2>1. PICK retext \in BOOLEAN, S \in SUBSET Live, place \in Place : Refactor(p, retext, S, place)
    BY <1>5
  <2>2. pages' = Rewritten(p, retext, S, place) /\ Unindexed(S) /\ S \cup {p} = S
    BY <2>1 DEF Refactor
  <2>3. Mutates(S) /\ S \in SUBSET Page
    BY <1>1, <1>2, <2>2, RewritingMutates
  <2> QED BY <2>2, <2>3, UnindexedKeepsInv
<1> QED BY <1>3, <1>4, <1>5

-----------------------------------------------------------------------------
(* Writing the index *)

LEMMA LookingKeepsInv ==
  ASSUME IndexInv, NEW w \in Worker, NEW s \in todo[w], Look(w, s)
  PROVE  IndexInv'
<1> DEFINE fresh == s.id \in Live /\ s.page = pages[s.id]
<1>1. s \in Snapshot /\ s.id \in Page
  BY DEF IndexInv, IndexTypeOK, Snapshot
<1>2. s.id \in Live /\ Matches(s) <=> fresh
  BY <1>1, MatchIsEquality DEF IndexInv
<1>3. /\ s.id \notin Held /\ phase[w] \in {"batch", "each"} /\ MayLook(w, s)
      /\ UNCHANGED <<pages, used, rows, phase, ids, latched, missed, rebuilds>> /\ Live' = Live
      /\ \A v \in Worker \ {w} : todo'[v] = todo[v] /\ held'[v] = held[v] /\ found'[v] = found[v]
      /\ todo'[w] = todo[w] \ {s} /\ held'[w] = held[w] \cup ({s.id} \cap Live)
      /\ found'[w] = IF fresh THEN found[w] \cup {s} ELSE found[w]
  BY <1>2 DEF Look, Looked, pageVars, Live, IndexInv, IndexTypeOK
<1>4. IndexTypeOK'
  BY <1>1, <1>3 DEF Look, Looked, pageVars, IndexInv, IndexTypeOK
<1>5. Ages'
  BY <1>3 DEF IndexInv, Ages
<1>6. \A v \in Worker : s.id \notin held[v] /\ \A r \in found[v] : r.id # s.id
  BY <1>3 DEF Held, IndexInv, Locking
<1>7. ASSUME NEW v \in Worker
      PROVE  Locking(v)'
  <2>1. held'[v] \subseteq Live /\ \A u \in Worker \ {v} : held'[u] \cap held'[v] = {}
    BY <1>3, <1>6 DEF IndexInv, Locking
  <2>2. \A r \in found'[v] : r.id \in held'[v] /\ r.page.text = pages[r.id].text
    BY <1>3 DEF IndexInv, Locking
  <2>3. \A q, r \in found'[v] : q.id = r.id => q = r
    BY <1>3, <1>6 DEF IndexInv, Locking
  <2> QED BY <1>3, <2>1, <2>2, <2>3 DEF Locking
<1>8. ASSUME NEW v \in Worker \ {w}
      PROVE  Busy(v)'
  BY <1>3 DEF IndexInv, Busy
<1>9. Busy(w)'
  <2>1. phase[w] = "batch" => \A r \in todo[w] : s.id <= r.id
    BY <1>3 DEF MayLook
  <2> QED BY <1>3, <2>1 DEF IndexInv, Busy
<1>10. ASSUME NEW p \in Page
       PROVE  Followed(p)'
  <2>1. CASE p \in missed
    BY <1>3, <2>1 DEF Followed
  <2>2. ASSUME NEW v \in Worker, Following(v, p)
        PROVE  Following(v, p)'
    <3>1. CASE v # w
      BY <1>3, <2>2, <3>1 DEF Following, Dropped
    <3>2. CASE v = w
      <4>1. \A r \in todo[w] \cup found[w] :
              r.id = p /\ r.page = pages[p] /\ p \in Live => r \in todo'[w] \cup found'[w]
        BY <1>3
      <4> QED BY <1>3, <2>2, <3>2, <4>1 DEF Following, Dropped
    <3> QED BY <3>1, <3>2
  <2>3. CASE Settled(p)
    <3>1. RowsOf(p)' = RowsOf(p) /\ Current(p)' = Current(p)
      BY <1>3 DEF RowsOf, Current
    <3>2. \A v \in Worker : \A r \in found'[v] : r.id = p => r.page = pages'[p]
      BY <1>3, <2>3 DEF Settled
    <3> QED BY <2>3, <3>1, <3>2 DEF Settled, Followed
  <2> QED BY <2>1, <2>2, <2>3 DEF IndexInv, Followed
<1>11. \A v \in Worker : Removing(v)'
  BY <1>3, RemovingLess DEF Dropped
<1> QED BY <1>4, <1>5, <1>7, <1>8, <1>9, <1>10, <1>11 DEF IndexInv

LEMMA UpsertingKeepsInv ==
  ASSUME IndexInv, NEW w \in Worker, Upsert(w)
  PROVE  IndexInv'
<1>1. /\ phase[w] \in {"batch", "each"} /\ latched' = [latched EXCEPT ![w] = @ \cup Unwritten(w)]
      /\ UNCHANGED <<pages, used, rows, phase, ids, todo, found, held, missed, rebuilds>> /\ Live' = Live
  BY DEF Upsert, pageVars, Live
<1>2. Unwritten(w) \subseteq held[w] /\ held[w] \subseteq used /\ held[w] \subseteq Page
  BY DEF Unwritten, IndexInv, Locking, IndexTypeOK
<1>3. IndexTypeOK' /\ Ages'
  BY <1>1, <1>2 DEF IndexInv, IndexTypeOK, Ages
<1>4. ASSUME NEW v \in Worker
      PROVE  Busy(v)'
  <2>1. CASE v = w
    BY <1>1, <1>2, <2>1 DEF IndexInv, IndexTypeOK, Busy
  <2>2. CASE v # w
    BY <1>1, <2>2 DEF IndexInv, IndexTypeOK, Busy
  <2> QED BY <2>1, <2>2
<1>5. \A v \in Worker : Locking(v)'
  BY <1>1 DEF IndexInv, Locking
<1>6. \A v \in Worker : Dropped(v)' = Dropped(v)
  BY <1>1 DEF Dropped, IndexInv, IndexTypeOK
<1>7. \A v \in Worker : Removing(v)'
  BY <1>1, <1>6, RemovingLess
<1>8. ASSUME NEW p \in Page
      PROVE  Followed(p)'
  <2>1. \A v \in Worker : Following(v, p) => Following(v, p)'
    BY <1>1, <1>6 DEF Following
  <2>2. Settled(p) => Settled(p)'
    BY <1>1 DEF Settled, RowsOf, Current
  <2> QED BY <1>1, <2>1, <2>2 DEF IndexInv, Followed
<1> QED BY <1>3, <1>4, <1>5, <1>7, <1>8 DEF IndexInv

\* A transaction that ends leaves its worker without locks, and the snapshots that are left.
LEMMA EndingTransaction ==
  ASSUME IndexInv, NEW w \in Worker, NEW left \in SUBSET todo[w], InTransaction(w),
         phase[w] = "batch" => left = {}, EndTransaction(w, left)
  PROVE  /\ phase' \in [Worker -> Phase] /\ todo' \in [Worker -> SUBSET Snapshot]
         /\ found' \in [Worker -> SUBSET Snapshot] /\ held' \in [Worker -> SUBSET Page]
         /\ latched' \in [Worker -> SUBSET Page] /\ UNCHANGED <<pages, used, ids, rebuilds>>
         /\ found'[w] = {} /\ held'[w] = {} /\ todo'[w] = left
         /\ \A v \in Worker \ {w} : /\ phase'[v] = phase[v] /\ todo'[v] = todo[v]
                                    /\ found'[v] = found[v] /\ held'[v] = held[v]
         /\ phase[w] \in {"batch", "each"} /\ (left # {} => phase'[w] = phase[w])
         /\ \A v \in Worker : Locking(v)' /\ Busy(v)' /\ Removing(v)' /\ Dropped(v)' = Dropped(v)
<1>1. /\ phase' \in [Worker -> Phase] /\ todo' \in [Worker -> SUBSET Snapshot]
      /\ found' \in [Worker -> SUBSET Snapshot] /\ held' \in [Worker -> SUBSET Page]
      /\ latched' \in [Worker -> SUBSET Page] /\ UNCHANGED <<pages, used, ids, rebuilds>>
      /\ found'[w] = {} /\ held'[w] = {} /\ todo'[w] = left /\ latched'[w] = {}
      /\ phase'[w] = IF left = {} THEN "idle" ELSE phase[w]
      /\ phase[w] \in {"batch", "each"}
  BY DEF EndTransaction, InTransaction, IndexInv, IndexTypeOK, Phase, pageVars
<1>2. \A v \in Worker \ {w} : /\ phase'[v] = phase[v] /\ todo'[v] = todo[v]
                              /\ found'[v] = found[v] /\ held'[v] = held[v]
                              /\ latched'[v] = latched[v]
  BY DEF EndTransaction, IndexInv, IndexTypeOK
<1>3. ASSUME NEW v \in Worker
      PROVE  Locking(v)'
  <2>1. \A u \in Worker : held'[u] = (IF u = w THEN {} ELSE held[u])
    BY <1>1, <1>2
  <2>2. \A u \in Worker : found'[u] = (IF u = w THEN {} ELSE found[u])
    BY <1>1, <1>2
  <2>3. pages' = pages /\ Live' = Live
    BY <1>1 DEF Live
  <2> QED BY <2>1, <2>2, <2>3 DEF IndexInv, Locking
<1>4. ASSUME NEW v \in Worker \ {w}
      PROVE  Busy(v)'
  BY <1>1, <1>2 DEF IndexInv, Busy, Live
<1>5. Busy(w)'
  BY <1>1 DEF IndexInv, Busy, Live
<1>6. ASSUME NEW v \in Worker
      PROVE  Dropped(v)' = Dropped(v)
  BY <1>1, <1>2 DEF Dropped
<1>7. \A v \in Worker : Removing(v)'
  BY <1>1, <1>6, RemovingLess DEF Live
<1> QED BY <1>1, <1>2, <1>3, <1>4, <1>5, <1>6, <1>7

\* Who follows a page still does when another snapshot is written or lost.
LEMMA EndingKeepsFollowing ==
  ASSUME IndexInv, NEW w \in Worker, NEW left \in SUBSET todo[w], InTransaction(w),
         phase[w] = "batch" => left = {}, EndTransaction(w, left),
         NEW p \in Page, NEW v \in Worker, Following(v, p),
         v = w => \A s \in (todo[w] \ left) \cup found[w] : ~(s.id = p /\ s.page = pages[p])
  PROVE  Following(v, p)'
<1>1. pages' = pages /\ Live' = Live /\ ids' = ids
  BY EndingTransaction DEF Live
<1>2. CASE v # w
  BY <1>1, <1>2, EndingTransaction DEF Following
<1>3. CASE v = w
  <2>1. phase[w] \in {"batch", "each"} /\ todo'[w] = left
    BY EndingTransaction
  <2>2. p \in Live /\ \E s \in left : s.id = p /\ s.page = pages[p]
    BY <1>3, <2>1 DEF Following, Dropped
  <2> QED BY <1>1, <1>3, <2>1, <2>2 DEF Following
<1> QED BY <1>2, <1>3

LEMMA WritingKeepsInv ==
  ASSUME IndexInv, NEW w \in Worker, Write(w)
  PROVE  IndexInv'
<1>1. /\ todo[w] \in SUBSET todo[w] /\ InTransaction(w) /\ (phase[w] = "batch" => todo[w] = {})
      /\ EndTransaction(w, todo[w]) /\ rows' = Upserted(found[w]) /\ missed' = missed
  BY DEF Write
<1>2. pages' = pages /\ Live' = Live /\ used' = used
  BY <1>1, EndingTransaction DEF Live
<1>3. \A s \in found[w] : s \in Snapshot /\ s.id \in held[w] /\ s.id \in Live
                         /\ s.page.text = pages[s.id].text
  BY DEF IndexInv, IndexTypeOK, Locking
<1>4. \A s \in found[w] : [id |-> s.id, text |-> s.page.text, place |-> s.page.place] \in SearchRow
  BY <1>3 DEF Snapshot, PageRow, SearchRow
<1>5. IndexTypeOK'
  BY <1>1, <1>2, <1>4, EndingTransaction DEF IndexInv, IndexTypeOK, Upserted
<1>6. Ages'
  <2>1. \A r \in rows' : r.id \in used /\ (r.id \in Live => r.text <= pages[r.id].text)
    <3>1. \A p \in Live : p \in used /\ pages[p].text \in Nat
      BY DEF IndexInv, IndexTypeOK, PageRow
    <3> QED BY <1>1, <1>3, <3>1 DEF IndexInv, Ages, Upserted
  <2>2. \A q, r \in rows' : q.id = r.id => q = r
    BY <1>1 DEF IndexInv, Ages, Locking, Upserted
  <2> QED BY <1>2, <2>1, <2>2 DEF IndexInv, Ages
<1>7. ASSUME NEW p \in Page
      PROVE  Followed(p)'
  <2>1. CASE p \in missed
    BY <1>1, <2>1 DEF Followed
  <2>2. CASE \E s \in found[w] : s.id = p /\ s.page = pages[p]
    <3>1. PICK s \in found[w] : s.id = p /\ s.page = pages[p]
      BY <2>2
    <3>2. \A r \in found[w] : r.id = p => r = s
      BY <3>1 DEF IndexInv, Locking
    <3>3. RowsOf(p)' = {[id |-> p, text |-> pages[p].text, place |-> pages[p].place]}
      BY <1>1, <3>1, <3>2 DEF RowsOf, Upserted
    <3>4. p \in held[w] /\ p \in Live
      BY <1>3, <3>1
    <3>5. ASSUME NEW v \in Worker, NEW r \in found'[v]
          PROVE  r.id # p
      <4>1. v # w /\ r \in found[v]
        BY <1>1, <3>5, EndingTransaction
      <4>2. r.id \in held[v] /\ held[v] \cap held[w] = {}
        BY <4>1 DEF IndexInv, Locking
      <4> QED BY <3>4, <4>2
    <3> QED BY <1>2, <3>3, <3>4, <3>5 DEF Current, Settled, Followed
  <2>3. ASSUME NEW v \in Worker, Following(v, p),
               ~\E s \in found[w] : s.id = p /\ s.page = pages[p]
        PROVE  Following(v, p)'
    BY <1>1, <2>3, EndingKeepsFollowing
  <2>4. CASE Settled(p) /\ ~\E s \in found[w] : s.id = p /\ s.page = pages[p]
    <3>1. \A s \in found[w] : s.id # p
      BY <2>4 DEF Settled
    <3>2. RowsOf(p)' = RowsOf(p)
      BY <1>1, <3>1 DEF RowsOf, Upserted
    <3>3. \A v \in Worker : \A s \in found'[v] : s.id = p => s.page = pages[p]
      BY <1>1, <2>4, EndingTransaction DEF Settled
    <3> QED BY <1>2, <2>4, <3>2, <3>3 DEF Current, Settled, Followed
  <2> QED BY <2>1, <2>2, <2>3, <2>4 DEF IndexInv, Followed
<1> QED BY <1>1, <1>5, <1>6, <1>7, EndingTransaction DEF IndexInv

LEMMA FailedWriteKeepsInv ==
  ASSUME IndexInv, NEW w \in Worker, WriteFails(w)
  PROVE  IndexInv'
<1> DEFINE lost == found[w] \cup (IF phase[w] = "batch" THEN todo[w] ELSE {})
<1>1. /\ todo[w] \ lost \in SUBSET todo[w] /\ InTransaction(w)
      /\ phase[w] = "batch" => todo[w] \ lost = {}
      /\ EndTransaction(w, todo[w] \ lost) /\ rows' = rows
      /\ missed' = missed \cup {s.id : s \in lost}
  BY DEF WriteFails
<1>2. pages' = pages /\ Live' = Live /\ used' = used
  BY <1>1, EndingTransaction DEF Live
<1>3. lost \subseteq Snapshot
  BY DEF IndexInv, IndexTypeOK
<1>4. missed' \in SUBSET Page
  BY <1>1, <1>3 DEF Snapshot, IndexInv, IndexTypeOK
<1>5. IndexTypeOK'
  BY <1>1, <1>2, <1>4, EndingTransaction DEF IndexInv, IndexTypeOK
<1>6. Ages'
  BY <1>1, <1>2 DEF IndexInv, Ages
<1>7. ASSUME NEW p \in Page, p \notin missed'
      PROVE  Followed(p)'
  <2>1. p \notin missed /\ \A s \in lost : s.id # p
    BY <1>1, <1>7
  <2>2. \A s \in (todo[w] \ (todo[w] \ lost)) \cup found[w] : s.id # p
    BY <2>1
  <2>3. ASSUME NEW v \in Worker, Following(v, p)
        PROVE  Following(v, p)'
    <3> HIDE DEF lost
    <3> QED BY <1>1, <2>2, <2>3, EndingKeepsFollowing
  <2>4. CASE Settled(p)
    <3>1. \A v \in Worker : \A s \in found'[v] : s.id = p => s.page = pages[p]
      BY <1>1, <2>4, EndingTransaction DEF Settled
    <3> QED BY <1>1, <1>2, <2>4, <3>1 DEF RowsOf, Current, Settled, Followed
  <2> QED BY <2>1, <2>3, <2>4 DEF IndexInv, Followed
<1>8. \A p \in Page : Followed(p)'
  BY <1>7 DEF Followed
<1> QED BY <1>1, <1>5, <1>6, <1>8, EndingTransaction DEF IndexInv

LEMMA DeletingRowKeepsInv ==
  ASSUME IndexInv, NEW w \in Worker, NEW p \in ids[w], DeleteRow(w, p)
  PROVE  IndexInv'
<1> DEFINE there == {p} \cap {r.id : r \in rows}
<1>1. /\ phase[w] \in {"remove", "wipe"} /\ ids' = [ids EXCEPT ![w] = @ \ {p}]
      /\ latched' = [latched EXCEPT ![w] = @ \cup there]
      /\ UNCHANGED <<pages, used, rows, phase, todo, found, held, missed, rebuilds>> /\ Live' = Live
  BY DEF DeleteRow, pageVars, Live
<1>2. p \in Page /\ p \in used
  BY DEF IndexInv, IndexTypeOK, Busy
<1>3. IndexTypeOK' /\ Ages'
  BY <1>1, <1>2 DEF IndexInv, IndexTypeOK, Ages
<1>4. ASSUME NEW v \in Worker
      PROVE  Busy(v)'
  <2>1. CASE v = w
    BY <1>1, <1>2, <2>1 DEF IndexInv, IndexTypeOK, Busy
  <2>2. CASE v # w
    BY <1>1, <2>2 DEF IndexInv, IndexTypeOK, Busy
  <2> QED BY <2>1, <2>2
<1>5. \A v \in Worker : Locking(v)'
  BY <1>1 DEF IndexInv, Locking
<1>6. /\ \A v \in Worker \ {w} : Dropped(v)' = Dropped(v)
      /\ Dropped(w)' \subseteq Dropped(w) /\ Dropped(w) \subseteq Dropped(w)' \cup {p}
      /\ there = {p} => Dropped(w)' = Dropped(w)
  BY <1>1 DEF Dropped, IndexInv, IndexTypeOK
<1>7. \A v \in Worker : Removing(v)'
  BY <1>1, <1>6, RemovingLess
<1>8. ASSUME NEW q \in Page
      PROVE  Followed(q)'
  <2>1. ASSUME NEW v \in Worker, Following(v, q), q \in Live \/ q \in Dropped(v)'
        PROVE  Following(v, q)'
    <3>1. q \in Live => phase[w] \notin {"walk", "read"} /\ (v # w => ids'[v] = ids[v])
      BY <1>1 DEF IndexInv, IndexTypeOK
    <3> QED BY <1>1, <2>1, <3>1 DEF Following
  <2>2. Settled(q) => Settled(q)'
    BY <1>1 DEF Settled, RowsOf, Current
  <2>3. ASSUME NEW v \in Worker, Following(v, q), q \notin Live, q \notin Dropped(v)'
        PROVE  Settled(q)'
    <3>1. q = p /\ there = {}
      BY <1>6, <2>3 DEF Following
    <3>2. RowsOf(q)' = {} /\ Current(q)' = {}
      BY <1>1, <2>3, <3>1 DEF RowsOf, Current
    <3>3. \A u \in Worker : \A s \in found[u] : s.id # q
      BY <2>3 DEF IndexInv, Locking
    <3> QED BY <1>1, <3>2, <3>3 DEF Settled
  <2> QED BY <1>1, <2>1, <2>2, <2>3 DEF IndexInv, Followed
<1> QED BY <1>3, <1>4, <1>5, <1>7, <1>8 DEF IndexInv

\* The commit of a removal, after which its rows are gone, and of a clearing, whose worker
\* then lists the pages there are.
LEMMA RowsDeletedKeepsInv ==
  ASSUME IndexInv, NEW w \in Worker, RemovePages(w) \/ Cleared(w)
  PROVE  IndexInv'
<1>1. /\ phase[w] \in {"remove", "wipe"} /\ ids[w] = {}
      /\ phase'[w] = IF phase[w] = "wipe" THEN "walk" ELSE "idle"
      /\ rows' = {r \in rows : r.id \notin latched[w]}
      /\ phase' \in [Worker -> Phase] /\ ids' \in [Worker -> SUBSET Page]
      /\ latched' \in [Worker -> SUBSET Page] /\ latched'[w] = {} /\ ids'[w] = {}
      /\ missed' = {p \in missed : p \in Live \/ \E r \in rows' : r.id = p}
      /\ UNCHANGED <<pages, used, todo, found, held, rebuilds>> /\ Live' = Live
  BY DEF RemovePages, Cleared, RowsDeleted, pageVars, Live, IndexInv, IndexTypeOK, Phase
<1>2. ASSUME NEW v \in Worker \ {w}
      PROVE  /\ phase'[v] = phase[v] /\ latched'[v] = latched[v] /\ ids'[v] \subseteq ids[v]
             /\ phase[v] # "wipe" => ids'[v] = ids[v]
  BY DEF RemovePages, Cleared, RowsDeleted, IndexInv, IndexTypeOK
<1>3. IndexTypeOK' /\ Ages'
  BY <1>1 DEF IndexInv, IndexTypeOK, Ages
<1>4. ASSUME NEW v \in Worker
      PROVE  Busy(v)'
  <2>1. CASE v = w
    BY <1>1, <2>1 DEF IndexInv, Busy
  <2>2. CASE v # w
    BY <1>1, <1>2, <2>2 DEF IndexInv, Busy
  <2> QED BY <2>1, <2>2
<1>5. \A v \in Worker : Locking(v)'
  BY <1>1 DEF IndexInv, Locking
<1>6. Dropped(w)' = {} /\ \A v \in Worker \ {w} : Dropped(v)' = Dropped(v)
  BY <1>1, <1>2 DEF Dropped
<1>7. \A v \in Worker : Removing(v)'
  BY <1>1, <1>6, RemovingLess
<1>8. ASSUME NEW p \in Page
      PROVE  Followed(p)'
  <2>1. ASSUME p \notin Live, RowsOf(p)' = {}
        PROVE  Followed(p)'
    <3>1. \A v \in Worker : \A s \in found[v] : s.id # p
      BY <2>1 DEF IndexInv, Locking
    <3>2. Current(p)' = {}
      BY <1>1, <2>1 DEF Current
    <3> QED BY <1>1, <2>1, <3>1, <3>2 DEF Settled, Followed
  <2>2. CASE p \in missed
    BY <1>1, <2>1, <2>2 DEF RowsOf, Followed
  <2>3. ASSUME NEW v \in Worker \ {w}, Following(v, p)
        PROVE  Followed(p)'
    BY <1>1, <1>2, <1>6, <2>3 DEF Following, Followed
  <2>4. CASE Following(w, p)
    <3>1. p \notin Live /\ p \in latched[w]
      BY <1>1, <2>4 DEF Following, Dropped, IndexInv, Busy
    <3> QED BY <1>1, <2>1, <3>1 DEF RowsOf
  <2>5. CASE Settled(p)
    <3>1. CASE p \notin Live
      BY <1>1, <2>1, <2>5, <3>1 DEF Settled, RowsOf, Current
    <3>2. CASE p \in Live /\ phase[w] = "wipe"
      BY <1>1, <3>2 DEF Following, Followed
    <3>3. CASE p \in Live /\ phase[w] = "remove"
      <4>1. p \notin latched[w]
        BY <3>3 DEF IndexInv, Removing, Dropped
      <4>2. RowsOf(p)' = RowsOf(p) /\ Current(p)' = Current(p)
        BY <1>1, <4>1 DEF RowsOf, Current
      <4> QED BY <1>1, <2>5, <4>2 DEF Settled, Followed
    <3> QED BY <1>1, <3>1, <3>2, <3>3
  <2> QED BY <2>2, <2>3, <2>4, <2>5 DEF IndexInv, Followed
<1> QED BY <1>3, <1>4, <1>5, <1>7, <1>8 DEF IndexInv

LEMMA ClearingKeepsInv ==
  ASSUME IndexInv, NEW w \in Worker, Clear(w)
  PROVE  IndexInv'
<1>1. /\ phase[w] = "clear" /\ phase' = [phase EXCEPT ![w] = "wipe"]
      /\ ids' = [ids EXCEPT ![w] = {r.id : r \in rows}]
      /\ UNCHANGED <<pages, used, rows, todo, found, held, latched, missed, rebuilds>> /\ Live' = Live
  BY DEF Clear, pageVars, lockVars, Live
<1>2. {r.id : r \in rows} \subseteq used /\ used \subseteq Page
  BY DEF IndexInv, IndexTypeOK, Ages
<1>3. IndexTypeOK' /\ Ages'
  BY <1>1, <1>2 DEF IndexInv, IndexTypeOK, Ages, Phase
<1>4. ASSUME NEW v \in Worker
      PROVE  Busy(v)'
  <2>1. CASE v = w
    BY <1>1, <1>2, <2>1 DEF IndexInv, IndexTypeOK, Busy
  <2>2. CASE v # w
    BY <1>1, <2>2 DEF IndexInv, IndexTypeOK, Busy
  <2> QED BY <2>1, <2>2
<1>5. \A v \in Worker : Locking(v)'
  BY <1>1 DEF IndexInv, Locking
<1>6. \A v \in Worker : Dropped(v)' = Dropped(v)
  BY <1>1 DEF Dropped, IndexInv, IndexTypeOK
<1>7. \A v \in Worker : Removing(v)'
  BY <1>1, <1>6, RemovingLess
<1>8. ASSUME NEW p \in Page
      PROVE  Followed(p)'
  <2>1. \A v \in Worker : Following(v, p) => Following(v, p)'
    BY <1>1, <1>6 DEF Following, IndexInv, IndexTypeOK
  <2>2. Settled(p) => Settled(p)'
    BY <1>1 DEF Settled, RowsOf, Current
  <2> QED BY <1>1, <2>1, <2>2 DEF IndexInv, Followed
<1> QED BY <1>3, <1>4, <1>5, <1>7, <1>8 DEF IndexInv

\* The steps of a rebuild, and of a restored revision, before the pages are compared.
LEMMA ReadingKeepsInv ==
  ASSUME IndexInv, NEW w \in Worker, WalkNodes(w) \/ GetPages(w)
  PROVE  IndexInv'
<1>1. /\ phase[w] \in {"walk", "read"} /\ Live' = Live
      /\ UNCHANGED <<pages, used, rows, found, held, latched, rebuilds>>
      /\ missed' \subseteq missed
      /\ \A v \in Worker \ {w} : phase'[v] = phase[v] /\ ids'[v] = ids[v] /\ todo'[v] = todo[v]
      /\ todo[w] = {} /\ found[w] = {} /\ held[w] = {}
  BY DEF WalkNodes, GetPages, pageVars, lockVars, Live, IndexInv, IndexTypeOK, Busy
<1>2. /\ phase' \in [Worker -> Phase] /\ ids' \in [Worker -> SUBSET Page]
      /\ todo' \in [Worker -> SUBSET Snapshot]
      /\ \/ /\ phase[w] = "walk" /\ phase'[w] = "read" /\ ids'[w] = Live /\ todo' = todo
            /\ missed' = missed
         \/ /\ phase[w] = "read" /\ phase'[w] \in {"each", "batch"} /\ ids'[w] = {}
            /\ todo'[w] = Read(ids[w] \cap Live) /\ missed' = missed \ (ids[w] \cap Live)
  <2>1. CASE WalkNodes(w)
    <3>1. Live \in SUBSET Page
      BY DEF IndexInv, IndexTypeOK
    <3> QED BY <2>1, <3>1 DEF WalkNodes, pageVars, IndexInv, IndexTypeOK, Phase
  <2>2. CASE GetPages(w)
    <3>1. Read(ids[w] \cap Live) \in SUBSET Snapshot
      BY DEF IndexInv, IndexTypeOK, Read, Snapshot
    <3> QED BY <2>2, <3>1 DEF GetPages, pageVars, IndexInv, IndexTypeOK, Phase
  <2> QED BY <2>1, <2>2
<1>3. IndexTypeOK' /\ Ages'
  BY <1>1, <1>2 DEF IndexInv, IndexTypeOK, Ages
<1>4. ASSUME NEW v \in Worker
      PROVE  Busy(v)' /\ Locking(v)'
  <2>1. Live \subseteq used
    BY DEF IndexInv, IndexTypeOK
  <2> QED BY <1>1, <1>2, <2>1 DEF IndexInv, IndexTypeOK, Busy, Locking
<1>6. \A v \in Worker : Dropped(v)' = Dropped(v)
  BY <1>1, <1>2 DEF Dropped
<1>7. \A v \in Worker : Removing(v)'
  BY <1>1, <1>6, RemovingLess
<1>5. ASSUME NEW p \in Page
      PROVE  Followed(p)'
  <2>1. ASSUME NEW v \in Worker, Following(v, p)
        PROVE  Following(v, p)'
    <3>1. CASE v # w
      BY <1>1, <1>6, <2>1, <3>1 DEF Following
    <3>2. CASE v = w /\ phase[w] = "walk"
      BY <1>1, <1>2, <1>6, <2>1, <3>2 DEF Following
    <3>3. CASE v = w /\ phase[w] = "read"
      <4>1. p \in ids[w] \cap Live
        BY <1>1, <2>1, <3>3 DEF Following, Dropped
      <4>2. [id |-> p, page |-> pages[p]] \in todo'[w]
        BY <1>2, <3>3, <4>1 DEF Read
      <4> QED BY <1>1, <3>3, <4>1, <4>2 DEF Following
    <3> QED BY <1>1, <3>1, <3>2, <3>3
  <2>2. CASE Settled(p)
    <3>1. RowsOf(p)' = RowsOf(p) /\ Current(p)' = Current(p)
      BY <1>1 DEF RowsOf, Current
    <3> QED BY <1>1, <2>2, <3>1 DEF Settled, Followed
  <2>3. CASE p \in missed /\ p \notin missed'
    <3>1. phase[w] = "read" /\ p \in ids[w] \cap Live
      BY <1>2, <2>3
    <3>2. [id |-> p, page |-> pages[p]] \in todo'[w]
      BY <1>2, <3>1 DEF Read
    <3>3. Following(w, p)'
      BY <1>1, <3>1, <3>2 DEF Following
    <3> QED BY <3>3 DEF Followed
  <2> QED BY <2>1, <2>2, <2>3 DEF IndexInv, Followed
<1> QED BY <1>3, <1>4, <1>5, <1>7 DEF IndexInv

LEMMA FailedStepKeepsInv ==
  ASSUME IndexInv, NEW w \in Worker, StepFails(w)
  PROVE  IndexInv'
<1>1. /\ phase[w] \in {"remove", "read", "walk", "clear", "wipe"}
      /\ phase' = [phase EXCEPT ![w] = "idle"]
      /\ ids' = [ids EXCEPT ![w] = {}] /\ latched' = [latched EXCEPT ![w] = {}]
      /\ UNCHANGED <<pages, used, rows, todo, found, held, rebuilds>> /\ Live' = Live
      /\ missed' = missed \cup Owed(w)
  BY DEF StepFails, pageVars, Live
<1>2. IndexTypeOK' /\ Ages'
  <2>1. missed' \in SUBSET Page
    BY <1>1, FollowedIsOwed DEF IndexInv, IndexTypeOK
  <2> QED BY <1>1, <2>1 DEF IndexInv, IndexTypeOK, Ages, Phase
<1>3. ASSUME NEW v \in Worker
      PROVE  Busy(v)' /\ Locking(v)'
  BY <1>1 DEF IndexInv, IndexTypeOK, Busy, Locking
<1>4. Dropped(w)' = {} /\ \A v \in Worker \ {w} : Dropped(v)' = Dropped(v)
  BY <1>1 DEF Dropped, IndexInv, IndexTypeOK
<1>5. \A v \in Worker : Removing(v)'
  BY <1>1, <1>4, RemovingLess
<1>6. ASSUME NEW p \in Page, p \notin missed'
      PROVE  Followed(p)'
  <2>1. ~Following(w, p)
    BY <1>1, <1>6, FollowedIsOwed
  <2>2. \A v \in Worker \ {w} : Following(v, p) => Following(v, p)'
    BY <1>1, <1>4 DEF Following, IndexInv, IndexTypeOK
  <2>3. Settled(p) => Settled(p)'
    BY <1>1 DEF Settled, RowsOf, Current
  <2> QED BY <1>1, <1>6, <2>1, <2>2, <2>3 DEF IndexInv, Followed
<1>7. \A p \in Page : Followed(p)'
  BY <1>6 DEF Followed
<1> QED BY <1>2, <1>3, <1>5, <1>7 DEF IndexInv

LEMMA StartingKeepsInv ==
  ASSUME IndexInv, StartResync
  PROVE  IndexInv'
<1>1. /\ Resync \in Worker /\ Idle(Resync) /\ phase' = [phase EXCEPT ![Resync] = "clear"]
      /\ UNCHANGED <<pages, used, rows, ids, todo, found, held, latched, missed>> /\ Live' = Live
      /\ rebuilds' \in Nat
  BY DEF StartResync, pageVars, lockVars, Live, Worker, Indexer, IndexInv, IndexTypeOK
<1>2. IndexTypeOK' /\ Ages'
  BY <1>1 DEF IndexInv, IndexTypeOK, Ages, Phase
<1>3. ASSUME NEW v \in Worker
      PROVE  Busy(v)' /\ Locking(v)'
  BY <1>1 DEF Idle, IndexInv, IndexTypeOK, Busy, Locking
<1>4. \A v \in Worker : Dropped(v)' = Dropped(v)
  BY <1>1 DEF Idle, Dropped, IndexInv, IndexTypeOK
<1>5. \A v \in Worker : Removing(v)'
  BY <1>1, <1>4, RemovingLess
<1>6. ASSUME NEW p \in Page
      PROVE  Followed(p)'
  <2>1. \A v \in Worker : Following(v, p) => Following(v, p)'
    BY <1>1, <1>4 DEF Idle, Following, IndexInv, IndexTypeOK
  <2>2. Settled(p) => Settled(p)'
    BY <1>1 DEF Settled, RowsOf, Current
  <2> QED BY <1>1, <2>1, <2>2 DEF IndexInv, Followed
<1> QED BY <1>2, <1>3, <1>5, <1>6 DEF IndexInv

\* What a process that ends owed to the index is missed until the next one has read it.
LEMMA RestartingKeepsInv ==
  ASSUME IndexInv, Restart
  PROVE  IndexInv'
<1>1. /\ UNCHANGED <<pages, used, rows>> /\ Live' = Live /\ rebuilds' \in Nat
      /\ missed' = missed \cup UNION {Owed(w) : w \in Worker}
      /\ \A w \in Worker : /\ ids'[w] = {} /\ todo'[w] = {} /\ found'[w] = {}
                            /\ held'[w] = {} /\ latched'[w] = {} /\ phase'[w] \in {"idle", "clear"}
  BY DEF Restart, pageVars, Live, IndexInv, IndexTypeOK
<1>2. missed' \in SUBSET Page
  BY <1>1, FollowedIsOwed DEF IndexInv, IndexTypeOK
<1>3. IndexTypeOK' /\ Ages'
  BY <1>1, <1>2 DEF Restart, IndexInv, IndexTypeOK, Ages, Phase
<1>4. ASSUME NEW v \in Worker
      PROVE  Busy(v)' /\ Locking(v)' /\ Removing(v)'
  BY <1>1 DEF Busy, Locking, Removing, Dropped
<1>5. ASSUME NEW p \in Page, p \notin missed'
      PROVE  Followed(p)'
  <2>1. Settled(p)
    <3>1. p \notin missed /\ \A w \in Worker : p \notin Owed(w)
      BY <1>1, <1>5
    <3> QED BY <3>1, FollowedIsOwed DEF IndexInv, Followed
  <2>2. Settled(p)'
    BY <1>1, <2>1 DEF Settled, RowsOf, Current
  <2> QED BY <2>2 DEF Followed
<1>6. \A p \in Page : Followed(p)'
  BY <1>5 DEF Followed
<1> QED BY <1>3, <1>4, <1>6 DEF IndexInv

-----------------------------------------------------------------------------
(* The invariant *)

LEMMA InitSatisfiesIndexInv == IndexInit => IndexInv
<1> SUFFICES ASSUME IndexInit
             PROVE  IndexInv
  OBVIOUS
<1>1. Live = {} /\ pages \in [Live -> PageRow] /\ IsFiniteSet(used)
  BY FS_EmptySet DEF IndexInit, Live
<1>2. IndexTypeOK /\ Ages
  BY <1>1 DEF IndexInit, IndexTypeOK, Ages, Phase
<1>3. \A w \in Worker : Busy(w) /\ Locking(w) /\ Removing(w)
  BY <1>1 DEF IndexInit, Busy, Locking, Removing, Dropped
<1>4. \A p \in Page : Followed(p)
  BY <1>1 DEF IndexInit, Settled, RowsOf, Current, Followed
<1> QED BY <1>2, <1>3, <1>4 DEF IndexInv

LEMMA MutationKeepsInv ==
  ASSUME IndexInv, Mutation
  PROVE  IndexInv'
<1>0. Live \subseteq Page
  BY DEF IndexInv, IndexTypeOK
<1>1. CASE \E t \in Thread, p \in Page, place \in Place : Create(t, p, place)
  BY <1>1, CreatingKeepsInv
<1>2. CASE \E t \in Thread, p \in Live : Save(t, p) \/ RestoreRevision(t, p)
  BY <1>2, SavingKeepsInv
<1>3. CASE \E t \in Thread, p \in Live, retext \in BOOLEAN, S \in SUBSET Live, place \in Place :
             Relocate(t, p, retext, S, place)
  BY <1>3, RelocatingKeepsInv
<1>4. CASE \E t \in Thread, S \in SUBSET Live : Delete(t, S)
  BY <1>4, DeletingKeepsInv
<1>5. CASE \E p \in Live : \/ Pin(p) \/ Convert(p) \/ RewriteLinks(p)
                           \/ \E retext \in BOOLEAN, S \in SUBSET Live, place \in Place :
                                Refactor(p, retext, S, place)
  BY <1>5, BareMutationsKeepInv
<1> QED BY <1>1, <1>2, <1>3, <1>4, <1>5 DEF Mutation

LEMMA StepsKeepIndexInv == IndexInv /\ [IndexNext]_indexVars => IndexInv'
<1> SUFFICES ASSUME IndexInv, [IndexNext]_indexVars
             PROVE  IndexInv'
  OBVIOUS
<1>1. CASE UNCHANGED indexVars
  <2>1. UNCHANGED <<pages, used, rows, phase, ids, todo, found, held, latched, missed, rebuilds>> /\ Live' = Live
    BY <1>1 DEF indexVars, Live
  <2>2. \A p \in Page : RowsOf(p)' = RowsOf(p) /\ Current(p)' = Current(p)
    BY <2>1 DEF RowsOf, Current
  <2>3. \A p \in Page : Followed(p)'
    BY <2>1, <2>2 DEF IndexInv, Followed, Following, Settled, Dropped
  <2> QED BY <2>1, <2>3 DEF IndexInv, IndexTypeOK, Ages, Busy, Locking, Removing, Dropped
<1>2. CASE Mutation
  BY <1>2, MutationKeepsInv
<1>3. CASE StartResync \/ Restart
  BY <1>3, StartingKeepsInv, RestartingKeepsInv
<1>4. CASE \E w \in Worker : LookStep(w) \/ RowStep(w) \/ WorkStep(w) \/ FailStep(w)
  BY <1>4, LookingKeepsInv, UpsertingKeepsInv, DeletingRowKeepsInv, WritingKeepsInv,
     RowsDeletedKeepsInv, ClearingKeepsInv, ReadingKeepsInv, FailedWriteKeepsInv, FailedStepKeepsInv
     DEF LookStep, RowStep, WorkStep, FailStep
<1> QED BY <1>1, <1>2, <1>3, <1>4 DEF IndexNext

\* What an open transaction will write is locked and current in its text, and every page is in
\* the index as it is, or somebody will see to it: the invariant behind those below.
THEOREM IndexInvariant == IndexSpec => []IndexInv
<1> QED BY InitSatisfiesIndexInv, StepsKeepIndexInv, PTL DEF IndexSpec

-----------------------------------------------------------------------------
(* The theorems *)

Less == {pair \in Nat \X Nat : pair[1] < pair[2]}

LEMMA LessIsWellFounded == IsWellFoundedOn(Less, Nat)
  BY NatLessThanWellFounded DEF OpToRel, Less

Above(x, S) == {y \in S : y > x}

\* A finite set of numbers has a greatest element.
LEMMA GreatestOf ==
  ASSUME NEW S \in SUBSET Int, IsFiniteSet(S), S # {}
  PROVE  \E x \in S : \A y \in S : y <= x
<1> DEFINE counts == {Cardinality(Above(x, S)) : x \in S}
<1>1. \A x \in S : Above(x, S) \in SUBSET S
  BY DEF Above
<1>2. \A x \in S : IsFiniteSet(Above(x, S)) /\ Cardinality(Above(x, S)) \in Nat
  BY <1>1, FS_Subset, FS_CardinalityType
<1>3. counts \subseteq Nat /\ counts # {}
  BY <1>2
<1>4. PICK n \in counts : \A m \in counts : <<m, n>> \notin Less
  <2> HIDE DEF counts
  <2> QED BY <1>3, LessIsWellFounded, WFMin
<1>5. \A m \in counts : n <= m
  <2> SUFFICES ASSUME NEW m \in counts, m < n
               PROVE  FALSE
    BY <1>3
  <2>1. m \in Nat /\ n \in Nat
    BY <1>3
  <2>2. <<m, n>> \in Less
    BY <2>1 DEF Less
  <2> QED BY <1>4, <2>2
<1>6. PICK x \in S : n = Cardinality(Above(x, S))
  OBVIOUS
<1>7. ASSUME NEW y \in S, y > x
      PROVE  FALSE
  <2>1. x \in Int /\ y \in Int /\ \A z \in S : z \in Int
    OBVIOUS
  <2>2. Above(y, S) \in SUBSET Above(x, S) /\ y \in Above(x, S) /\ y \notin Above(y, S)
    <3>1. ASSUME NEW z \in Above(y, S)
          PROVE  z \in Above(x, S)
      <4>1. z \in S /\ z > y
        BY DEF Above
      <4> QED BY <1>7, <2>1, <4>1 DEF Above
    <3>2. y \in Above(x, S)
      BY <1>7 DEF Above
    <3>3. y \notin Above(y, S)
      BY <2>1 DEF Above
    <3> QED BY <3>1, <3>2, <3>3
  <2>3. /\ Cardinality(Above(y, S)) <= Cardinality(Above(x, S))
        /\ Cardinality(Above(y, S)) # Cardinality(Above(x, S))
    BY <1>2, <2>2, FS_Subset
  <2>4. n <= Cardinality(Above(y, S))
    BY <1>5
  <2> QED BY <1>2, <1>6, <2>3, <2>4
<1>8. ASSUME NEW y \in S
      PROVE  y <= x
  <2>1. x \in Int /\ y \in Int
    OBVIOUS
  <2> QED BY <1>7, <2>1
<1> QED BY <1>8

\* Nobody but a Clear waits for a row, or is waited for because of one.
LEMMA OnlyClearsWaitForRows ==
  ASSUME IndexInv, NEW w \in Worker, NEW v \in Worker \ {w}, phase[w] # "wipe", phase[v] # "wipe"
  PROVE  ~WaitsForRow(w, v)
<1>1. Unwritten(w) \subseteq held[w] /\ held[w] \subseteq Live /\ held[v] \subseteq Live
  BY DEF IndexInv, Locking, Unwritten
<1>2. held[v] \cap held[w] = {} /\ Dropped(v) \cap Dropped(w) = {}
  BY DEF IndexInv, Locking, Removing
<1>3. Dropped(v) \cap Live = {} /\ Dropped(w) \cap Live = {}
  BY DEF IndexInv, Removing
<1>4. phase[v] = "remove" => latched[v] \subseteq Dropped(v)
  BY DEF Dropped
<1>5. phase[v] # "remove" => latched[v] \subseteq held[v]
  BY DEF IndexInv, Busy
<1>6. Unwritten(w) \cap latched[v] = {}
  BY <1>1, <1>2, <1>3, <1>4, <1>5
<1>7. phase[w] = "remove" => ids[w] \cap latched[v] = {}
  <2>1. phase[w] = "remove" => ids[w] \subseteq Dropped(w)
    BY DEF Dropped
  <2> QED BY <1>1, <1>2, <1>3, <1>4, <1>5, <2>1
<1> QED BY <1>6, <1>7 DEF WaitsForRow

LEMMA InvImpliesOnlyClearsCloseCircles == IndexInv => OnlyClearsCloseCircles
<1> SUFFICES ASSUME IndexInv, NEW C \in SUBSET Worker, Circle(C), \A w \in C : phase[w] # "wipe"
             PROVE  FALSE
  BY DEF OnlyClearsCloseCircles
<1> DEFINE locks == UNION {held[w] : w \in C}
<1>1. ASSUME NEW w \in C
      PROVE  \E v \in C \ {w} : WaitsForPage(w, v)
  <2>1. PICK v \in C : WaitsFor(w, v)
    BY DEF Circle
  <2> QED BY <2>1, OnlyClearsWaitForRows DEF WaitsFor
<1>2. locks # {}
  <2>1. PICK w \in C, v \in C : WaitsForPage(w, v)
    BY <1>1 DEF Circle
  <2> QED BY <2>1 DEF WaitsForPage
<1>3. locks \in SUBSET used /\ used \in SUBSET Int /\ IsFiniteSet(used)
  <2>1. \A w \in Worker : held[w] \subseteq used
    BY DEF IndexInv, Locking, IndexTypeOK
  <2> QED BY <2>1, SearchIndexAssumption DEF IndexInv, IndexTypeOK
<1>4. PICK p \in locks : \A q \in locks : q <= p
  <2> HIDE DEF locks
  <2> QED BY <1>2, <1>3, FS_Subset, GreatestOf
<1>5. PICK w \in C : p \in held[w]
  OBVIOUS
<1>6. PICK v \in C \ {w} : WaitsForPage(w, v)
  BY <1>1
<1>7. PICK s \in todo[w] : MayLook(w, s) /\ s.id \in held[v] /\ phase[w] \in {"batch", "each"}
  BY <1>6 DEF WaitsForPage
<1>8. p <= s.id
  <2>1. phase[w] = "batch"
    BY <1>5, <1>7 DEF MayLook
  <2> QED BY <1>5, <1>7, <2>1 DEF IndexInv, Busy
<1>9. s.id <= p /\ s.id # p
  <2>1. s.id \in locks
    BY <1>7
  <2>2. held[v] \cap held[w] = {}
    BY DEF IndexInv, Locking
  <2> QED BY <1>4, <1>5, <1>7, <2>1, <2>2
<1>10. p \in Int /\ s.id \in Int
  <2>1. s.id \in locks
    BY <1>7
  <2> HIDE DEF locks
  <2> QED BY <1>3, <2>1
<1> QED BY <1>8, <1>9, <1>10

\* For any pages and batches: effects of mutations do not wait for one another in a circle,
\* neither on pages, whose greatest locked one is held by a batch that waits for nothing
\* (IndexPages sorts by id), nor on rows; a circle has a Clear in it.
THEOREM OnlyClearsDoClose == IndexSpec => []OnlyClearsCloseCircles
<1> QED BY InvImpliesOnlyClearsCloseCircles, IndexInvariant, PTL

\* However callbacks, rebuilds, failures and restarts are ordered, a page nobody is busy with
\* has its current text and path in the index, unless its last change was missed.
THEOREM IndexAlwaysSettles == IndexSpec => []IndexSettles
<1>1. IndexInv => IndexSettles
  <2> SUFFICES ASSUME IndexInv, NEW p \in Page, p \notin missed, \A w \in Worker : p \notin Owed(w)
               PROVE  RowsOf(p) = Current(p)
    BY DEF IndexSettles
  <2>1. \A w \in Worker : ~Following(w, p)
    BY FollowedIsOwed
  <2> QED BY <2>1 DEF IndexInv, Followed, Settled
<1> QED BY <1>1, IndexInvariant, PTL

\* The text of a row never goes back, and a deleted page never comes back into the index.
THEOREM IndexOnlyAdvances == IndexSpec => IndexAdvances
<1> DEFINE advances == \A q \in rows' : /\ \A r \in rows : r.id = q.id => q.text >= r.text
                                        /\ q.id \in used \ Live => q \in rows
<1>1. ASSUME IndexInv, [IndexNext]_indexVars
      PROVE  advances
  <2>0. /\ \A q, r \in rows : q.id = r.id => q = r
        /\ \A r \in rows : r.text \in Nat
    BY <1>1 DEF IndexInv, IndexTypeOK, Ages, SearchRow
  <2>1. CASE rows' \subseteq rows
    BY <2>0, <2>1
  <2>2. CASE \E w \in Worker : Write(w)
    <3>1. PICK w \in Worker : rows' = Upserted(found[w])
      BY <2>2 DEF Write
    <3>2. ASSUME NEW q \in rows', q \notin rows
          PROVE  q.id \in Live /\ \A r \in rows : r.id = q.id => q.text >= r.text
      <4>1. PICK s \in found[w] : q.id = s.id /\ q.text = s.page.text
        BY <3>1, <3>2 DEF Upserted
      <4>2. s.id \in Live /\ s.page.text = pages[s.id].text
        BY <1>1 DEF IndexInv, Locking
      <4>3. pages[s.id].text \in Nat
        BY <1>1, <4>2 DEF IndexInv, IndexTypeOK, PageRow
      <4>4. \A r \in rows : r.id = s.id => r.text <= pages[s.id].text
        BY <1>1, <4>2 DEF IndexInv, Ages
      <4> QED BY <2>0, <4>1, <4>2, <4>3, <4>4
    <3> QED BY <2>0, <3>2
  <2>3. rows' \subseteq rows \/ \E w \in Worker : Write(w)
    BY <1>1 DEF IndexNext, indexVars, Mutation, Create, Save, RestoreRevision, Relocate, Delete, Pin,
       Convert, RewriteLinks, Refactor, Indexed, Unindexed, StartResync, Restart, LookStep, RowStep, WorkStep,
       FailStep, Look, Looked, Upsert, DeleteRow, RowsDeleted, RemovePages, Clear, Cleared, WalkNodes,
       GetPages, WriteFails, StepFails
  <2> QED BY <2>1, <2>2, <2>3
<1>2. IndexInv /\ [IndexNext]_indexVars => [advances]_indexVars
  BY <1>1
<1> QED BY <1>2, IndexInvariant, PTL DEF IndexSpec, IndexAdvances

=============================================================================
