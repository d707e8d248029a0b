-------------------------- MODULE PageHistoryProofs --------------------------
(***************************************************************************)
(* The history of pages, for any pages, users and bounds: the latest       *)
(* revision is the page, every revision can be opened, a text that was     *)
(* saved stays as long as the limit and its author let it, and the latest  *)
(* revision lists the files that are there once nothing is under way.      *)
(*                                                                         *)
(* The argument for a saved text is where it is: in a revision that is at  *)
(* most as far from the end as revisions were made since, and that only    *)
(* its author can still replace.  Coalescing replaces the last revision of *)
(* an author by the next, and pruning cuts what is MaxRevisions away.      *)
(*                                                                         *)
(* At the end, the tables of tags and properties, for any pages, threads   *)
(* and failures.                                                           *)
(***************************************************************************)
EXTENDS PageHistory, MetadataIndex, FiniteSetTheorems, SequenceTheorems, TLAPS

Text == [save : Nat, old : BOOLEAN]
Entry == [type : RevisionType, author : User \cup {NoOne}, body : Text, manifest : SUBSET Asset]
Record == [revs : Seq(Entry), recent : BOOLEAN, stored : SUBSET Text]

\* A record whose revisions can be opened
Whole(h) == h \in Record /\ \A r \in Listed(h) : r.body \in h.stored

\* From h to g, what was in h is at most one place further from the end, unless it is cut or it is
\* the last and one of U replaces what is their own.
Keeps(h, g, U) ==
  \A i \in 1 .. Len(h.revs) :
    /\ Len(h.revs) - i + 1 < MaxRevisions
    /\ i = Len(h.revs) /\ h.recent => h.revs[i].author \notin U
    => \E j \in 1 .. Len(g.revs) :
         /\ g.revs[j].body = h.revs[i].body
         /\ Len(g.revs) - j <= Len(h.revs) - i + 1
         /\ j = Len(g.revs) /\ g.recent =>
              i = Len(h.revs) /\ h.recent /\ g.revs[j].author = h.revs[i].author

\* g has at most one revision more than h, and the last one has this body and manifest.
Recorded(h, g, U, body, manifest) ==
  /\ Whole(g) /\ g.revs # <<>> /\ Latest(g).body = body /\ Latest(g).manifest = manifest
  /\ Keeps(h, g, U)
  /\ \A r \in Listed(g) : /\ r.body = body \/ \E q \in Listed(h) : q.body = r.body
                          /\ r.manifest = manifest \/ \E q \in Listed(h) : q.manifest = r.manifest

-----------------------------------------------------------------------------
(* Records *)

LEMMA LatestIsListed ==
  ASSUME NEW h \in Record, h.revs # <<>>
  PROVE  Len(h.revs) \in Nat \ {0} /\ Latest(h) \in Listed(h) /\ Latest(h) \in Entry
<1>1. h.revs \in Seq(Entry) /\ Len(h.revs) \in Nat
  BY DEF Record
<1>2. Len(h.revs) # 0
  BY <1>1
<1> QED BY <1>1, <1>2 DEF Latest, Listed

\* A revision that is appended is the last, and the others keep their places.
LEMMA Appending ==
  ASSUME NEW h, Whole(h), NEW type \in RevisionType, NEW u \in User \cup {NoOne}, NEW body \in Text,
         NEW manifest \in SUBSET Asset, NEW g, g = Appended(h, type, u, body, manifest)
  PROVE  /\ Whole(g) /\ Len(g.revs) = Len(h.revs) + 1 /\ g.recent = (type = "content")
         /\ g.revs[Len(g.revs)] = [type |-> type, author |-> u, body |-> body, manifest |-> manifest]
         /\ \A i \in 1 .. Len(h.revs) : g.revs[i] = h.revs[i]
<1> DEFINE rev == [type |-> type, author |-> u, body |-> body, manifest |-> manifest]
<1>1. h.revs \in Seq(Entry) /\ h.stored \in SUBSET Text /\ Len(h.revs) \in Nat
  BY DEF Whole, Record
<1>2. rev \in Entry
  BY DEF Entry
<1>3. g = [revs |-> Append(h.revs, rev), recent |-> type = "content", stored |-> h.stored \cup {body}]
  BY DEF Appended
<1>4. g.revs = Append(h.revs, rev) /\ g.recent = (type = "content") /\ g.stored = h.stored \cup {body}
  BY <1>3
<1>5. /\ g.revs \in Seq(Entry) /\ Len(g.revs) = Len(h.revs) + 1 /\ g.revs[Len(g.revs)] = rev
      /\ \A i \in 1 .. Len(h.revs) : g.revs[i] = h.revs[i]
  <2> HIDE DEF rev
  <2> QED BY <1>1, <1>2, <1>4
<1>6. g \in Record
  BY <1>1, <1>3, <1>5, <1>4 DEF Record
<1>7. ASSUME NEW i \in 1 .. Len(g.revs)
      PROVE  g.revs[i].body \in g.stored
  <2>1. CASE i = Len(g.revs)
    BY <1>4, <1>5, <2>1
  <2>2. CASE i # Len(g.revs)
    <3>1. i \in 1 .. Len(h.revs)
      BY <1>1, <1>5, <2>2
    <3> QED BY <1>4, <1>5, <3>1 DEF Whole, Listed
  <2> QED BY <2>1, <2>2
<1> QED BY <1>4, <1>5, <1>6, <1>7 DEF Whole, Listed

\* Pruning cuts at the beginning, and leaves MaxRevisions of them.
LEMMA Pruning ==
  ASSUME NEW h, Whole(h), h.revs # <<>>, NEW g, g = Pruned(h)
  PROVE  /\ Whole(g) /\ Len(g.revs) \in 1 .. Len(h.revs) /\ g.recent = h.recent
         /\ Len(g.revs) = Len(h.revs) \/ Len(g.revs) = MaxRevisions
         /\ \A i \in 1 .. Len(g.revs) : g.revs[i] = h.revs[i + (Len(h.revs) - Len(g.revs))]
<1>1. h.revs \in Seq(Entry) /\ Len(h.revs) \in Nat \ {0} /\ MaxRevisions \in Nat \ {0}
  BY LatestIsListed, PageHistoryAssumption DEF Whole, Record
<1>2. CASE Len(h.revs) <= MaxRevisions
  <2>1. g = h
    BY <1>2 DEF Pruned
  <2> QED BY <1>1, <2>1
<1>3. CASE ~(Len(h.revs) <= MaxRevisions)
  <2> DEFINE n == Len(h.revs)
             cut == SubSeq(h.revs, n - MaxRevisions + 1, n)
  <2>1. g = [h EXCEPT !.revs = cut]
    BY <1>3 DEF Pruned
  <2>2. g.revs = cut /\ g.recent = h.recent /\ g.stored = h.stored
    BY <2>1 DEF Whole, Record
  <2>3. /\ cut \in Seq(Entry) /\ Len(cut) = MaxRevisions
        /\ \A i \in 1 .. MaxRevisions : cut[i] = h.revs[i + (n - MaxRevisions)]
    BY <1>1, <1>3
  <2>4. g \in Record
    BY <2>1, <2>3 DEF Whole, Record
  <2>5. \A i \in 1 .. MaxRevisions : i + (n - MaxRevisions) \in 1 .. n
    BY <1>1, <1>3
  <2>6. Whole(g)
    BY <2>2, <2>3, <2>4, <2>5 DEF Whole, Listed
  <2> QED BY <1>1, <1>3, <2>2, <2>3, <2>6
<1> QED BY <1>2, <1>3

\* A revision that is added, with or without pruning
LEMMA Adding ==
  ASSUME NEW h, Whole(h), NEW type \in RevisionType, NEW u \in User \cup {NoOne}, NEW body \in Text,
         NEW manifest \in SUBSET Asset, NEW U,
         NEW g \in {Appended(h, type, u, body, manifest), Pruned(Appended(h, type, u, body, manifest))}
  PROVE  Recorded(h, g, U, body, manifest) /\ Latest(g).author = u /\ g.recent = (type = "content")
<1>1. PICK a : a = Appended(h, type, u, body, manifest)
  OBVIOUS
<1>2. PICK n : n = Len(h.revs)
  OBVIOUS
<1>3. PICK m : m = Len(g.revs)
  OBVIOUS
<1>4. n \in Nat /\ MaxRevisions \in Nat \ {0} /\ h.revs \in Seq(Entry)
  BY <1>2, PageHistoryAssumption DEF Whole, Record
<1>5. PICK rev : rev = [type |-> type, author |-> u, body |-> body, manifest |-> manifest]
  OBVIOUS
<1>6. /\ Whole(a) /\ Len(a.revs) = n + 1 /\ a.recent = (type = "content")
      /\ a.revs[n + 1] = rev /\ \A i \in 1 .. n : a.revs[i] = h.revs[i]
  BY <1>1, <1>2, <1>4, <1>5, Appending
<1>7. a.revs # <<>>
  BY <1>4, <1>6 DEF Whole, Record
<1>8. /\ Whole(g) /\ m \in 1 .. n + 1 /\ g.recent = a.recent
      /\ m = n + 1 \/ m = MaxRevisions
      /\ \A i \in 1 .. m : g.revs[i] = a.revs[i + (n + 1 - m)]
  <2>1. CASE g = a
    <3>1. m = n + 1 /\ \A i \in 1 .. m : i + (n + 1 - m) = i
      BY <1>3, <1>4, <1>6, <2>1
    <3> QED BY <1>4, <1>6, <2>1, <3>1
  <2>2. CASE g = Pruned(a)
    <3>1. /\ Whole(g) /\ m \in 1 .. Len(a.revs) /\ g.recent = a.recent
          /\ m = Len(a.revs) \/ m = MaxRevisions
          /\ \A i \in 1 .. m : g.revs[i] = a.revs[i + (Len(a.revs) - m)]
      <4>1. Whole(a)
        BY <1>6
      <4>2. /\ Whole(g) /\ Len(g.revs) \in 1 .. Len(a.revs) /\ g.recent = a.recent
            /\ Len(g.revs) = Len(a.revs) \/ Len(g.revs) = MaxRevisions
            /\ \A i \in 1 .. Len(g.revs) : g.revs[i] = a.revs[i + (Len(a.revs) - Len(g.revs))]
        BY <4>1, <1>7, <2>2, Pruning
      <4> QED BY <1>3, <4>2
    <3>2. Len(a.revs) = n + 1 /\ n \in Nat /\ m \in Nat
      BY <1>4, <1>6, <3>1
    <3>3. m \in 1 .. n + 1 /\ (m = n + 1 \/ m = MaxRevisions)
      BY <3>1, <3>2
    <3>4. Len(a.revs) - m = n + 1 - m
      BY <3>2
    <3> QED BY <3>1, <3>3, <3>4
  <2> QED BY <1>1, <2>1, <2>2
<1>9. g.revs[m] = rev /\ Latest(g) = rev
  <2>1. m + (n + 1 - m) = n + 1 /\ m \in 1 .. m
    BY <1>4, <1>8
  <2> QED BY <1>3, <1>6, <1>8, <2>1 DEF Latest
<1>10. ASSUME NEW i \in 1 .. m, i # m
       PROVE  i + (n + 1 - m) \in 1 .. n /\ g.revs[i] = h.revs[i + (n + 1 - m)]
  <2>1. i + (n + 1 - m) \in 1 .. n
    BY <1>4, <1>8, <1>10
  <2> QED BY <1>6, <1>8, <2>1
<1>11. Keeps(h, g, U)
  <2> SUFFICES ASSUME NEW i \in 1 .. n, n - i + 1 < MaxRevisions
               PROVE  \E j \in 1 .. m : /\ g.revs[j] = h.revs[i]
                                        /\ m - j <= n - i + 1 /\ j # m
    BY <1>2, <1>3 DEF Keeps
  <2>1. PICK j \in Int : j = i - (n + 1 - m)
    BY <1>4, <1>8
  <2>2. j \in 1 .. m /\ m - j <= n - i + 1 /\ j # m /\ j + (n + 1 - m) = i
    BY <1>4, <1>8, <2>1
  <2>3. g.revs[j] = h.revs[i]
    BY <1>10, <2>2
  <2> QED BY <2>2, <2>3
<1>12. g.revs # <<>>
  BY <1>3, <1>4, <1>8 DEF Whole, Record
<1>13. \A r \in Listed(g) : r = rev \/ r \in Listed(h)
  <2> SUFFICES ASSUME NEW i \in 1 .. m, i # m
               PROVE  g.revs[i] \in Listed(h)
    BY <1>3, <1>9 DEF Listed
  <2> QED BY <1>2, <1>10 DEF Listed
<1>14. rev.body = body /\ rev.manifest = manifest /\ rev.author = u
  BY <1>5
<1> QED BY <1>6, <1>8, <1>9, <1>11, <1>12, <1>13, <1>14 DEF Recorded

LEMMA AddingPruned ==
  ASSUME NEW h, Whole(h), NEW type \in RevisionType, NEW u \in User \cup {NoOne}, NEW body \in Text,
         NEW manifest \in SUBSET Asset
  PROVE  /\ \A U : Recorded(h, Pruned(Appended(h, type, u, body, manifest)), U, body, manifest)
         /\ Latest(Pruned(Appended(h, type, u, body, manifest))).author = u
<1>1. PICK g : g = Pruned(Appended(h, type, u, body, manifest))
  OBVIOUS
<1>2. ASSUME NEW U
      PROVE  Recorded(h, g, U, body, manifest) /\ Latest(g).author = u
  BY <1>1, Adding
<1> QED BY <1>1, <1>2

\* Nothing is added when the latest revision has what is to be recorded.
LEMMA Leaving ==
  ASSUME NEW h, Whole(h), h.revs # <<>>, NEW U
  PROVE  Recorded(h, h, U, Latest(h).body, Latest(h).manifest)
<1>1. Len(h.revs) \in Nat
  BY DEF Whole, Record
<1>2. Keeps(h, h, U)
  BY <1>1 DEF Keeps
<1> QED BY <1>2 DEF Recorded

\* The last revision, which is u's, gets the body.
LEMMA Coalescing ==
  ASSUME NEW h, Whole(h), h.revs # <<>>, NEW u, h.recent, Latest(h).author = u, NEW body \in Text
  PROVE  /\ Recorded(h, Coalesced(h, u, body), {u}, body, Latest(h).manifest)
         /\ Latest(Coalesced(h, u, body)).author = u
<1>0. PICK g : g = Coalesced(h, u, body)
  OBVIOUS
<1> DEFINE n == Len(h.revs)
           rev == [h.revs[n] EXCEPT !.body = body]
           revs == [h.revs EXCEPT ![n].body = body]
           stored == {b \in h.stored \cup {body} :
                        b # Latest(h).body \/ \E i \in DOMAIN revs : revs[i].body = b}
<1>1. n \in Nat \ {0} /\ h.revs \in Seq(Entry) /\ h.revs[n] \in Entry /\ h \in Record
  BY LatestIsListed DEF Whole, Record, Latest
<1>2. rev \in Entry /\ rev.body = body /\ rev.manifest = h.revs[n].manifest /\ rev.author = h.revs[n].author
  BY <1>1 DEF Entry
<1>3. revs = [h.revs EXCEPT ![n] = rev]
  BY <1>1
<1>4. /\ revs \in Seq(Entry) /\ Len(revs) = n
      /\ \A i \in 1 .. n : revs[i] = IF i = n THEN rev ELSE h.revs[i]
  <2> HIDE DEF rev, revs
  <2> QED BY <1>1, <1>2, <1>3, ExceptSeq
<1>5. g = [h EXCEPT !.revs = revs, !.stored = stored]
  BY <1>0 DEF Coalesced
<1>6. /\ g.revs = revs /\ g.stored = stored /\ g.recent = h.recent
      /\ g = [revs |-> revs, recent |-> h.recent, stored |-> stored]
  BY <1>1, <1>5 DEF Record
<1>7. h.revs[n].author = u
  BY DEF Latest
<1>8. DOMAIN revs = 1 .. n
  BY <1>4 DEF Entry
<1> HIDE DEF rev, revs
<1>9. Whole(g)
  <2>1. g \in Record
    BY <1>1, <1>4, <1>6 DEF Record
  <2>2. ASSUME NEW i \in 1 .. n
        PROVE  revs[i].body \in stored
    <3>1. revs[i].body \in h.stored \cup {body}
      BY <1>2, <1>4 DEF Whole, Listed
    <3> QED BY <1>8, <3>1
  <2> QED BY <1>4, <1>6, <2>1, <2>2 DEF Whole, Listed
<1>10. Latest(g) = rev /\ g.revs # <<>>
  BY <1>1, <1>4, <1>6 DEF Latest
<1>11. Keeps(h, g, {u})
  <2> SUFFICES ASSUME NEW i \in 1 .. n, i # n
               PROVE  g.revs[i].body = h.revs[i].body /\ n - i <= n - i + 1 /\ i # Len(g.revs)
    BY <1>1, <1>4, <1>6, <1>7 DEF Keeps
  <2> QED BY <1>1, <1>4, <1>6
<1>12. \A r \in Listed(g) : r = rev \/ r \in Listed(h)
  BY <1>4, <1>6 DEF Listed
<1>13. h.revs[n] \in Listed(h)
  BY <1>1 DEF Listed
<1>14. Recorded(h, g, {u}, body, Latest(h).manifest) /\ Latest(g).author = u
  BY <1>2, <1>7, <1>9, <1>10, <1>11, <1>12, <1>13 DEF Recorded, Latest
<1> QED BY <1>0, <1>14

\* A body that is recorded by u replaces at most the last revision, which is then u's.
LEMMA RecordingContent ==
  ASSUME NEW h, Whole(h), h.recent => h.revs # <<>>, NEW u \in User \cup {NoOne}, NEW body \in Text,
         NEW live \in SUBSET Asset
  PROVE  Recorded(h, ContentRecorded(h, u, body, live), {u}, body, ResolvedManifest(h, live))
<1>1. CASE h.revs # <<>> /\ Latest(h).body = body
  BY <1>1, Leaving DEF ContentRecorded, ResolvedManifest
<1>2. CASE ~(h.revs # <<>> /\ Latest(h).body = body) /\ ShouldCoalesce(h, u)
  <2>1. ContentRecorded(h, u, body, live) = Coalesced(h, u, body)
    BY <1>2 DEF ContentRecorded
  <2>2. h.recent /\ Latest(h).author = u /\ h.revs # <<>>
    BY <1>2 DEF ShouldCoalesce
  <2>3. Recorded(h, Coalesced(h, u, body), {u}, body, Latest(h).manifest)
    BY <2>2, Coalescing
  <2> QED BY <2>1, <2>2, <2>3 DEF ResolvedManifest
<1>3. CASE ~(h.revs # <<>> /\ Latest(h).body = body) /\ ~ShouldCoalesce(h, u)
  <2>1. ContentRecorded(h, u, body, live) = Pruned(Appended(h, "content", u, body, ResolvedManifest(h, live)))
    BY <1>3 DEF ContentRecorded
  <2>2. ResolvedManifest(h, live) \in SUBSET Asset
    BY LatestIsListed DEF ResolvedManifest, Whole, Entry
  <2>3. "content" \in RevisionType
    BY DEF RevisionType
  <2> QED BY <2>1, <2>2, <2>3, AddingPruned
<1> QED BY <1>1, <1>2, <1>3

\* A new body is recorded in the name of its author.
LEMMA RecordingAuthor ==
  ASSUME NEW h, Whole(h), h.recent => h.revs # <<>>, NEW u \in User \cup {NoOne}, NEW body \in Text,
         NEW live \in SUBSET Asset, ~(h.revs # <<>> /\ Latest(h).body = body)
  PROVE  Latest(ContentRecorded(h, u, body, live)).author = u
<1>1. CASE ShouldCoalesce(h, u)
  <2>1. ContentRecorded(h, u, body, live) = Coalesced(h, u, body)
    BY <1>1 DEF ContentRecorded
  <2>2. h.recent /\ Latest(h).author = u /\ h.revs # <<>>
    BY <1>1 DEF ShouldCoalesce
  <2>3. Latest(Coalesced(h, u, body)).author = u
    BY <2>2, Coalescing
  <2> QED BY <2>1, <2>3
<1>2. CASE ~ShouldCoalesce(h, u)
  <2>1. ContentRecorded(h, u, body, live) = Pruned(Appended(h, "content", u, body, ResolvedManifest(h, live)))
    BY <1>2 DEF ContentRecorded
  <2>2. ResolvedManifest(h, live) \in SUBSET Asset
    BY LatestIsListed DEF ResolvedManifest, Whole, Entry
  <2>3. "content" \in RevisionType
    BY DEF RevisionType
  <2> QED BY <2>1, <2>2, <2>3, AddingPruned
<1> QED BY <1>1, <1>2

LEMMA RecordingStructure ==
  ASSUME NEW h, Whole(h), h.revs # <<>>, NEW u \in User \cup {NoOne}, NEW body \in Text,
         NEW live, NEW U
  PROVE  Recorded(h, StructureRecorded(h, u, body, live), U, body, Latest(h).manifest)
<1>1. Latest(h).manifest \in SUBSET Asset
  BY LatestIsListed DEF Whole, Entry
<1>2. StructureRecorded(h, u, body, live)
        = Pruned(Appended(h, "structure", u, body, Latest(h).manifest))
  BY DEF StructureRecorded, ResolvedManifest
<1>3. "structure" \in RevisionType
  BY DEF RevisionType
<1> QED BY <1>1, <1>2, <1>3, AddingPruned

LEMMA RecordingAssets ==
  ASSUME NEW h, Whole(h), NEW u \in User \cup {NoOne}, NEW body \in Text,
         NEW live \in SUBSET Asset, NEW U
  PROVE  Recorded(h, AssetsRecorded(h, u, body, live), U, body, live)
<1>1. CASE h.revs # <<>> /\ Latest(h).body = body /\ Latest(h).manifest = live
  <2>1. AssetsRecorded(h, u, body, live) = h
    BY <1>1 DEF AssetsRecorded
  <2>2. Recorded(h, h, U, Latest(h).body, Latest(h).manifest)
    BY <1>1, Leaving
  <2> QED BY <1>1, <2>1, <2>2
<1>2. CASE ~(h.revs # <<>> /\ Latest(h).body = body /\ Latest(h).manifest = live)
  <2>1. AssetsRecorded(h, u, body, live) = Pruned(Appended(h, "asset", u, body, live))
    BY <1>2 DEF AssetsRecorded
  <2>2. "asset" \in RevisionType
    BY DEF RevisionType
  <2> QED BY <2>1, <2>2, AddingPruned
<1> QED BY <1>1, <1>2

LEMMA RecordingRestore ==
  ASSUME NEW h, Whole(h), NEW u \in User \cup {NoOne}, NEW body \in Text,
         NEW live \in SUBSET Asset, NEW U
  PROVE  Recorded(h, RestoreRecorded(h, u, body, live), U, body, live)
<1>1. "restore" \in RevisionType
  BY DEF RevisionType
<1> QED BY <1>1, Adding DEF RestoreRecorded

-----------------------------------------------------------------------------
(* The invariant *)

\* The texts that were saved so far, each with and without the old path
Known == [save : 0 .. Len(saves), old : BOOLEAN]
SaveRecord == [page : Page, author : User \cup {NoOne}, again : BOOLEAN, after : Nat]

SavesTyped == saves \in Seq(SaveRecord) /\ \A n \in 1 .. Len(saves) : saves[n].page \in used

Typed ==
  /\ bodies \in [Live -> Known] /\ DOMAIN history = Live /\ history = [p \in Live |-> history[p]]
  /\ Live \subseteq used /\ used \subseteq Page /\ reaped \subseteq used \ Live
  /\ files \in [Page -> SUBSET Asset] /\ unrecorded \in [User -> Page \cup {NoOne}]

\* The latest revision is the page, and each can be opened.
PageKept(p) ==
  /\ Whole(history[p]) /\ history[p].revs # <<>> /\ Latest(history[p]).body = bodies[p]
  /\ \A r \in Listed(history[p]) : r.body \in Known /\ Kept(r.manifest) \subseteq blobs

\* Where the n-th text is in the history of its page
Held(h, n, s) ==
  \E j \in 1 .. Len(h.revs) :
    /\ h.revs[j].body.save = n /\ Len(h.revs) - j <= s.after
    /\ j = Len(h.revs) /\ h.recent => h.revs[j].author = s.author

SavesHeld ==
  \A n \in 1 .. Len(saves) :
    saves[n].page \in Live /\ ~saves[n].again /\ saves[n].after < MaxRevisions
      => Held(history[saves[n].page], n, saves[n])

\* The files that the latest revision of p is about
Due(p) == IF restore.phase # "none" /\ restore.page = p THEN restore.before ELSE files[p]

FilesDue ==
  \A p \in Live \ strayed :
    (\A u \in User : unrecorded[u] # p) => Latest(history[p]).manifest = Due(p)

Restoring ==
  [phase : {"clear", "copy", "record"}, user : User, page : Live,
   rev : {r \in Entry : r.body \in Known}, before : SUBSET Asset]

RestoreTyped == restore \in {NoRestore} \cup Restoring

Draft(f) == f = [q \in DOMAIN f |-> f[q]] /\ \A q \in DOMAIN f : f[q] \in Known

JobTyped ==
  /\ job = [phase |-> job.phase, user |-> job.user, target |-> job.target, fresh |-> job.fresh,
            affected |-> job.affected, snap |-> job.snap, todo |-> job.todo]
  /\ job.user \in User \cup {NoOne} /\ Draft(job.snap) /\ Draft(job.todo)

HistoryInv ==
  /\ SavesTyped /\ Typed /\ (\A p \in Live : PageKept(p)) /\ SavesHeld
  /\ FilesDue /\ RestoreTyped /\ JobTyped

-----------------------------------------------------------------------------
(* Writing pages *)

LEMMA NotedSaves ==
  ASSUME SavesTyped, NEW u, NEW p, NEW W
  PROVE  /\ Noted(u, p, W) \in Seq(SaveRecord) /\ Len(Noted(u, p, W)) = Len(saves)
         /\ Len(saves) \in Nat /\ Saved = 1 .. Len(saves)
         /\ \A n \in 1 .. Len(saves) :
              /\ saves[n] \in SaveRecord /\ Noted(u, p, W)[n].page = saves[n].page
              /\ Noted(u, p, W)[n].author = saves[n].author
              /\ saves[n].page \notin W => Noted(u, p, W)[n] = saves[n]
              /\ saves[n].page \in W =>
                   /\ Noted(u, p, W)[n].again = (saves[n].again \/ (saves[n].page = p /\ saves[n].author = u))
                   /\ Noted(u, p, W)[n].after = IF saves[n].after < MaxRevisions THEN saves[n].after + 1
                                                ELSE saves[n].after
<1>1. saves \in Seq(SaveRecord) /\ Len(saves) \in Nat /\ Saved = 1 .. Len(saves)
  BY DEF SavesTyped, Saved
<1>2. PICK f : f = Noted(u, p, W)
  OBVIOUS
<1>3. DOMAIN f = 1 .. Len(saves)
  BY <1>1, <1>2 DEF Noted
<1>4. ASSUME NEW n \in 1 .. Len(saves)
      PROVE  /\ saves[n] \in SaveRecord /\ f[n] \in SaveRecord /\ f[n].page = saves[n].page
             /\ f[n].author = saves[n].author
             /\ saves[n].page \notin W => f[n] = saves[n]
             /\ saves[n].page \in W =>
                  /\ f[n].again = (saves[n].again \/ (saves[n].page = p /\ saves[n].author = u))
                  /\ f[n].after = IF saves[n].after < MaxRevisions THEN saves[n].after + 1
                                  ELSE saves[n].after
  <2>1. saves[n] \in SaveRecord
    BY <1>1
  <2>2. f[n] = IF saves[n].page \notin W THEN saves[n]
               ELSE [saves[n] EXCEPT
                       !.again = @ \/ (saves[n].page = p /\ saves[n].author = u),
                       !.after = IF @ < MaxRevisions THEN @ + 1 ELSE @]
    BY <1>1, <1>2 DEF Noted
  <2>3. CASE saves[n].page \notin W
    BY <2>1, <2>2, <2>3
  <2>4. CASE saves[n].page \in W
    <3>1. PICK again \in BOOLEAN : again = (saves[n].again \/ (saves[n].page = p /\ saves[n].author = u))
      OBVIOUS
    <3>2. PICK after \in Nat : after = IF saves[n].after < MaxRevisions THEN saves[n].after + 1
                                      ELSE saves[n].after
      BY <2>1 DEF SaveRecord
    <3>3. f[n] = [saves[n] EXCEPT !.again = again, !.after = after]
      BY <2>2, <2>4, <3>1, <3>2
    <3>4. f[n] \in SaveRecord /\ f[n].page = saves[n].page /\ f[n].author = saves[n].author
      BY <2>1, <3>3 DEF SaveRecord
    <3>5. f[n].again = again /\ f[n].after = after
      BY <2>1, <3>3 DEF SaveRecord
    <3> QED BY <2>1, <2>4, <3>1, <3>2, <3>4, <3>5
  <2> QED BY <2>3, <2>4
<1>5. f = [n \in 1 .. Len(saves) |-> f[n]]
  BY <1>1, <1>2 DEF Noted
<1>6. f \in Seq(SaveRecord) /\ Len(f) = Len(saves)
  BY <1>1, <1>3, <1>4, <1>5
<1> QED BY <1>1, <1>2, <1>4, <1>6

\* A step writes pages of W, and those who may replace a last revision of theirs are noted.
LEMMA WritingPages ==
  ASSUME HistoryInv, NEW W, NEW p, NEW u \in User \cup {NoOne},
         Live' = Live, used' = used, blobs \subseteq blobs',
         \/ saves' = Noted(u, p, W)
         \/ /\ saves' = Noted(u, p, W) \o NewSave(u, p) /\ p \in Live
            /\ bodies'[p].save = Len(saves) + 1 /\ Latest(history'[p]).author = u,
         \A q \in Live :
           \/ q \notin W /\ bodies'[q] = bodies[q] /\ history'[q] = history[q]
           \/ /\ q \in W
              /\ Recorded(history[q], history'[q], IF q = p THEN {u} ELSE {}, bodies'[q],
                          Latest(history'[q]).manifest)
              /\ bodies'[q] \in Known' /\ Kept(Latest(history'[q]).manifest) \subseteq blobs'
  PROVE  /\ SavesTyped' /\ SavesHeld' /\ \A q \in Live : PageKept(q)'
         /\ Len(saves) \in Nat /\ Len(saves') \in {Len(saves), Len(saves) + 1}
         /\ Known \subseteq Known'
<1> DEFINE noted == Noted(u, p, W)
<1>1. /\ noted \in Seq(SaveRecord) /\ Len(noted) = Len(saves) /\ Len(saves) \in Nat
      /\ \A n \in 1 .. Len(saves) :
           /\ saves[n] \in SaveRecord /\ noted[n].page = saves[n].page
           /\ noted[n].author = saves[n].author
           /\ saves[n].page \notin W => noted[n] = saves[n]
           /\ saves[n].page \in W =>
                /\ noted[n].again = (saves[n].again \/ (saves[n].page = p /\ saves[n].author = u))
                /\ noted[n].after = IF saves[n].after < MaxRevisions THEN saves[n].after + 1
                                    ELSE saves[n].after
  BY NotedSaves DEF HistoryInv
<1> DEFINE new == [page |-> p, author |-> u, again |-> FALSE, after |-> 0]
<1>2. \A s : NewSave(u, p) = <<new>>
  BY DEF NewSave
<1> HIDE DEF noted, new
<1>3. /\ Len(saves') \in {Len(saves), Len(saves) + 1}
      /\ \A n \in 1 .. Len(saves) : saves'[n] = noted[n]
      /\ Len(saves') = Len(saves) + 1 =>
           /\ saves'[Len(saves) + 1] = new /\ p \in Live
           /\ bodies'[p].save = Len(saves) + 1 /\ Latest(history'[p]).author = u
      /\ p \in Live => saves' \in Seq(SaveRecord)
      /\ p \notin Live => saves' = noted
  <2>1. p \in Live => p \in Page
    BY DEF HistoryInv, Typed
  <2>2. p \in Page => new \in SaveRecord
    BY <2>1 DEF new, SaveRecord
  <2>3. CASE saves' = noted
    BY <1>1, <2>3
  <2>4. CASE saves' = noted \o <<new>> /\ p \in Live
             /\ bodies'[p].save = Len(saves) + 1 /\ Latest(history'[p]).author = u
    BY <1>1, <2>1, <2>2, <2>4
  <2> QED BY <1>2, <2>3, <2>4 DEF noted
<1>4. SavesTyped'
  <2>1. saves' \in Seq(SaveRecord)
    BY <1>1, <1>3
  <2>2. p \in Live => p \in used
    BY DEF HistoryInv, Typed
  <2>3. ASSUME NEW n \in 1 .. Len(saves')
        PROVE  saves'[n].page \in used
    <3>1. CASE n \in 1 .. Len(saves)
      BY <1>1, <1>3, <3>1 DEF HistoryInv, SavesTyped
    <3>2. CASE n \notin 1 .. Len(saves)
      BY <1>1, <1>3, <2>2, <3>2 DEF new
    <3> QED BY <3>1, <3>2
  <2> QED BY <2>1, <2>3 DEF SavesTyped
<1>5. Known \subseteq Known'
  BY <1>1, <1>3 DEF Known
<1>6. ASSUME NEW q \in Live
      PROVE  PageKept(q)'
  <2>1. PageKept(q)
    BY DEF HistoryInv
  <2>2. CASE bodies'[q] = bodies[q] /\ history'[q] = history[q]
    BY <1>5, <2>1, <2>2 DEF PageKept
  <2>3. CASE /\ Recorded(history[q], history'[q], IF q = p THEN {u} ELSE {}, bodies'[q],
                         Latest(history'[q]).manifest)
             /\ bodies'[q] \in Known' /\ Kept(Latest(history'[q]).manifest) \subseteq blobs'
    <3>1. \A r \in Listed(history'[q]) :
            /\ r.body = bodies'[q] \/ \E o \in Listed(history[q]) : o.body = r.body
            /\ r.manifest = Latest(history'[q]).manifest
                 \/ \E o \in Listed(history[q]) : o.manifest = r.manifest
      BY <2>3 DEF Recorded
    <3>2. \A r \in Listed(history'[q]) : r.body \in Known' /\ Kept(r.manifest) \subseteq blobs'
      BY <1>5, <2>1, <2>3, <3>1 DEF PageKept
    <3> QED BY <2>3, <3>2 DEF PageKept, Recorded
  <2> QED BY <2>2, <2>3
<1>7. SavesHeld'
  <2> SUFFICES ASSUME NEW n \in 1 .. Len(saves'), saves'[n].page \in Live,
                      ~saves'[n].again, saves'[n].after < MaxRevisions
               PROVE  Held(history'[saves'[n].page], n, saves'[n])
    BY DEF SavesHeld
  <2>1. CASE n \in 1 .. Len(saves)
    <3> DEFINE s == saves[n]
    <3>1. /\ s \in SaveRecord /\ saves'[n] = noted[n] /\ saves'[n].page = s.page
          /\ saves'[n].author = s.author
      BY <1>1, <1>3, <2>1
    <3>2. SavesHeld
      BY DEF HistoryInv
    <3>3. CASE s.page \notin W /\ history'[s.page] = history[s.page]
      <4>1. saves'[n] = s
        BY <1>1, <2>1, <3>1, <3>3
      <4> QED BY <2>1, <3>2, <3>3, <4>1 DEF SavesHeld
    <3>4. CASE /\ s.page \in W
               /\ Recorded(history[s.page], history'[s.page], IF s.page = p THEN {u} ELSE {},
                           bodies'[s.page], Latest(history'[s.page]).manifest)
      <4> DEFINE h == history[s.page]
                 g == history'[s.page]
      <4>1. MaxRevisions \in Nat /\ s.after \in Nat
        BY <3>1, PageHistoryAssumption DEF SaveRecord
      <4>2. ~s.again /\ s.after < MaxRevisions
        BY <1>1, <2>1, <3>1, <4>1
      <4>3. Held(h, n, s)
        BY <2>1, <3>1, <3>2, <4>2 DEF SavesHeld
      <4>4. PICK i \in 1 .. Len(h.revs) :
              /\ h.revs[i].body.save = n /\ Len(h.revs) - i <= s.after
              /\ i = Len(h.revs) /\ h.recent => h.revs[i].author = s.author
        BY <4>3 DEF Held
      <4>5. saves'[n].after = s.after + 1 /\ ~(s.page = p /\ s.author = u)
        <5>1. /\ noted[n].again = (s.again \/ (s.page = p /\ s.author = u))
              /\ noted[n].after = IF s.after < MaxRevisions THEN s.after + 1 ELSE s.after
          BY <1>1, <2>1, <3>4
        <5> QED BY <3>1, <4>2, <5>1
      <4>6. Len(h.revs) \in Nat
        BY <3>1, LatestIsListed DEF HistoryInv, PageKept, Whole
      <4>7. /\ Len(h.revs) - i + 1 < MaxRevisions
            /\ i = Len(h.revs) /\ h.recent =>
                 h.revs[i].author \notin IF s.page = p THEN {u} ELSE {}
        <5>1. Len(h.revs) - i + 1 < MaxRevisions
          <6>1. PICK x \in Nat : x = Len(h.revs)
            BY <4>6
          <6>2. PICK z \in Nat : z = s.after
            BY <4>1
          <6>3. i \in Int /\ x - i <= z
            BY <4>4, <6>1, <6>2
          <6>4. z + 1 < MaxRevisions
            BY <4>5, <6>2
          <6>5. x - i + 1 < MaxRevisions
            BY <4>1, <6>3, <6>4
          <6> QED BY <6>1, <6>5
        <5>2. i = Len(h.revs) /\ h.recent => ~(s.page = p /\ h.revs[i].author = u)
          BY <4>4, <4>5
        <5> QED BY <5>1, <5>2
      <4>8. Keeps(h, g, IF s.page = p THEN {u} ELSE {})
        BY <3>4 DEF Recorded
      <4>9. PICK j \in 1 .. Len(g.revs) :
              /\ g.revs[j].body = h.revs[i].body /\ Len(g.revs) - j <= Len(h.revs) - i + 1
              /\ j = Len(g.revs) /\ g.recent =>
                   i = Len(h.revs) /\ h.recent /\ g.revs[j].author = h.revs[i].author
        BY <4>7, <4>8 DEF Keeps
      <4>10. Len(g.revs) \in Nat
        BY <3>4, LatestIsListed DEF Recorded, Whole
      <4>11. Len(g.revs) - j <= saves'[n].after
        <5>1. PICK x \in Nat : x = Len(h.revs)
          BY <4>6
        <5>2. PICK y \in Nat : y = Len(g.revs)
          BY <4>10
        <5>3. PICK z \in Nat : z = s.after
          BY <4>1
        <5>4. i \in Int /\ x - i <= z
          BY <4>4, <5>1, <5>3
        <5>5. j \in Int /\ y - j <= x - i + 1
          BY <4>9, <5>1, <5>2
        <5>6. y - j <= z + 1
          BY <5>4, <5>5
        <5> QED BY <4>5, <5>2, <5>3, <5>6
      <4> QED BY <3>1, <4>4, <4>9, <4>11 DEF Held
    <3> QED BY <3>1, <3>3, <3>4
  <2>2. CASE n \notin 1 .. Len(saves)
    <3>1. n = Len(saves) + 1 /\ saves'[n] = new /\ bodies'[p].save = n /\ Latest(history'[p]).author = u
          /\ p \in Live
      BY <1>1, <1>3, <2>2
    <3>2. PageKept(p)'
      BY <1>6, <3>1
    <3>3. /\ Whole(history'[p]) /\ history'[p].revs # <<>>
          /\ Latest(history'[p]).body.save = n
      BY <3>1, <3>2 DEF PageKept
    <3>4. /\ Len(history'[p].revs) \in Nat \ {0}
          /\ Latest(history'[p]) = history'[p].revs[Len(history'[p].revs)]
      BY <3>3, LatestIsListed DEF Whole, Latest
    <3> QED BY <3>1, <3>3, <3>4 DEF Held, new
  <2> QED BY <2>1, <2>2
<1> QED BY <1>1, <1>3, <1>4, <1>5, <1>6, <1>7

LEMMA KnownTexts ==
  ASSUME SavesTyped
  PROVE  Known \subseteq Text
BY DEF SavesTyped, Known, Text

\* A text of the page or of its history, or a new one, is known when it is written.
LEMMA SendingKnown ==
  ASSUME HistoryInv, NEW p \in Live, NEW u \in User \cup {NoOne}, NEW body \in Sent(p), NEW W,
         IF body \in SavedBodies THEN saves' = Noted(u, p, W) \o NewSave(u, p)
                                 ELSE saves' = Noted(u, p, W)
  PROVE  /\ body \in Known' /\ body \in Text
         /\ body \in SavedBodies => body.save = Len(saves) + 1 /\ body # bodies[p]
<1>1. PICK noted \in Seq(SaveRecord) : noted = Noted(u, p, W) /\ Len(noted) = Len(saves) /\ Len(saves) \in Nat
  BY NotedSaves DEF HistoryInv
<1>2. p \in Page /\ bodies[p] \in Known
  BY DEF HistoryInv, Typed
<1>3. CASE body \in SavedBodies
  <2>1. PICK old \in BOOLEAN : body = [save |-> Len(saves) + 1, old |-> old]
    BY <1>3, PageHistoryAssumption DEF SavedBodies
  <2>2. PICK new \in SaveRecord : NewSave(u, p) = <<new>>
    BY <1>2 DEF NewSave, SaveRecord
  <2>3. Len(saves') = Len(saves) + 1
    <3>1. saves' = noted \o <<new>>
      BY <1>1, <1>3, <2>2
    <3> QED BY <1>1, <3>1
  <2>4. body \in Known' /\ body \in Text
    BY <1>1, <2>1, <2>3 DEF Known, Text
  <2>5. body.save = Len(saves) + 1
    BY <2>1
  <2> QED BY <1>1, <1>2, <2>4, <2>5 DEF Known
<1>4. CASE body \notin SavedBodies
  <2>1. Len(saves') = Len(saves)
    BY <1>1, <1>4
  <2>2. body \in Known
    <3>1. PageKept(p)
      BY DEF HistoryInv
    <3> QED BY <1>2, <1>4, <3>1 DEF Sent, PageKept
  <2> QED BY <1>4, <2>1, <2>2, KnownTexts DEF Known, HistoryInv
<1> QED BY <1>3, <1>4

\* The history after an update, in place or with everything below the page
LEMMA Updating ==
  ASSUME HistoryInv, NEW p \in Live, NEW u \in User \cup {NoOne}, NEW body \in Sent(p),
         NEW moves \in BOOLEAN, NEW titled \in BOOLEAN, Updated(u, p, body, moves, titled),
         used' = used, blobs' = blobs
  PROVE  /\ SavesTyped' /\ SavesHeld' /\ \A q \in Live : PageKept(q)'
         /\ Live' = Live /\ bodies' \in [Live -> Known'] /\ bodies'[p] = body
         /\ history' = [q \in Live |-> history'[q]] /\ DOMAIN history' = Live
         /\ Known \subseteq Known'
         /\ \A q \in Live : Latest(history'[q]).manifest = Latest(history[q]).manifest
<1> DEFINE W == IF moves THEN Below[p] ELSE {p}
<1>1. /\ bodies \in [Live -> Known] /\ p \in Page /\ SavesTyped
      /\ \A q \in Live : PageKept(q) /\ files[q] \in SUBSET Asset
  BY DEF HistoryInv, Typed
<1>2. p \in W
  BY <1>1, PageHistoryAssumption
<1>3. Live' = Live /\ bodies' = [bodies EXCEPT ![p] = body]
  BY <1>1 DEF Updated, Live
<1>4. IF body \in SavedBodies THEN saves' = Noted(u, p, W) \o NewSave(u, p)
                              ELSE saves' = Noted(u, p, W)
  BY DEF Updated
<1> HIDE DEF W
<1>5. /\ body \in Known' /\ body \in Text
      /\ body \in SavedBodies => body.save = Len(saves) + 1 /\ body # bodies[p]
  BY <1>4, SendingKnown
<1>6. Known \subseteq Text /\ Known \subseteq Known'
  <2>1. PICK noted \in Seq(SaveRecord) : noted = Noted(u, p, W) /\ Len(noted) = Len(saves) /\ Len(saves) \in Nat
    BY <1>1, NotedSaves
  <2>2. PICK new \in SaveRecord : NewSave(u, p) = <<new>>
    BY <1>1 DEF NewSave, SaveRecord
  <2>3. Len(saves') \in {Len(saves), Len(saves) + 1}
    BY <1>4, <2>1, <2>2
  <2> QED BY <1>1, <2>1, <2>3, KnownTexts DEF Known
<1>7. history' = Effected(u, p, body, moves, titled)
  BY DEF Updated
<1>8. history' = [q \in Live |-> history'[q]] /\ DOMAIN history' = Live
  BY <1>7 DEF Effected
<1>9. ASSUME NEW q \in Live
      PROVE  /\ \/ q \notin W /\ bodies'[q] = bodies[q] /\ history'[q] = history[q]
                \/ /\ q \in W
                   /\ Recorded(history[q], history'[q], IF q = p THEN {u} ELSE {}, bodies'[q],
                               Latest(history'[q]).manifest)
             /\ Latest(history'[q]).manifest = Latest(history[q]).manifest
             /\ q = p /\ body # bodies[p] => Latest(history'[q]).author = u
  <2> DEFINE h == history[q]
             g == history'[q]
             U == IF q = p THEN {u} ELSE {}
  <2>1. /\ Whole(h) /\ h.revs # <<>> /\ Latest(h).body = bodies[q] /\ files[q] \in SUBSET Asset
        /\ bodies[q] \in Text
    BY <1>1, <1>6 DEF PageKept
  <2>2. g = IF q = p /\ body # bodies[p] THEN ContentRecorded(h, u, body, files[q])
            ELSE IF q \in Below[p] /\ moves THEN StructureRecorded(h, u, bodies[q], files[q])
            ELSE IF q = p /\ titled THEN StructureRecorded(h, u, bodies[q], files[q])
            ELSE h
    BY <1>7 DEF Effected
  <2>3. bodies'[q] = IF q = p THEN body ELSE bodies[q]
    BY <1>1, <1>3
  <2> HIDE DEF h, g, U
  <2>4. ASSUME Recorded(h, g, U, bodies'[q], Latest(h).manifest)
        PROVE  /\ Recorded(h, g, U, bodies'[q], Latest(g).manifest)
               /\ Latest(g).manifest = Latest(h).manifest
    BY <2>4 DEF Recorded
  <2>5. CASE q = p /\ body # bodies[p]
    <3>1. g = ContentRecorded(h, u, body, files[q])
      BY <2>2, <2>5
    <3>2. Recorded(h, g, {u}, body, ResolvedManifest(h, files[q]))
      <4>1. body \in Text
        BY <1>5
      <4> QED BY <2>1, <3>1, <4>1, RecordingContent
    <3>3. Latest(h).body # body => Latest(g).author = u
      <4>1. body \in Text
        BY <1>5
      <4> QED BY <2>1, <3>1, <4>1, RecordingAuthor
    <3>4. ResolvedManifest(h, files[q]) = Latest(h).manifest
      BY <2>1 DEF ResolvedManifest
    <3>5. Recorded(h, g, U, bodies'[q], Latest(h).manifest)
      BY <2>3, <2>5, <3>2, <3>4 DEF U
    <3> QED BY <1>2, <2>1, <2>4, <2>5, <3>3, <3>5 DEF h, g, U
  <2>6. CASE ~(q = p /\ body # bodies[p]) /\ g = StructureRecorded(h, u, bodies[q], files[q])
             /\ ((q \in Below[p] /\ moves) \/ q = p)
    <3>1. Recorded(h, g, U, bodies[q], Latest(h).manifest)
      BY <2>1, <2>6, RecordingStructure
    <3>2. bodies'[q] = bodies[q]
      BY <2>3, <2>6
    <3>3. q \in W
      BY <1>2, <2>6 DEF W
    <3> QED BY <2>4, <2>6, <3>1, <3>2, <3>3 DEF h, g, U
  <2>7. CASE ~(q = p /\ body # bodies[p]) /\ ~(q \in Below[p] /\ moves) /\ g = h
    <3>1. Recorded(h, h, U, Latest(h).body, Latest(h).manifest)
      BY <2>1, Leaving
    <3>2. bodies'[q] = bodies[q]
      BY <2>3, <2>7
    <3>3. q \in W => q = p
      BY <2>7 DEF W
    <3>4. CASE q = p
      BY <1>2, <2>1, <2>4, <2>7, <3>1, <3>2, <3>4 DEF h, g, U
    <3>5. CASE q # p
      BY <2>7, <3>2, <3>3, <3>5 DEF h, g, U
    <3> QED BY <3>4, <3>5
  <2> QED BY <2>2, <2>5, <2>6, <2>7
<1>10. \A q \in Live : bodies'[q] \in Known'
  BY <1>1, <1>3, <1>5, <1>6
<1>11. \A q \in Live : Kept(Latest(history'[q]).manifest) \subseteq blobs'
  <2> SUFFICES ASSUME NEW q \in Live
               PROVE  Kept(Latest(history[q]).manifest) \subseteq blobs
    BY <1>9
  <2>1. Latest(history[q]) \in Listed(history[q])
    BY <1>1, LatestIsListed DEF PageKept, Whole
  <2> QED BY <1>1, <2>1 DEF PageKept
<1>12. \/ saves' = Noted(u, p, W)
       \/ /\ saves' = Noted(u, p, W) \o NewSave(u, p) /\ p \in Live
          /\ bodies'[p].save = Len(saves) + 1 /\ Latest(history'[p]).author = u
  BY <1>1, <1>3, <1>4, <1>5, <1>9
<1>13. /\ SavesTyped' /\ SavesHeld' /\ \A q \in Live : PageKept(q)'
  BY <1>3, <1>9, <1>10, <1>11, <1>12, WritingPages
<1>14. bodies' \in [Live -> Known'] /\ bodies'[p] = body
  BY <1>1, <1>3, <1>10
<1> QED BY <1>3, <1>6, <1>8, <1>9, <1>13, <1>14

\* One page is written, and no new text is saved.
LEMMA WritingOne ==
  ASSUME HistoryInv, NEW p \in Live, NEW u \in User \cup {NoOne},
         Live' = Live, used' = used, blobs \subseteq blobs', saves' = Noted(u, p, {p}),
         \A q \in Live : q # p => bodies'[q] = bodies[q] /\ history'[q] = history[q],
         Recorded(history[p], history'[p], {u}, bodies'[p], Latest(history'[p]).manifest),
         bodies'[p] \in Known, Kept(Latest(history'[p]).manifest) \subseteq blobs'
  PROVE  SavesTyped' /\ SavesHeld' /\ (\A q \in Live : PageKept(q)') /\ Known' = Known
<1>1. Known' = Known
  <2>1. Len(saves') = Len(saves)
    BY NotedSaves DEF HistoryInv
  <2> QED BY <2>1 DEF Known
<1>2. \A q \in Live :
        \/ q \notin {p} /\ bodies'[q] = bodies[q] /\ history'[q] = history[q]
        \/ /\ q \in {p}
           /\ Recorded(history[q], history'[q], IF q = p THEN {u} ELSE {}, bodies'[q],
                       Latest(history'[q]).manifest)
           /\ bodies'[q] \in Known' /\ Kept(Latest(history'[q]).manifest) \subseteq blobs'
  <2> SUFFICES ASSUME NEW q \in Live
               PROVE  \/ q \notin {p} /\ bodies'[q] = bodies[q] /\ history'[q] = history[q]
                      \/ /\ q \in {p}
                         /\ Recorded(history[q], history'[q], IF q = p THEN {u} ELSE {}, bodies'[q],
                                     Latest(history'[q]).manifest)
                         /\ bodies'[q] \in Known' /\ Kept(Latest(history'[q]).manifest) \subseteq blobs'
    OBVIOUS
  <2>1. CASE q = p
    BY <1>1, <2>1
  <2>2. CASE q # p
    BY <2>2
  <2> QED BY <2>1, <2>2
<1>3. SavesTyped' /\ SavesHeld' /\ \A q \in Live : PageKept(q)'
  <2>1. PICK W : W = {p}
    OBVIOUS
  <2>2. \A q \in Live :
          \/ q \notin W /\ bodies'[q] = bodies[q] /\ history'[q] = history[q]
          \/ /\ q \in W
             /\ Recorded(history[q], history'[q], IF q = p THEN {u} ELSE {}, bodies'[q],
                         Latest(history'[q]).manifest)
             /\ bodies'[q] \in Known' /\ Kept(Latest(history'[q]).manifest) \subseteq blobs'
    BY <1>2, <2>1
  <2>3. saves' = Noted(u, p, W)
    BY <2>1
  <2> QED BY <2>2, <2>3, WritingPages
<1> QED BY <1>1, <1>3

-----------------------------------------------------------------------------
(* Steps that leave the pages as they are *)

\* What is said of pages, texts and revisions stays when they do.
LEMMA Keeping ==
  ASSUME HistoryInv, UNCHANGED <<bodies, used, history, saves>>, blobs \subseteq blobs'
  PROVE  /\ SavesTyped' /\ SavesHeld' /\ (\A q \in Live' : PageKept(q)')
         /\ Live' = Live /\ Known' = Known
         /\ bodies' \in [Live' -> Known'] /\ DOMAIN history' = Live'
         /\ history' = [p \in Live' |-> history'[p]] /\ Live' \subseteq used' /\ used' \subseteq Page
         /\ \A q \in Live : Latest(history'[q]) = Latest(history[q])
<1>1. SavesTyped'
  BY DEF HistoryInv, SavesTyped
<1>2. Live' = Live /\ Known' = Known
  BY DEF Live, Known
<1>3. SavesHeld'
  BY <1>2 DEF HistoryInv, SavesHeld
<1>4. ASSUME NEW q \in Live
      PROVE  PageKept(q)'
  BY <1>2, <1>4 DEF HistoryInv, PageKept
<1> QED BY <1>1, <1>2, <1>3, <1>4 DEF HistoryInv, Typed

LEMMA KeepingJob ==
  ASSUME JobTyped, UNCHANGED job, Known \subseteq Known'
  PROVE  JobTyped'
BY DEF JobTyped, Draft

LEMMA FreshJob ==
  ASSUME JobTyped, NEW fresh, job' = [job EXCEPT !.fresh = fresh], Known \subseteq Known'
  PROVE  JobTyped'
<1>1. job' = [phase |-> job.phase, user |-> job.user, target |-> job.target, fresh |-> fresh,
              affected |-> job.affected, snap |-> job.snap, todo |-> job.todo]
  BY DEF JobTyped
<1>2. /\ job'.phase = job.phase /\ job'.user = job.user /\ job'.target = job.target
      /\ job'.fresh = fresh /\ job'.affected = job.affected /\ job'.snap = job.snap
      /\ job'.todo = job.todo
  BY <1>1
<1> QED BY <1>1, <1>2 DEF JobTyped, Draft

LEMMA NoJobTyped ==
  ASSUME job' = NoJob
  PROVE  JobTyped'
BY DEF NoJob, None, JobTyped, Draft

LEMMA Resting ==
  ASSUME RestoreTyped
  PROVE  Unrestored => restore = NoRestore
BY DEF RestoreTyped, Restoring, Unrestored

LEMMA KeepingRestore ==
  ASSUME RestoreTyped, UNCHANGED restore, Live' = Live, Known' = Known
  PROVE  RestoreTyped'
BY DEF RestoreTyped, Restoring

LEMMA LoadingPage ==
  ASSUME HistoryInv, NEW u, NEW p, LoadPage(u, p)
  PROVE  HistoryInv'
<1>1. UNCHANGED <<bodies, used, history, restore, job, saves, files, blobs, unrecorded, reaped, strayed>>
  BY DEF LoadPage, fileVars
<1>2. Live' = Live /\ Known' = Known
  BY <1>1 DEF Live, Known
<1>3. FilesDue'
  BY <1>1, <1>2 DEF HistoryInv, FilesDue, Due
<1> QED BY <1>1, <1>2, <1>3, Keeping, KeepingJob, KeepingRestore DEF HistoryInv, Typed

LEMMA WindowPassing ==
  ASSUME HistoryInv, NEW p, WindowPasses(p)
  PROVE  HistoryInv'
<1>1. /\ UNCHANGED <<bodies, used, restore, job, saves, files, blobs, unrecorded, reaped, strayed>>
      /\ p \in Live /\ history' = [history EXCEPT ![p].recent = FALSE]
  BY DEF WindowPasses, fileVars
<1>2. Live' = Live /\ Known' = Known
  BY <1>1 DEF Live, Known
<1>3. /\ DOMAIN history = Live /\ history = [q \in Live |-> history[q]]
      /\ DOMAIN history' = Live /\ history' = [q \in Live |-> history'[q]]
      /\ \A q \in Live : history'[q] = IF q = p THEN [history[q] EXCEPT !.recent = FALSE] ELSE history[q]
  BY <1>1 DEF HistoryInv, Typed
<1>4. ASSUME NEW q \in Live
      PROVE  /\ history'[q].revs = history[q].revs /\ history'[q] \in Record
             /\ history'[q].stored = history[q].stored
             /\ history'[q].recent => history[q].recent
  <2>1. history[q] \in Record
    BY DEF HistoryInv, PageKept, Whole
  <2>2. [history[q] EXCEPT !.recent = FALSE] \in Record
    BY <2>1 DEF Record
  <2> QED BY <1>3, <2>1, <2>2 DEF Record
<1>5. ASSUME NEW q \in Live
      PROVE  /\ Latest(history'[q]) = Latest(history[q]) /\ Listed(history'[q]) = Listed(history[q])
             /\ Whole(history[q]) => Whole(history'[q])
             /\ \A n, s : Held(history[q], n, s) => Held(history'[q], n, s)
  <2>1. Latest(history'[q]) = Latest(history[q]) /\ Listed(history'[q]) = Listed(history[q])
    BY <1>4 DEF Latest, Listed
  <2>2. Whole(history[q]) => Whole(history'[q])
    BY <1>4, <2>1 DEF Whole
  <2>3. ASSUME NEW n, NEW s, Held(history[q], n, s)
        PROVE  Held(history'[q], n, s)
    BY <1>4, <2>3 DEF Held
  <2> QED BY <2>1, <2>2, <2>3
<1>6. \A q \in Live : PageKept(q)'
  BY <1>1, <1>2, <1>4, <1>5 DEF HistoryInv, PageKept
<1>7. SavesHeld'
  <2> SUFFICES ASSUME NEW n \in 1 .. Len(saves), saves[n].page \in Live, ~saves[n].again,
                      saves[n].after < MaxRevisions
               PROVE  Held(history'[saves[n].page], n, saves[n])
    BY <1>1, <1>2 DEF SavesHeld
  <2> QED BY <1>5 DEF HistoryInv, SavesHeld
<1>8. FilesDue'
  BY <1>1, <1>2, <1>5 DEF HistoryInv, FilesDue, Due
<1>9. SavesTyped' /\ Typed'
  BY <1>1, <1>2, <1>3 DEF HistoryInv, SavesTyped, Typed
<1> QED BY <1>1, <1>2, <1>6, <1>7, <1>8, <1>9, KeepingJob, KeepingRestore DEF HistoryInv

-----------------------------------------------------------------------------
(* Attachments *)

\* A changed file waits for its revision.
LEMMA FileChanging ==
  ASSUME HistoryInv, NEW u \in User, NEW p, NEW F \in SUBSET Asset, FileChanged(u, p, F)
  PROVE  HistoryInv'
<1>1. /\ UNCHANGED <<bodies, used, history, restore, job, saves, blobs, reaped, strayed>>
      /\ p \in Live /\ unrecorded[u] = NoOne
      /\ files' = [files EXCEPT ![p] = F] /\ unrecorded' = [unrecorded EXCEPT ![u] = p]
  BY DEF FileChanged
<1>2. Live' = Live /\ Known' = Known
  BY <1>1 DEF Live, Known
<1>3. /\ Live \subseteq Page /\ files \in [Page -> SUBSET Asset]
      /\ unrecorded \in [User -> Page \cup {NoOne}] /\ reaped \subseteq used \ Live
  BY DEF HistoryInv, Typed
<1>4. files' \in [Page -> SUBSET Asset] /\ unrecorded' \in [User -> Page \cup {NoOne}]
  BY <1>1, <1>3
<1>5. FilesDue'
  <2> SUFFICES ASSUME NEW q \in Live \ strayed, \A v \in User : unrecorded'[v] # q
               PROVE  Latest(history[q]).manifest = Due(q)'
    BY <1>1, <1>2 DEF FilesDue
  <2>1. q # p
    BY <1>1, <1>3
  <2>2. \A v \in User : unrecorded[v] # q
    BY <1>1, <1>3, PageHistoryAssumption
  <2>3. Due(q)' = Due(q)
    BY <1>1, <1>3, <2>1 DEF Due
  <2> QED BY <2>2, <2>3 DEF HistoryInv, FilesDue
<1> QED BY <1>1, <1>2, <1>3, <1>4, <1>5, Keeping, KeepingJob, KeepingRestore DEF HistoryInv, Typed

LEMMA FailingToRecord ==
  ASSUME HistoryInv, NEW u \in User, RecordAssetChangeFails(u)
  PROVE  HistoryInv'
<1>1. /\ UNCHANGED <<bodies, used, history, restore, job, saves, files, blobs, reaped>>
      /\ strayed' = strayed \cup {unrecorded[u]}
      /\ unrecorded' = [unrecorded EXCEPT ![u] = NoOne]
  BY DEF RecordAssetChangeFails, pageVars
<1>2. Live' = Live /\ Known' = Known
  BY <1>1 DEF Live, Known
<1>3. unrecorded \in [User -> Page \cup {NoOne}]
  BY DEF HistoryInv, Typed
<1>4. unrecorded' \in [User -> Page \cup {NoOne}]
  BY <1>1, <1>3
<1>5. FilesDue'
  <2> SUFFICES ASSUME NEW q \in Live \ strayed', \A v \in User : unrecorded'[v] # q
               PROVE  Latest(history[q]).manifest = Due(q)'
    BY <1>1, <1>2 DEF FilesDue
  <2>1. \A v \in User : unrecorded[v] # q
    BY <1>1, <1>3
  <2>2. Due(q)' = Due(q)
    BY <1>1 DEF Due
  <2> QED BY <1>1, <2>1, <2>2 DEF HistoryInv, FilesDue
<1> QED BY <1>1, <1>2, <1>4, <1>5, Keeping, KeepingJob, KeepingRestore DEF HistoryInv, Typed

LEMMA DeletingFiles ==
  ASSUME HistoryInv, NEW p, DeleteFiles(p)
  PROVE  HistoryInv'
<1>1. /\ UNCHANGED <<bodies, used, history, restore, job, saves, blobs, unrecorded, strayed>>
      /\ p \in reaped /\ reaped' = reaped \ {p} /\ files' = [files EXCEPT ![p] = {}]
  BY DEF DeleteFiles, pageVars
<1>2. Live' = Live /\ Known' = Known
  BY <1>1 DEF Live, Known
<1>3. files \in [Page -> SUBSET Asset] /\ reaped \subseteq used \ Live /\ Live \subseteq Page
  BY DEF HistoryInv, Typed
<1>4. files' \in [Page -> SUBSET Asset] /\ \A q \in Live : files'[q] = files[q]
  BY <1>1, <1>3
<1>5. FilesDue'
  BY <1>1, <1>2, <1>4 DEF HistoryInv, FilesDue, Due
<1> QED BY <1>1, <1>2, <1>3, <1>4, <1>5, Keeping, KeepingJob, KeepingRestore DEF HistoryInv, Typed

\* The revision of a changed file, if its page is still there
LEMMA RecordingAssetChange ==
  ASSUME HistoryInv, NEW u \in User, RecordAssetChange(u)
  PROVE  HistoryInv'
<1> DEFINE p == unrecorded[u]
<1>1. /\ UNCHANGED <<bodies, used, files, reaped, restore, job>>
      /\ Unrestored /\ p # NoOne /\ unrecorded' = [unrecorded EXCEPT ![u] = NoOne]
  BY DEF RecordAssetChange
<1>2. /\ unrecorded \in [User -> Page \cup {NoOne}] /\ bodies \in [Live -> Known]
      /\ files \in [Page -> SUBSET Asset] /\ Live \subseteq Page
      /\ DOMAIN history = Live /\ history = [q \in Live |-> history[q]]
  BY DEF HistoryInv, Typed
<1>3. unrecorded' \in [User -> Page \cup {NoOne}] /\ Live' = Live
  BY <1>1, <1>2 DEF Live
<1>4. /\ \A q \in Live : Due(q) = files[q] /\ Due(q)' = files[q]
      /\ restore' = NoRestore
  BY <1>1, Resting DEF Due, Unrestored, HistoryInv
<1>5. CASE p \notin Live
  <2>1. UNCHANGED <<history, blobs, strayed, saves>>
    BY <1>5 DEF RecordAssetChange
  <2>2. Known' = Known
    BY <2>1 DEF Known
  <2>3. FilesDue'
    <3> SUFFICES ASSUME NEW q \in Live \ strayed, \A v \in User : unrecorded'[v] # q
                 PROVE  Latest(history[q]).manifest = files[q]
      BY <1>1, <1>3, <1>4, <2>1 DEF FilesDue
    <3>1. \A v \in User : unrecorded[v] # q
      BY <1>1, <1>2, <1>5
    <3> QED BY <1>4, <3>1 DEF HistoryInv, FilesDue
  <2> QED BY <1>1, <1>2, <1>3, <2>1, <2>2, <2>3, Keeping, KeepingJob, KeepingRestore DEF HistoryInv, Typed
<1>6. CASE p \in Live
  <2>1. /\ history' = [history EXCEPT ![p] = AssetsRecorded(@, u, bodies[p], files[p])]
        /\ blobs' = blobs \cup Kept(files[p]) /\ strayed' = strayed \ {p}
        /\ saves' = Noted(NoOne, p, {p})
    BY <1>6 DEF RecordAssetChange
  <2>2. SavesTyped /\ \A q \in Live : PageKept(q)
    BY DEF HistoryInv
  <2>3. Known \subseteq Text
    BY <2>2, KnownTexts
  <2>4. Len(saves') = Len(saves)
    BY <2>1, <2>2, NotedSaves
  <2>5. Known' = Known
    BY <2>4 DEF Known
  <2>6. /\ history'[p] = AssetsRecorded(history[p], u, bodies[p], files[p])
        /\ \A q \in Live : q # p => history'[q] = history[q]
        /\ DOMAIN history' = Live /\ history' = [q \in Live |-> history'[q]]
    BY <1>2, <1>6, <2>1
  <2>7. Recorded(history[p], history'[p], {NoOne}, bodies[p], files[p])
    <3>1. Whole(history[p]) /\ bodies[p] \in Text /\ files[p] \in SUBSET Asset
      BY <1>2, <1>6, <2>2, <2>3 DEF PageKept
    <3> QED BY <2>6, <3>1, RecordingAssets
  <2>8. Latest(history'[p]).manifest = files[p]
    BY <2>7 DEF Recorded
  <2>9. SavesTyped' /\ SavesHeld' /\ \A q \in Live : PageKept(q)'
    <3>1. \A q \in Live : q # p => bodies'[q] = bodies[q] /\ history'[q] = history[q]
      BY <1>1, <2>6
    <3>2. /\ Recorded(history[p], history'[p], {NoOne}, bodies'[p], Latest(history'[p]).manifest)
          /\ bodies'[p] \in Known /\ Kept(Latest(history'[p]).manifest) \subseteq blobs'
      BY <1>1, <1>2, <1>6, <2>1, <2>7, <2>8
    <3>3. used' = used /\ Live' = Live /\ blobs \subseteq blobs' /\ NoOne \in User \cup {NoOne}
          /\ saves' = Noted(NoOne, p, {p}) /\ p \in Live
      BY <1>1, <1>3, <1>6, <2>1
    <3> HIDE DEF p
    <3> QED BY <3>1, <3>2, <3>3, WritingOne
  <2>10. FilesDue'
    <3> SUFFICES ASSUME NEW q \in Live \ strayed', \A v \in User : unrecorded'[v] # q
                 PROVE  Latest(history'[q]).manifest = files[q]
      BY <1>3, <1>4 DEF FilesDue
    <3>1. CASE q = p
      BY <2>8, <3>1
    <3>2. CASE q # p
      <4>1. \A v \in User : unrecorded[v] # q
        BY <1>1, <1>2, <3>2
      <4>2. q \in Live \ strayed
        BY <2>1, <3>2
      <4> QED BY <1>4, <2>6, <3>2, <4>1, <4>2 DEF HistoryInv, FilesDue
    <3> QED BY <3>1, <3>2
  <2>11. Typed'
    BY <1>1, <1>2, <1>3, <2>5, <2>6 DEF HistoryInv, Typed
  <2> QED BY <1>1, <1>3, <1>4, <2>5, <2>9, <2>10, <2>11, KeepingJob DEF HistoryInv, RestoreTyped
<1> QED BY <1>5, <1>6

-----------------------------------------------------------------------------
(* Updates, creation and deletion of pages *)

\* What an update of a page leaves, but for the refactoring that goes on beside it
LEMMA UpdatingPage ==
  ASSUME HistoryInv, NEW p \in Live, NEW u \in User \cup {NoOne}, NEW body \in Sent(p),
         NEW moves \in BOOLEAN, NEW titled \in BOOLEAN, Updated(u, p, body, moves, titled),
         Unrestored, UNCHANGED <<used, restore, fileVars>>
  PROVE  /\ SavesTyped' /\ Typed' /\ (\A q \in Live' : PageKept(q)') /\ SavesHeld' /\ FilesDue'
         /\ RestoreTyped' /\ Known \subseteq Known' /\ bodies'[p] = body /\ body \in Known'
<1>1. UNCHANGED <<used, restore, files, blobs, unrecorded, reaped, strayed>>
  BY DEF fileVars
<1>2. /\ SavesTyped' /\ SavesHeld' /\ \A q \in Live : PageKept(q)'
      /\ Live' = Live /\ bodies' \in [Live -> Known'] /\ bodies'[p] = body
      /\ history' = [q \in Live |-> history'[q]] /\ DOMAIN history' = Live
      /\ Known \subseteq Known'
      /\ \A q \in Live : Latest(history'[q]).manifest = Latest(history[q]).manifest
  BY <1>1, Updating
<1>3. Typed'
  BY <1>1, <1>2 DEF HistoryInv, Typed
<1>4. FilesDue'
  BY <1>1, <1>2 DEF HistoryInv, FilesDue, Due
<1>5. RestoreTyped'
  BY <1>1, Resting DEF HistoryInv, RestoreTyped
<1> QED BY <1>2, <1>3, <1>4, <1>5

LEMMA UpdatingInPlaceOrNot ==
  ASSUME HistoryInv, NEW u \in User, NEW p, NEW body, NEW moves \in BOOLEAN, NEW titled \in BOOLEAN,
         UpdatePage(u, p, body, moves, titled)
  PROVE  HistoryInv'
<1>1. /\ p \in Live /\ body \in Sent(p) /\ Updated(u, p, body, moves, titled) /\ Unrestored
      /\ UNCHANGED <<used, restore, fileVars>> /\ u \in User \cup {NoOne}
      /\ job' = [job EXCEPT !.fresh = Fresh({p})]
  BY DEF UpdatePage
<1>2. /\ SavesTyped' /\ Typed' /\ (\A q \in Live' : PageKept(q)') /\ SavesHeld' /\ FilesDue'
      /\ RestoreTyped' /\ Known \subseteq Known'
  BY <1>1, UpdatingPage
<1>3. JobTyped'
  BY <1>1, <1>2, FreshJob DEF HistoryInv
<1> QED BY <1>2, <1>3 DEF HistoryInv

LEMMA MovingOrConverting ==
  ASSUME HistoryInv, NEW u \in User, NEW p, MovePage(u, p) \/ ConvertPage(u, p)
  PROVE  HistoryInv'
<1>1. PICK moves \in BOOLEAN, titled \in BOOLEAN : Updated(u, p, bodies[p], moves, titled)
  BY DEF MovePage, ConvertPage
<1>2. /\ p \in Live /\ bodies[p] \in Sent(p) /\ Unrestored
      /\ UNCHANGED <<used, restore, fileVars>> /\ u \in User \cup {NoOne}
      /\ job' = [job EXCEPT !.fresh = Fresh({p})]
  BY DEF MovePage, ConvertPage, Sent
<1>3. /\ SavesTyped' /\ Typed' /\ (\A q \in Live' : PageKept(q)') /\ SavesHeld' /\ FilesDue'
      /\ RestoreTyped' /\ Known \subseteq Known'
  BY <1>1, <1>2, UpdatingPage
<1>4. JobTyped'
  BY <1>2, <1>3, FreshJob DEF HistoryInv
<1> QED BY <1>3, <1>4 DEF HistoryInv

\* The page that is refactored is written with the version of the client.
LEMMA RelocatingTarget ==
  ASSUME HistoryInv, NEW body, NEW moves \in BOOLEAN, RelocateTarget(body, moves)
  PROVE  HistoryInv'
<1>1. PICK p : p = job.target
  OBVIOUS
<1> DEFINE text == IF body = bodies[p] THEN job.snap[p] ELSE body
<1>2. /\ p \in Live /\ body \in Sent(p) /\ Updated(job.user, p, body, moves, ~moves) /\ Unrestored
      /\ UNCHANGED <<used, restore, fileVars>>
  BY <1>1 DEF RelocateTarget
<1>3. PICK snap : snap = [job.snap EXCEPT ![p] = text]
  OBVIOUS
<1>4. PICK u \in User \cup {NoOne}, titled \in BOOLEAN : u = job.user /\ titled = ~moves
  BY DEF HistoryInv, JobTyped
<1>5. job' = [job EXCEPT !.phase = "relocated", !.fresh = FALSE,
                         !.snap[p] = IF body = bodies[p] THEN @ ELSE body]
  BY <1>1 DEF RelocateTarget
<1>6. /\ SavesTyped' /\ Typed' /\ (\A q \in Live' : PageKept(q)') /\ SavesHeld' /\ FilesDue'
      /\ RestoreTyped' /\ Known \subseteq Known' /\ body \in Known'
  <2>1. Updated(u, p, body, moves, titled)
    BY <1>2, <1>4
  <2> QED BY <1>2, <2>1, UpdatingPage
<1>7. /\ job = [phase |-> job.phase, user |-> job.user, target |-> job.target, fresh |-> job.fresh,
                affected |-> job.affected, snap |-> job.snap, todo |-> job.todo]
      /\ Draft(job.snap) /\ Draft(job.todo)
  BY DEF HistoryInv, JobTyped
<1>8. job' = [phase |-> "relocated", user |-> job.user, target |-> job.target, fresh |-> FALSE,
              affected |-> job.affected, snap |-> snap, todo |-> job.todo]
  BY <1>5, <1>7, <1>3
<1>9. Draft(snap)'
  <2>1. DOMAIN snap = DOMAIN job.snap
    BY <1>3
  <2>2. ASSUME NEW q \in DOMAIN snap
        PROVE  snap[q] \in Known'
    BY <1>6, <1>7, <1>3, <2>1 DEF Draft
  <2>3. snap = [q \in DOMAIN snap |-> snap[q]]
    BY <1>3
  <2> QED BY <2>2, <2>3 DEF Draft
<1>10. JobTyped'
  <2>1. Draft(job.todo)'
    BY <1>6, <1>7, <1>8 DEF Draft
  <2> QED BY <1>8, <1>9, <1>4, <2>1 DEF JobTyped
<1> QED BY <1>6, <1>10 DEF HistoryInv

\* A page that is created has one revision, by its author, with the files that are there.
LEMMA CreatingPage ==
  ASSUME HistoryInv, NEW u \in User, NEW p, CreatePage(u, p)
  PROVE  HistoryInv'
<1>1. PICK none : none = [revs |-> <<>>, recent |-> FALSE, stored |-> {}]
  OBVIOUS
<1>2. PICK body \in SavedBodies :
        /\ bodies' = [q \in Live \cup {p} |-> IF q = p THEN body ELSE bodies[q]]
        /\ history' = [q \in Live \cup {p} |->
                         IF q = p THEN ContentRecorded(none, u, body, files[p]) ELSE history[q]]
  BY <1>1 DEF CreatePage
<1>3. /\ Unrestored /\ p \in Page \ used /\ blobs' = blobs \cup Kept(files[p]) /\ used' = used \cup {p}
      /\ saves' = saves \o NewSave(u, p) /\ u \in User \cup {NoOne}
      /\ UNCHANGED <<files, unrecorded, reaped, restore, job, strayed>>
  BY DEF CreatePage
<1>4. /\ SavesTyped /\ bodies \in [Live -> Known] /\ Live \subseteq used /\ used \subseteq Page
      /\ reaped \subseteq used \ Live /\ files \in [Page -> SUBSET Asset]
      /\ unrecorded \in [User -> Page \cup {NoOne}]
  BY DEF HistoryInv, Typed
<1>5. Live' = Live \cup {p} /\ p \notin Live
  BY <1>2, <1>3, <1>4 DEF Live
<1>6. PICK new : new = [page |-> p, author |-> u, again |-> FALSE, after |-> 0]
  OBVIOUS
<1>7. /\ saves' \in Seq(SaveRecord) /\ Len(saves) \in Nat /\ Len(saves') = Len(saves) + 1
      /\ saves'[Len(saves) + 1] = new /\ \A n \in 1 .. Len(saves) : saves'[n] = saves[n]
  <2>1. NewSave(u, p) = <<new>> /\ new \in SaveRecord
    BY <1>3, <1>6 DEF NewSave, SaveRecord
  <2>2. saves \in Seq(SaveRecord)
    BY <1>4 DEF SavesTyped
  <2> QED BY <1>3, <2>1, <2>2
<1>8. SavesTyped'
  <2>1. ASSUME NEW n \in 1 .. Len(saves')
        PROVE  saves'[n].page \in used'
    <3>1. CASE n \in 1 .. Len(saves)
      BY <1>3, <1>4, <1>7, <3>1 DEF SavesTyped
    <3>2. CASE n \notin 1 .. Len(saves)
      BY <1>3, <1>6, <1>7, <3>2
    <3> QED BY <3>1, <3>2
  <2> QED BY <1>7, <2>1 DEF SavesTyped
<1>9. Known \subseteq Known' /\ Known' \subseteq Text
  BY <1>7, <1>8 DEF Known, Text
<1>10. body \in Known' /\ body \in Text /\ body.save = Len(saves) + 1
  <2>1. PICK old \in BOOLEAN : body = [save |-> Len(saves) + 1, old |-> old]
    BY <1>2, PageHistoryAssumption DEF SavedBodies
  <2>2. body \in Known'
    BY <1>7, <2>1 DEF Known
  <2> QED BY <1>9, <2>1, <2>2
<1>11. /\ bodies' \in [Live' -> Known'] /\ bodies'[p] = body
       /\ history' = [q \in Live' |-> history'[q]] /\ DOMAIN history' = Live'
       /\ history'[p] = ContentRecorded(none, u, body, files[p])
       /\ \A q \in Live : bodies'[q] = bodies[q] /\ history'[q] = history[q]
  BY <1>2, <1>4, <1>5, <1>9, <1>10
<1>12. /\ Recorded(none, history'[p], {u}, body, files[p]) /\ Latest(history'[p]).author = u
       /\ Listed(none) = {}
  <2>1. Whole(none) /\ none.revs = <<>> /\ ~none.recent /\ Listed(none) = {}
    BY <1>1 DEF Whole, Record, Listed
  <2>2. files[p] \in SUBSET Asset
    BY <1>3, <1>4
  <2>3. ResolvedManifest(none, files[p]) = files[p]
    BY <2>1 DEF ResolvedManifest
  <2>4. Recorded(none, ContentRecorded(none, u, body, files[p]), {u}, body, ResolvedManifest(none, files[p]))
    BY <1>3, <1>10, <2>1, <2>2, RecordingContent
  <2>5. Latest(ContentRecorded(none, u, body, files[p])).author = u
    BY <1>3, <1>10, <2>1, <2>2, RecordingAuthor
  <2> QED BY <1>11, <2>1, <2>3, <2>4, <2>5
<1>13. ASSUME NEW q \in Live'
       PROVE  PageKept(q)'
  <2>1. CASE q = p
    <3>1. /\ Whole(history'[p]) /\ history'[p].revs # <<>> /\ Latest(history'[p]).body = body
          /\ \A r \in Listed(history'[p]) : r.body = body /\ r.manifest = files[p]
      BY <1>12 DEF Recorded
    <3> QED BY <1>3, <1>10, <1>11, <2>1, <3>1 DEF PageKept
  <2>2. CASE q \in Live
    BY <1>3, <1>9, <1>11, <2>2 DEF HistoryInv, PageKept
  <2> QED BY <1>5, <2>1, <2>2
<1>14. SavesHeld'
  <2> SUFFICES ASSUME NEW n \in 1 .. Len(saves'), saves'[n].page \in Live',
                      ~saves'[n].again, saves'[n].after < MaxRevisions
               PROVE  Held(history'[saves'[n].page], n, saves'[n])
    BY DEF SavesHeld
  <2>1. CASE n \in 1 .. Len(saves)
    <3>1. saves'[n] = saves[n] /\ saves[n].page \in used
      BY <1>4, <1>7, <2>1 DEF SavesTyped
    <3>2. saves[n].page \in Live
      BY <1>3, <1>5, <3>1
    <3> QED BY <1>11, <2>1, <3>1, <3>2 DEF HistoryInv, SavesHeld
  <2>2. CASE n \notin 1 .. Len(saves)
    <3>1. n = Len(saves) + 1 /\ saves'[n] = new
      BY <1>7, <2>2
    <3>2. /\ Whole(history'[p]) /\ history'[p].revs # <<>> /\ Latest(history'[p]).body.save = n
      BY <1>10, <1>12, <3>1 DEF Recorded
    <3>3. /\ Len(history'[p].revs) \in Nat \ {0}
          /\ Latest(history'[p]) = history'[p].revs[Len(history'[p].revs)]
      BY <3>2, LatestIsListed DEF Whole, Latest
    <3> QED BY <1>6, <1>12, <3>1, <3>2, <3>3 DEF Held
  <2> QED BY <2>1, <2>2
<1>15. Typed'
  BY <1>3, <1>4, <1>5, <1>11 DEF Typed
<1>16. FilesDue'
  <2> SUFFICES ASSUME NEW q \in Live' \ strayed, \A v \in User : unrecorded[v] # q
               PROVE  Latest(history'[q]).manifest = Due(q)'
    BY <1>3 DEF FilesDue
  <2>1. Due(q)' = files[q] /\ Due(q) = files[q]
    BY <1>3 DEF Due, Unrestored
  <2>2. CASE q = p
    BY <1>12, <2>1, <2>2 DEF Recorded
  <2>3. CASE q \in Live
    BY <1>11, <2>1, <2>3 DEF HistoryInv, FilesDue
  <2> QED BY <1>5, <2>2, <2>3
<1>17. RestoreTyped' /\ JobTyped'
  BY <1>3, <1>9, Resting, KeepingJob DEF HistoryInv, RestoreTyped
<1> QED BY <1>8, <1>13, <1>14, <1>15, <1>16, <1>17 DEF HistoryInv

\* The pages that are deleted go with their histories.
LEMMA DeletingPage ==
  ASSUME HistoryInv, NEW u \in User, NEW p, DeletePage(u, p)
  PROVE  HistoryInv'
<1>1. PICK gone : gone = Below[p]
  OBVIOUS
<1>2. /\ bodies' = [q \in Live \ gone |-> bodies[q]] /\ history' = [q \in Live \ gone |-> history[q]]
      /\ job' = [job EXCEPT !.fresh = Fresh(gone)] /\ reaped' = reaped \cup (gone \cap Live)
      /\ Unrestored /\ UNCHANGED <<used, files, blobs, unrecorded, restore, saves, strayed>>
  BY <1>1 DEF DeletePage
<1>3. Live' = Live \ gone /\ Known' = Known
  BY <1>2 DEF Live, Known
<1>4. /\ bodies \in [Live -> Known] /\ Live \subseteq used /\ reaped \subseteq used \ Live
      /\ \A q \in Live' : history'[q] = history[q] /\ bodies'[q] = bodies[q]
  BY <1>2, <1>3 DEF HistoryInv, Typed
<1>5. Typed'
  <2>1. reaped' \subseteq used' \ Live'
    BY <1>2, <1>3, <1>4
  <2>2. /\ bodies' \in [Live' -> Known'] /\ DOMAIN history' = Live'
        /\ history' = [q \in Live' |-> history'[q]]
    BY <1>2, <1>3, <1>4
  <2> QED BY <1>2, <1>3, <2>1, <2>2 DEF HistoryInv, Typed
<1>6. SavesTyped'
  BY <1>2 DEF HistoryInv, SavesTyped
<1>7. SavesHeld'
  BY <1>2, <1>3, <1>4 DEF HistoryInv, SavesHeld
<1>8. ASSUME NEW q \in Live'
      PROVE  PageKept(q)'
  BY <1>2, <1>3, <1>4 DEF HistoryInv, PageKept
<1>9. FilesDue'
  BY <1>2, <1>3, <1>4 DEF HistoryInv, FilesDue, Due
<1>10. RestoreTyped' /\ JobTyped'
  BY <1>2, <1>3, Resting, FreshJob DEF HistoryInv, RestoreTyped
<1> QED BY <1>5, <1>6, <1>7, <1>8, <1>9, <1>10 DEF HistoryInv

-----------------------------------------------------------------------------
(* Restoring *)

\* The restore remembers the revision and the files there were.
LEMMA StartingRestore ==
  ASSUME HistoryInv, NEW u \in User, NEW p, NEW i, RestoreStarts(u, p, i)
  PROVE  HistoryInv'
<1>1. /\ UNCHANGED <<bodies, used, history, files, blobs, unrecorded, reaped, strayed, job, saves>>
      /\ Unrestored /\ p \in Live /\ i \in DOMAIN history[p].revs
      /\ restore' = [phase |-> "clear", user |-> u, page |-> p, rev |-> history[p].revs[i],
                     before |-> files[p]]
  BY DEF RestoreStarts, pageVars, fileVars
<1>2. Live' = Live /\ Known' = Known
  BY <1>1 DEF Live, Known
<1>3. files \in [Page -> SUBSET Asset] /\ Live \subseteq Page /\ PageKept(p)
  BY <1>1 DEF HistoryInv, Typed
<1>4. history[p].revs[i] \in {r \in Entry : r.body \in Known}
  <2>1. history[p].revs \in Seq(Entry)
    BY <1>3 DEF PageKept, Whole, Record
  <2>2. i \in 1 .. Len(history[p].revs)
    BY <1>1, <2>1
  <2> QED BY <1>3, <2>1, <2>2 DEF PageKept, Listed
<1>5. RestoreTyped'
  <2>1. restore' \in Restoring
    BY <1>1, <1>3, <1>4 DEF Restoring
  <2> QED BY <1>2, <2>1 DEF RestoreTyped, Restoring
<1>6. FilesDue'
  <2>1. \A q \in Live : Due(q)' = Due(q)
    BY <1>1 DEF Due, Unrestored
  <2> QED BY <1>1, <1>2, <2>1 DEF HistoryInv, FilesDue
<1> QED BY <1>1, <1>2, <1>5, <1>6, Keeping, KeepingJob DEF HistoryInv, Typed

\* What is known of a restore that is under way
LEMMA UnderRestore ==
  ASSUME RestoreTyped, restore.phase \in {"clear", "copy", "record"}
  PROVE  /\ restore \in Restoring /\ ~Unrestored /\ restore.page \in Live /\ restore.user \in User
         /\ restore.rev \in Entry /\ restore.rev.body \in Known /\ restore.before \in SUBSET Asset
<1>1. restore \in Restoring
  BY DEF RestoreTyped, NoRestore
<1> QED BY <1>1 DEF Restoring, Unrestored

\* The files of the page change before its revision is recorded.
LEMMA ReplacingFiles ==
  ASSUME HistoryInv, RestoreClears \/ RestoreCopies
  PROVE  HistoryInv'
<1>1. PICK F \in {{}, {a \in files[restore.page] : a.name \notin {b.name : b \in restore.rev.manifest}}
                        \cup restore.rev.manifest} :
        files' = [files EXCEPT ![restore.page] = F]
  <2>1. CASE RestoreClears
    BY <2>1 DEF RestoreClears
  <2>2. CASE RestoreCopies
    <3>1. files' = [files EXCEPT ![restore.page] =
                      {a \in files[restore.page] : a.name \notin {b.name : b \in restore.rev.manifest}}
                        \cup restore.rev.manifest]
      BY <2>2 DEF RestoreCopies
    <3> QED BY <3>1
  <2> QED BY <2>1, <2>2
<1>2. PICK phase \in {"copy", "record"} : restore' = [restore EXCEPT !.phase = phase]
  BY DEF RestoreClears, RestoreCopies
<1>3. /\ restore.phase \in {"clear", "copy", "record"}
      /\ UNCHANGED <<bodies, used, history, blobs, unrecorded, reaped, job, saves, strayed>>
  BY DEF RestoreClears, RestoreCopies, pageVars
<1>4. Live' = Live /\ Known' = Known
  BY <1>3 DEF Live, Known
<1>5. /\ restore \in Restoring /\ restore.page \in Live
      /\ restore.rev.manifest \in SUBSET Asset
  BY <1>3, UnderRestore DEF HistoryInv, Entry
<1>6. files' \in [Page -> SUBSET Asset] /\ \A q \in Page : q # restore.page => files'[q] = files[q]
  <2>1. files \in [Page -> SUBSET Asset] /\ Live \subseteq Page
    BY DEF HistoryInv, Typed
  <2>2. F \in SUBSET Asset
    BY <1>1, <1>5, <2>1
  <2> QED BY <1>1, <2>1, <2>2
<1>7. /\ restore' \in Restoring /\ restore'.page = restore.page /\ restore'.before = restore.before
      /\ restore'.phase # "none" /\ restore.phase # "none"
  BY <1>2, <1>5 DEF Restoring
<1>8. RestoreTyped'
  BY <1>4, <1>7 DEF RestoreTyped, Restoring
<1>9. FilesDue'
  <2>1. \A q \in Live : Due(q)' = Due(q)
    BY <1>6, <1>7 DEF Due, HistoryInv, Typed
  <2> QED BY <1>3, <1>4, <2>1 DEF HistoryInv, FilesDue
<1> QED BY <1>3, <1>4, <1>6, <1>8, <1>9, Keeping, KeepingJob DEF HistoryInv, Typed

\* The restored text is written and recorded with the files that are there.
LEMMA CommittingRestore ==
  ASSUME HistoryInv, RestoreCommits
  PROVE  HistoryInv'
<1>1. PICK p : p = restore.page
  OBVIOUS
<1>2. PICK u : u = restore.user
  OBVIOUS
<1>3. PICK body : body = restore.rev.body
  OBVIOUS
<1>4. /\ bodies' = [bodies EXCEPT ![p] = body]
      /\ history' = [history EXCEPT ![p] = RestoreRecorded(@, u, body, files[p])]
      /\ blobs' = blobs \cup Kept(files[p]) /\ strayed' = strayed \ {p}
      /\ job' = [job EXCEPT !.fresh = Fresh({p})] /\ saves' = Noted(u, p, {p})
      /\ restore' = NoRestore /\ UNCHANGED <<used, files, unrecorded, reaped>>
      /\ restore.phase \in {"clear", "copy", "record"}
  BY <1>1, <1>2, <1>3 DEF RestoreCommits
<1>5. p \in Live /\ u \in User \cup {NoOne} /\ body \in Known
  BY <1>1, <1>2, <1>3, <1>4, UnderRestore DEF HistoryInv
<1>6. /\ SavesTyped /\ bodies \in [Live -> Known] /\ DOMAIN history = Live
      /\ history = [q \in Live |-> history[q]] /\ files \in [Page -> SUBSET Asset]
      /\ Live \subseteq Page /\ \A q \in Live : PageKept(q)
  BY DEF HistoryInv, Typed
<1>7. /\ Live' = Live /\ bodies' \in [Live -> Known] /\ bodies'[p] = body
      /\ DOMAIN history' = Live /\ history' = [q \in Live |-> history'[q]]
      /\ history'[p] = RestoreRecorded(history[p], u, body, files[p])
      /\ \A q \in Live : q # p => bodies'[q] = bodies[q] /\ history'[q] = history[q]
  BY <1>4, <1>5, <1>6 DEF Live
<1>8. Recorded(history[p], history'[p], {u}, body, files[p])
  <2>1. Whole(history[p]) /\ body \in Text /\ files[p] \in SUBSET Asset
    BY <1>5, <1>6, KnownTexts DEF PageKept
  <2> QED BY <1>5, <1>7, <2>1, RecordingRestore
<1>9. Latest(history'[p]).manifest = files[p]
  BY <1>8 DEF Recorded
<1>10. SavesTyped' /\ SavesHeld' /\ (\A q \in Live : PageKept(q)') /\ Known' = Known
  <2>1. /\ Recorded(history[p], history'[p], {u}, bodies'[p], Latest(history'[p]).manifest)
        /\ bodies'[p] \in Known /\ Kept(Latest(history'[p]).manifest) \subseteq blobs'
    BY <1>4, <1>5, <1>7, <1>8, <1>9
  <2>2. used' = used /\ Live' = Live /\ blobs \subseteq blobs' /\ saves' = Noted(u, p, {p})
    BY <1>4, <1>7
  <2> QED BY <1>5, <1>7, <2>1, <2>2, WritingOne
<1>11. FilesDue'
  <2> SUFFICES ASSUME NEW q \in Live \ strayed', \A v \in User : unrecorded[v] # q
               PROVE  Latest(history'[q]).manifest = files[q]
    BY <1>4, <1>7 DEF FilesDue, Due, NoRestore
  <2>1. CASE q = p
    BY <1>9, <2>1
  <2>2. CASE q # p
    <3>1. Due(q) = files[q] /\ q \in Live \ strayed
      BY <1>1, <1>4, <2>2 DEF Due
    <3> QED BY <1>7, <2>2, <3>1 DEF HistoryInv, FilesDue
  <2> QED BY <2>1, <2>2
<1>12. Typed'
  BY <1>4, <1>7, <1>10 DEF HistoryInv, Typed
<1>13. RestoreTyped' /\ JobTyped'
  BY <1>4, <1>10, FreshJob DEF HistoryInv, RestoreTyped
<1> QED BY <1>7, <1>10, <1>11, <1>12, <1>13 DEF HistoryInv

\* The files that are put back are those of the latest revision, and the store has those.
LEMMA RollingBackRestore ==
  ASSUME HistoryInv, RestoreRollsBack
  PROVE  HistoryInv'
<1>1. PICK p : p = restore.page
  OBVIOUS
<1>2. PICK F : /\ F \subseteq restore.before /\ files' = [files EXCEPT ![p] = F]
               /\ Kept(restore.before) \subseteq blobs => F = restore.before
  BY <1>1 DEF RestoreRollsBack
<1>3. /\ restore.phase \in {"clear", "copy", "record"} /\ restore' = NoRestore
      /\ UNCHANGED <<bodies, used, history, blobs, unrecorded, reaped, job, saves, strayed>>
  BY DEF RestoreRollsBack, pageVars
<1>4. Live' = Live /\ Known' = Known
  BY <1>3 DEF Live, Known
<1>5. p \in Live /\ restore.before \in SUBSET Asset /\ restore.phase # "none"
  BY <1>1, <1>3, UnderRestore DEF HistoryInv, Unrestored
<1>6. files' \in [Page -> SUBSET Asset] /\ \A q \in Page : files'[q] = IF q = p THEN F ELSE files[q]
  BY <1>2, <1>5 DEF HistoryInv, Typed
<1>7. FilesDue'
  <2> SUFFICES ASSUME NEW q \in Live \ strayed, \A v \in User : unrecorded[v] # q
               PROVE  Latest(history[q]).manifest = files'[q]
    BY <1>3, <1>4 DEF FilesDue, Due, NoRestore
  <2>1. Latest(history[q]).manifest = Due(q) /\ q \in Page
    BY DEF HistoryInv, FilesDue, Typed
  <2>2. CASE q = p
    <3>1. Latest(history[p]).manifest = restore.before
      BY <1>1, <1>5, <2>1, <2>2 DEF Due
    <3>2. Latest(history[p]) \in Listed(history[p])
      BY <1>5, LatestIsListed DEF HistoryInv, PageKept, Whole
    <3>3. Kept(restore.before) \subseteq blobs
      BY <1>5, <3>1, <3>2 DEF HistoryInv, PageKept
    <3> QED BY <1>2, <1>6, <2>1, <2>2, <3>1, <3>3
  <2>3. CASE q # p
    BY <1>1, <1>6, <2>1, <2>3 DEF Due
  <2> QED BY <2>2, <2>3
<1>8. RestoreTyped'
  BY <1>3 DEF RestoreTyped
<1> QED BY <1>3, <1>4, <1>6, <1>7, <1>8, Keeping, KeepingJob DEF HistoryInv, Typed

\* Files that are not put back are known to be astray.
LEMMA PuttingBackFails ==
  ASSUME HistoryInv, PutBackFails
  PROVE  HistoryInv'
<1>1. PICK p : p = restore.page
  OBVIOUS
<1>2. PICK F \in (SUBSET files[p]) \cup (SUBSET restore.before) : files' = [files EXCEPT ![p] = F]
  BY <1>1 DEF PutBackFails
<1>3. /\ strayed' = strayed \cup {p} /\ restore' = NoRestore /\ ~Unrestored
      /\ UNCHANGED <<bodies, used, history, blobs, unrecorded, reaped, job, saves>>
  BY <1>1 DEF PutBackFails, pageVars
<1>4. Live' = Live /\ Known' = Known
  BY <1>3 DEF Live, Known
<1>5. p \in Live /\ restore.before \in SUBSET Asset
  <2>1. RestoreTyped /\ restore # NoRestore
    BY <1>3 DEF HistoryInv, Unrestored, NoRestore
  <2>2. restore.phase \in {"clear", "copy", "record"}
    BY <2>1 DEF RestoreTyped, Restoring
  <2> QED BY <1>1, <2>1, <2>2, UnderRestore
<1>6. files' \in [Page -> SUBSET Asset] /\ \A q \in Page : q # p => files'[q] = files[q]
  <2>1. files \in [Page -> SUBSET Asset] /\ p \in Page
    BY <1>5 DEF HistoryInv, Typed
  <2>2. files[p] \in SUBSET Asset
    BY <2>1
  <2>3. F \in SUBSET files[p] \/ F \in SUBSET restore.before
    OBVIOUS
  <2>4. F \in SUBSET Asset
    BY <1>5, <2>2, <2>3
  <2> QED BY <1>2, <2>1, <2>4
<1>7. FilesDue'
  <2> SUFFICES ASSUME NEW q \in Live \ (strayed \cup {p}), \A v \in User : unrecorded[v] # q
               PROVE  Latest(history[q]).manifest = files'[q]
    BY <1>3, <1>4 DEF FilesDue, Due, NoRestore
  <2>1. Latest(history[q]).manifest = Due(q) /\ q \in Page
    BY DEF HistoryInv, FilesDue, Typed
  <2> QED BY <1>1, <1>6, <2>1 DEF Due
<1>8. RestoreTyped'
  BY <1>3 DEF RestoreTyped
<1> QED BY <1>3, <1>4, <1>6, <1>7, <1>8, Keeping, KeepingJob DEF HistoryInv, Typed

\* A commit that is lost leaves files that nothing is known of.
LEMMA LosingRestore ==
  ASSUME HistoryInv, RestoreIsLost
  PROVE  HistoryInv'
<1>1. /\ strayed' = strayed \cup {restore.page} /\ restore' = NoRestore
      /\ UNCHANGED <<bodies, used, history, files, blobs, unrecorded, reaped, job, saves>>
  BY DEF RestoreIsLost, pageVars
<1>2. Live' = Live /\ Known' = Known
  BY <1>1 DEF Live, Known
<1>3. FilesDue'
  BY <1>1, <1>2 DEF HistoryInv, FilesDue, Due, NoRestore
<1>4. RestoreTyped'
  BY <1>1 DEF RestoreTyped
<1> QED BY <1>1, <1>2, <1>3, <1>4, Keeping, KeepingJob DEF HistoryInv, Typed

-----------------------------------------------------------------------------
(* Refactoring *)

\* A step of the refactoring that reads pages and writes none
LEMMA ReadingForJob ==
  ASSUME HistoryInv, UNCHANGED <<pageVars, fileVars, restore, saves>>, JobTyped'
  PROVE  HistoryInv'
<1>1. UNCHANGED <<bodies, used, history, files, blobs, unrecorded, reaped, strayed, restore, saves>>
  BY DEF pageVars, fileVars
<1>2. Live' = Live /\ Known' = Known
  BY <1>1 DEF Live, Known
<1>3. FilesDue'
  BY <1>1, <1>2 DEF HistoryInv, FilesDue, Due
<1> QED BY <1>1, <1>2, <1>3, Keeping, KeepingRestore DEF HistoryInv, Typed

LEMMA RewritingKnown ==
  ASSUME NEW body \in Known
  PROVE  Rewrite(body) \in Known
BY DEF Rewrite, Known

LEMMA PlanningRefactor ==
  ASSUME HistoryInv, NEW u \in User, NEW p, NEW A, PlanRefactor(u, p, A)
  PROVE  HistoryInv'
<1>1. UNCHANGED <<pageVars, fileVars, restore, saves>>
  BY DEF PlanRefactor
<1>2. PICK snap : snap = [q \in Below[p] \cap Live |-> bodies[q]]
  OBVIOUS
<1>3. job' = [phase |-> "snapshot", user |-> u, target |-> p, fresh |-> p \in seen[u],
              affected |-> A, snap |-> snap, todo |-> None]
  BY <1>2 DEF PlanRefactor, NoJob
<1>4. \A q \in Live : bodies[q] \in Known'
  BY <1>1 DEF HistoryInv, Typed, Known
<1>5. JobTyped'
  BY <1>2, <1>3, <1>4 DEF JobTyped, Draft, None
<1> QED BY <1>1, <1>5, ReadingForJob

LEMMA CapturingSnapshots ==
  ASSUME HistoryInv, CaptureSnapshots
  PROVE  HistoryInv'
<1>1. UNCHANGED <<pageVars, fileVars, restore, saves>> /\ DOMAIN job.snap \subseteq Live
  BY DEF CaptureSnapshots
<1>2. PICK snap : snap = [q \in DOMAIN job.snap |-> bodies[q]]
  OBVIOUS
<1>3. JobTyped
  BY DEF HistoryInv
<1>4. job' = [phase |-> "load", user |-> job.user, target |-> job.target, fresh |-> job.fresh,
              affected |-> job.affected, snap |-> snap, todo |-> job.todo]
  BY <1>2, <1>3 DEF CaptureSnapshots, JobTyped
<1>5. Known' = Known /\ \A q \in Live : bodies[q] \in Known
  BY <1>1 DEF HistoryInv, Typed, Known
<1>6. JobTyped'
  BY <1>1, <1>2, <1>3, <1>4, <1>5 DEF JobTyped, Draft
<1> QED BY <1>1, <1>6, ReadingForJob

LEMMA LoadingPages ==
  ASSUME HistoryInv, LoadAffected \/ LoadSubtree
  PROVE  HistoryInv'
<1>1. UNCHANGED <<pageVars, fileVars, restore, saves>>
  BY DEF LoadAffected, LoadSubtree
<1>2. JobTyped
  BY DEF HistoryInv
<1>3. Known' = Known /\ \A q \in Live : bodies[q] \in Known
  BY <1>1 DEF HistoryInv, Typed, Known
<1>4. PICK todo, phase : job' = [job EXCEPT !.phase = phase, !.todo = todo] /\ Draft(todo)
  <2>1. CASE LoadAffected
    <3> DEFINE todo == [q \in {q \in job.affected \cap Live : bodies[q].old} |-> Rewrite(bodies[q])]
    <3>1. job' = [job EXCEPT !.phase = "affected", !.todo = todo]
      BY <2>1 DEF LoadAffected
    <3>2. Draft(todo)
      BY <1>3, RewritingKnown DEF Draft
    <3> HIDE DEF todo
    <3> QED BY <3>1, <3>2
  <2>2. CASE LoadSubtree
    <3> DEFINE todo == [q \in {q \in DOMAIN job.snap \cap Live : Rewrite(job.snap[q]) # bodies[q]} |->
                          Rewrite(job.snap[q])]
    <3>1. job' = [job EXCEPT !.phase = "subtree", !.todo = todo]
      BY <2>2 DEF LoadSubtree
    <3>2. Draft(todo)
      BY <1>2, RewritingKnown DEF JobTyped, Draft
    <3> HIDE DEF todo
    <3> QED BY <3>1, <3>2
  <2> QED BY <2>1, <2>2
<1>5. job' = [phase |-> phase, user |-> job.user, target |-> job.target, fresh |-> job.fresh,
              affected |-> job.affected, snap |-> job.snap, todo |-> todo]
  BY <1>2, <1>4 DEF JobTyped
<1>6. JobTyped'
  BY <1>2, <1>3, <1>4, <1>5 DEF JobTyped, Draft
<1> QED BY <1>1, <1>6, ReadingForJob

\* A page gets the text that was made of what was read before, in the name of the user.
LEMMA WritingRewritten ==
  ASSUME HistoryInv, NEW q, WriteRewritten(q)
  PROVE  HistoryInv'
<1>1. /\ Unrestored /\ q \in DOMAIN job.todo
      /\ UNCHANGED <<used, restore, files, blobs, unrecorded, reaped, strayed>>
      /\ job' = [job EXCEPT !.todo = [r \in DOMAIN @ \ {q} |-> @[r]], !.fresh = Fresh({q})]
  BY DEF WriteRewritten, fileVars
<1>2. PICK todo : todo = [r \in DOMAIN job.todo \ {q} |-> job.todo[r]]
  OBVIOUS
<1>3. PICK u : u = job.user
  OBVIOUS
<1>4. PICK body : body = job.todo[q]
  OBVIOUS
<1>5. JobTyped
  BY DEF HistoryInv
<1>6. body \in Known /\ u \in User \cup {NoOne}
  BY <1>1, <1>3, <1>4, <1>5 DEF JobTyped, Draft
<1>7. job' = [phase |-> job.phase, user |-> job.user, target |-> job.target, fresh |-> Fresh({q}),
              affected |-> job.affected, snap |-> job.snap, todo |-> todo]
  BY <1>1, <1>2, <1>5 DEF JobTyped
<1>8. Known \subseteq Known' => JobTyped'
  BY <1>2, <1>5, <1>7 DEF JobTyped, Draft
<1>9. RestoreTyped'
  BY <1>1, Resting DEF HistoryInv, RestoreTyped
<1>10. CASE q \notin Live
  <2>1. UNCHANGED <<bodies, history, saves>>
    BY <1>10 DEF WriteRewritten
  <2>2. Live' = Live /\ Known' = Known
    BY <2>1 DEF Live, Known
  <2>3. FilesDue'
    BY <1>1, <2>1, <2>2 DEF HistoryInv, FilesDue, Due
  <2> QED BY <1>1, <1>8, <1>9, <2>1, <2>2, <2>3, Keeping DEF HistoryInv, Typed
<1>11. CASE q \in Live
  <2>1. /\ bodies' = [bodies EXCEPT ![q] = body]
        /\ history' = [history EXCEPT ![q] = ContentRecorded(@, u, body, files[q])]
        /\ saves' = Noted(u, q, {q})
    BY <1>3, <1>4, <1>11 DEF WriteRewritten
  <2>2. /\ SavesTyped /\ bodies \in [Live -> Known] /\ DOMAIN history = Live
        /\ history = [p \in Live |-> history[p]] /\ files \in [Page -> SUBSET Asset]
        /\ Live \subseteq Page /\ \A p \in Live : PageKept(p)
    BY DEF HistoryInv, Typed
  <2>3. /\ Live' = Live /\ bodies' \in [Live -> Known] /\ bodies'[q] = body
        /\ DOMAIN history' = Live /\ history' = [p \in Live |-> history'[p]]
        /\ history'[q] = ContentRecorded(history[q], u, body, files[q])
        /\ \A p \in Live : p # q => bodies'[p] = bodies[p] /\ history'[p] = history[p]
    BY <1>6, <1>11, <2>1, <2>2 DEF Live
  <2>4. /\ Recorded(history[q], history'[q], {u}, body, Latest(history[q]).manifest)
        /\ Latest(history'[q]).manifest = Latest(history[q]).manifest
    <3>1. Whole(history[q]) /\ history[q].revs # <<>> /\ body \in Text /\ files[q] \in SUBSET Asset
      BY <1>6, <1>11, <2>2, KnownTexts DEF PageKept
    <3>2. Recorded(history[q], ContentRecorded(history[q], u, body, files[q]), {u}, body,
                   ResolvedManifest(history[q], files[q]))
      BY <1>6, <3>1, RecordingContent
    <3> QED BY <2>3, <3>1, <3>2 DEF ResolvedManifest, Recorded
  <2>5. SavesTyped' /\ SavesHeld' /\ (\A p \in Live : PageKept(p)') /\ Known' = Known
    <3>1. Latest(history[q]) \in Listed(history[q])
      BY <1>11, <2>2, LatestIsListed DEF PageKept, Whole
    <3>2. /\ Recorded(history[q], history'[q], {u}, bodies'[q], Latest(history'[q]).manifest)
          /\ bodies'[q] \in Known /\ Kept(Latest(history'[q]).manifest) \subseteq blobs'
      BY <1>1, <1>6, <1>11, <2>2, <2>3, <2>4, <3>1 DEF PageKept
    <3>3. used' = used /\ Live' = Live /\ blobs \subseteq blobs' /\ saves' = Noted(u, q, {q})
      BY <1>1, <2>1, <2>3
    <3> QED BY <1>6, <1>11, <2>3, <3>2, <3>3, WritingOne
  <2>6. \A p \in Live : Latest(history'[p]).manifest = Latest(history[p]).manifest
    BY <2>3, <2>4
  <2>7. FilesDue'
    BY <1>1, <2>3, <2>6 DEF HistoryInv, FilesDue, Due
  <2>8. Typed'
    BY <1>1, <2>3, <2>5 DEF HistoryInv, Typed
  <2> QED BY <1>8, <1>9, <2>3, <2>5, <2>7, <2>8 DEF HistoryInv
<1> QED BY <1>10, <1>11

\* What was under way is gone after a crash, and the files it touched are nobody's.
LEMMA Crashing ==
  ASSUME HistoryInv, Crash
  PROVE  HistoryInv'
<1>1. /\ UNCHANGED <<bodies, used, history, files, blobs, saves>>
      /\ unrecorded' = [u \in User |-> NoOne] /\ reaped' = {} /\ restore' = NoRestore /\ job' = NoJob
      /\ strayed' = strayed \cup {unrecorded[u] : u \in {v \in User : unrecorded[v] # NoOne}}
                            \cup (IF Unrestored THEN {} ELSE {restore.page})
  BY DEF Crash, pageVars
<1>2. Live' = Live /\ Known' = Known /\ Live \subseteq Page
  BY <1>1 DEF Live, Known, HistoryInv, Typed
<1>3. FilesDue'
  <2> SUFFICES ASSUME NEW q \in Live \ strayed'
               PROVE  Latest(history[q]).manifest = files[q]
    BY <1>1, <1>2 DEF FilesDue, Due, NoRestore
  <2>1. q \in Live \ strayed /\ q # NoOne
    BY <1>1, <1>2, PageHistoryAssumption
  <2>2. \A u \in User : unrecorded[u] # q
    BY <1>1, <2>1
  <2>3. Due(q) = files[q]
    BY <1>1 DEF Due, Unrestored
  <2> QED BY <2>1, <2>2, <2>3 DEF HistoryInv, FilesDue
<1>4. RestoreTyped' /\ JobTyped'
  BY <1>1, NoJobTyped DEF RestoreTyped
<1> QED BY <1>1, <1>2, <1>3, <1>4, Keeping DEF HistoryInv, Typed

-----------------------------------------------------------------------------
(* The theorems *)

LEMMA HistoryStarts ==
  ASSUME HistoryInit
  PROVE  HistoryInv
<1>1. PICK body : body = [save |-> 0, old |-> TRUE]
  OBVIOUS
<1>2. PICK rev : rev = [type |-> "content", author |-> NoOne, body |-> body, manifest |-> {}]
  OBVIOUS
<1>3. PICK h : h = [revs |-> <<rev>>, recent |-> FALSE, stored |-> {body}]
  OBVIOUS
<1>4. /\ bodies = [p \in Initial |-> body] /\ used = Initial /\ history = [p \in Initial |-> h]
      /\ files = [p \in Page |-> {}] /\ unrecorded = [u \in User |-> NoOne] /\ reaped = {}
      /\ restore = NoRestore /\ job = NoJob /\ saves = <<>>
  BY <1>1, <1>2, <1>3 DEF HistoryInit
<1>5. Live = Initial /\ Len(saves) = 0 /\ Initial \subseteq Page
  BY <1>4, PageHistoryAssumption DEF Live
<1>6. body \in Known /\ Known \subseteq Text
  BY <1>1, <1>5 DEF Known, Text
<1>7. rev \in Entry
  BY <1>2, <1>6 DEF Entry, RevisionType
<1>8. h \in Record /\ h.revs = <<rev>> /\ h.stored = {body} /\ Len(h.revs) = 1 /\ h.revs[1] = rev
  BY <1>3, <1>6, <1>7 DEF Record
<1>9. Listed(h) = {rev} /\ Latest(h) = rev /\ rev.body = body /\ rev.manifest = {}
  BY <1>2, <1>8 DEF Listed, Latest
<1>10. ASSUME NEW p \in Live
       PROVE  PageKept(p)
  <2>1. history[p] = h /\ bodies[p] = body
    BY <1>4, <1>5
  <2>2. Whole(h) /\ h.revs # <<>> /\ Kept({}) = {}
    BY <1>8, <1>9 DEF Whole, Kept
  <2> QED BY <1>6, <1>9, <2>1, <2>2 DEF PageKept
<1>11. SavesTyped /\ SavesHeld
  BY <1>4, <1>5 DEF SavesTyped, SavesHeld
<1>12. Typed
  BY <1>4, <1>5, <1>6 DEF Typed
<1>13. FilesDue /\ RestoreTyped
  BY <1>4, <1>5, <1>9 DEF FilesDue, Due, NoRestore, RestoreTyped
<1>14. JobTyped
  BY <1>4 DEF JobTyped, Draft, NoJob, None
<1> QED BY <1>10, <1>11, <1>12, <1>13, <1>14 DEF HistoryInv

LEMMA HistoryStep ==
  ASSUME HistoryInv, [HistoryNext]_historyVars
  PROVE  HistoryInv'
<1>1. ASSUME PageStep
      PROVE  HistoryInv'
  <2>1. PICK u \in User, p \in Page :
          \/ LoadPage(u, p) \/ CreatePage(u, p) \/ MovePage(u, p) \/ ConvertPage(u, p)
          \/ DeletePage(u, p) \/ WindowPasses(p)
          \/ \E body \in Sent(p), moves, titled \in BOOLEAN : UpdatePage(u, p, body, moves, titled)
    BY <1>1 DEF PageStep
  <2> QED BY <2>1, LoadingPage, CreatingPage, MovingOrConverting, DeletingPage, WindowPassing,
             UpdatingInPlaceOrNot
<1>2. ASSUME AssetStep
      PROVE  HistoryInv'
  <2>1. ASSUME NEW u \in User, NEW p \in Page, NEW a \in Asset,
               UploadAsset(u, p, a) \/ DeleteAsset(u, p, a) \/ \E n \in Name : RenameAsset(u, p, a, n)
        PROVE  HistoryInv'
    <3>1. files[p] \in SUBSET Asset
      BY DEF HistoryInv, Typed
    <3>2. PICK F \in SUBSET Asset : FileChanged(u, p, F)
      <4>1. \A n \in Name : [a EXCEPT !.name = n] \in Asset
        BY DEF Asset
      <4> QED BY <2>1, <3>1, <4>1 DEF UploadAsset, DeleteAsset, RenameAsset
    <3> QED BY <3>2, FileChanging
  <2> QED BY <1>2, <2>1, RecordingAssetChange, FailingToRecord, DeletingFiles DEF AssetStep
<1>3. ASSUME RestoreStep
      PROVE  HistoryInv'
  BY <1>3, StartingRestore, ReplacingFiles, CommittingRestore, RollingBackRestore, PuttingBackFails,
     LosingRestore DEF RestoreStep
<1>4. ASSUME RefactorEnds
      PROVE  HistoryInv'
  BY <1>4, NoJobTyped, ReadingForJob DEF RefactorEnds
<1>5. ASSUME RefactorStep
      PROVE  HistoryInv'
  BY <1>4, <1>5, PlanningRefactor, CapturingSnapshots, LoadingPages, WritingRewritten, RelocatingTarget
     DEF RefactorStep
<1>6. ASSUME UNCHANGED historyVars
      PROVE  HistoryInv'
  <2>1. UNCHANGED <<pageVars, fileVars, restore, job, saves>> /\ Known \subseteq Known'
    BY <1>6 DEF historyVars, pageVars, fileVars, Known
  <2>2. JobTyped'
    BY <2>1, KeepingJob DEF HistoryInv
  <2> QED BY <2>1, <2>2, ReadingForJob
<1> QED BY <1>1, <1>2, <1>3, <1>5, <1>6, Crashing DEF HistoryNext

\* Pages, revisions, saved texts and files fit together in every state of the pages,
\* their attachments, a restore and a refactoring, whatever is interleaved and wherever
\* the process stops.
THEOREM HistoryInvariant == HistorySpec => []HistoryInv
<1>1. HistoryInit => HistoryInv
  BY HistoryStarts
<1>2. HistoryInv /\ [HistoryNext]_historyVars => HistoryInv'
  BY HistoryStep
<1> QED BY <1>1, <1>2, PTL DEF HistorySpec

\* The latest revision of a page has the content of the page.
THEOREM HistoryIsCurrent == HistorySpec => []HistoryCurrent
<1>1. HistoryInv => HistoryCurrent
  BY DEF HistoryInv, PageKept, HistoryCurrent
<1> QED BY <1>1, HistoryInvariant, PTL

\* Every revision can be opened and restored.
THEOREM HistoryIsReadable == HistorySpec => []HistoryReadable
<1>1. HistoryInv => HistoryReadable
  BY DEF HistoryInv, Typed, PageKept, Whole, HistoryReadable
<1> QED BY <1>1, HistoryInvariant, PTL

\* A text that was saved stays in the history of its page as long as fewer than
\* MaxRevisions revisions were made since and its author has not written the page again.
THEOREM SavesAreKept == HistorySpec => []SavesKept
<1>1. ASSUME HistoryInv, NEW n \in Saved, saves[n].page \in Live, ~saves[n].again,
             saves[n].after < MaxRevisions
      PROVE  \E r \in Listed(history[saves[n].page]) : r.body.save = n
  <2>1. n \in 1 .. Len(saves)
    BY <1>1 DEF HistoryInv, SavesTyped, Saved
  <2>2. Held(history[saves[n].page], n, saves[n])
    BY <1>1, <2>1 DEF HistoryInv, SavesHeld
  <2> QED BY <2>2 DEF Held, Listed
<1>2. HistoryInv => SavesKept
  BY <1>1 DEF SavesKept
<1> QED BY <1>2, HistoryInvariant, PTL

\* When no change of an attachment waits to be recorded, the latest revision of a page that
\* has not strayed lists the files that are there.
THEOREM AssetsAreSettled == HistorySpec => []AssetsSettled
<1>1. HistoryInv => AssetsSettled
  BY DEF HistoryInv, FilesDue, Due, Unrestored, AssetsSettled
<1> QED BY <1>1, HistoryInvariant, PTL

-----------------------------------------------------------------------------
(***************************************************************************)
(* The tables of tags and properties.  A row that is not up to date is     *)
(* missed for good, or there is a call left that brings it up to date: one *)
(* whose Markdown is that of the page, one that reads the page first, or   *)
(* the walk of a resync that has cleared the table.  A call that was       *)
(* overtaken writes nothing, so that it takes nothing from that; and what  *)
(* is dropped is gone for good.                                            *)
(***************************************************************************)

Mark == [front : Int, text : Int, stamp : Int, pin : BOOLEAN]
Doing == {"tags", "properties", "read", "walk"} \cup {Dropping[table] : table \in Table}
           \cup {Clearing[table] : table \in Table}
CallType == [do : Doing, pages : SUBSET Id, seen : Mark]

MetadataTypeOK ==
  /\ given \in SUBSET Id /\ Existing \subseteq given /\ IsFiniteSet(Existing) /\ markdown \in [Existing -> Mark]
  /\ DOMAIN rows = Table /\ DOMAIN missed = Table
  /\ calls \in [Worker -> Seq(CallType)] /\ rebuilds \in Int /\ failures \in Int

\* A call writes the rows of one page, or drops those of pages that are gone for good.
Gone == given \ Existing
Sensible(c, gone) ==
  /\ c.do \in Table => \E p \in Id : c.pages = {p}
  /\ c.do \in {"drop tags", "drop properties"} => c.pages \subseteq gone

Rebuilding == {"clear tags", "clear properties", "walk"}
ClearTags == Call("clear tags", {}, Unseen)
ClearProperties == Call("clear properties", {}, Unseen)
WalkAll == Call("walk", {}, Unseen)

\* A resync has what is left of its three calls, or calls like everyone's.
Ordered(w) ==
  \/ \A c \in ToSet(calls[w]) : c.do \notin Rebuilding
  \/ /\ w = Resync
     /\ calls[w] \in {<<ClearTags, ClearProperties, WalkAll>>, <<ClearProperties, WalkAll>>, <<WalkAll>>}

\* A call that will bring a table to the page as it is, or remove what it has of it: also a
\* walk that is still to be made, once the table was cleared.
Follows(c, series, table, p, md) ==
  IF p \in DOMAIN md
  THEN \/ c = Call(table, {p}, md[p])
       \/ c.do = "read" /\ p \in c.pages
       \/ c.do = "walk" /\ \A d \in ToSet(series) : d.do # Clearing[table]
  ELSE c.do = Dropping[table] /\ p \in c.pages

FollowedBy(series, table, p, md) == \E c \in ToSet(series) : Follows(c, series, table, p, md)

\* A table has of a page what its Markdown says.
UpToDate(at, table, p, md) ==
  IF p \in DOMAIN md THEN p \in DOMAIN at /\ at[p] = Extracted(table, md[p]) ELSE p \notin DOMAIN at

Covered(table, p, md, at, lost, all) ==
  p \in lost \/ UpToDate(at, table, p, md) \/ \E w \in Worker : FollowedBy(all[w], table, p, md)

WellFormed == \A w \in Worker : Ordered(w) /\ \A c \in ToSet(calls[w]) : Sensible(c, Gone)

MetadataInv ==
  /\ MetadataTypeOK /\ WellFormed
  /\ \A table \in Table, p \in Id : Covered(table, p, markdown, rows[table], missed[table], calls)

-----------------------------------------------------------------------------
(* Series of calls *)

LEMMA UnseenIsMark == Unseen \in Mark
BY DEF Unseen, Mark

LEMMA FirstAndRest ==
  ASSUME NEW S, NEW s \in Seq(S), s # <<>>
  PROVE  /\ Head(s) \in S /\ Tail(s) \in Seq(S)
         /\ ToSet(s) = {Head(s)} \cup ToSet(Tail(s))
<1>1. /\ Len(s) \in Nat /\ Len(s) > 0 /\ DOMAIN s = 1..Len(s) /\ Head(s) = s[1] /\ Tail(s) \in Seq(S)
      /\ Len(Tail(s)) = Len(s) - 1 /\ DOMAIN Tail(s) = 1..(Len(s) - 1)
      /\ \A k \in 1..(Len(s) - 1) : Tail(s)[k] = s[k + 1]
  OBVIOUS
<1>2. ASSUME NEW k \in DOMAIN s
      PROVE  s[k] \in {Head(s)} \cup ToSet(Tail(s))
  <2>1. CASE k = 1
    BY <1>1, <2>1
  <2>2. CASE k # 1
    <3>1. k - 1 \in 1..(Len(s) - 1) /\ s[k] = Tail(s)[k - 1]
      BY <1>1, <2>2
    <3> QED BY <1>1, <3>1 DEF ToSet
  <2> QED BY <2>1, <2>2
<1>3. ASSUME NEW k \in DOMAIN Tail(s)
      PROVE  Tail(s)[k] \in ToSet(s)
  <2>1. k + 1 \in DOMAIN s /\ Tail(s)[k] = s[k + 1]
    BY <1>1
  <2> QED BY <2>1 DEF ToSet
<1>4. Head(s) \in ToSet(s)
  BY <1>1 DEF ToSet
<1> QED BY <1>1, <1>2, <1>3, <1>4 DEF ToSet

LEMMA Joined ==
  ASSUME NEW S, NEW r \in Seq(S), NEW s \in Seq(S)
  PROVE  r \o s \in Seq(S) /\ ToSet(r \o s) = ToSet(r) \cup ToSet(s)
<1>1. /\ r \o s \in Seq(S) /\ Len(r) \in Nat /\ Len(s) \in Nat /\ DOMAIN r = 1..Len(r) /\ DOMAIN s = 1..Len(s)
      /\ DOMAIN (r \o s) = 1..(Len(r) + Len(s))
      /\ \A k \in 1..(Len(r) + Len(s)) : (r \o s)[k] = IF k <= Len(r) THEN r[k] ELSE s[k - Len(r)]
  OBVIOUS
<1>2. ASSUME NEW k \in DOMAIN r
      PROVE  r[k] \in ToSet(r \o s)
  <2>1. k \in DOMAIN (r \o s) /\ (r \o s)[k] = r[k]
    BY <1>1
  <2> QED BY <2>1 DEF ToSet
<1>3. ASSUME NEW k \in DOMAIN s
      PROVE  s[k] \in ToSet(r \o s)
  <2>1. k + Len(r) \in DOMAIN (r \o s) /\ (r \o s)[k + Len(r)] = s[k]
    BY <1>1
  <2> QED BY <2>1 DEF ToSet
<1>4. ASSUME NEW k \in DOMAIN (r \o s)
      PROVE  (r \o s)[k] \in ToSet(r) \cup ToSet(s)
  <2>1. CASE k <= Len(r)
    BY <1>1, <2>1 DEF ToSet
  <2>2. CASE ~(k <= Len(r))
    <3>1. k - Len(r) \in DOMAIN s /\ (r \o s)[k] = s[k - Len(r)]
      BY <1>1, <2>2
    <3> QED BY <3>1 DEF ToSet
  <2> QED BY <2>1, <2>2
<1>5. ToSet(r \o s) \subseteq ToSet(r) \cup ToSet(s)
  BY <1>4 DEF ToSet
<1>6. ToSet(r) \subseteq ToSet(r \o s) /\ ToSet(s) \subseteq ToSet(r \o s)
  BY <1>2, <1>3 DEF ToSet
<1> QED BY <1>1, <1>5, <1>6

LEMMA JoinedCalls ==
  \A r \in Seq(CallType), s \in Seq(CallType) :
    r \o s \in Seq(CallType) /\ ToSet(r \o s) = ToSet(r) \cup ToSet(s)
<1> HIDE DEF CallType
<1>1. TAKE r \in Seq(CallType), s \in Seq(CallType)
<1> QED BY Joined

LEMMA Clears == \A table \in Table : Clearing[table] \in Rebuilding /\ Clearing[table] # "walk"
BY DEF Clearing, Rebuilding, Table

LEMMA TableNames ==
  /\ \A table \in Table : Dropping[table] \notin Table \cup Rebuilding \cup {"read"}
  /\ \A table \in Table, other \in Table : Dropping[table] = Dropping[other] => table = other
  /\ \A table \in Table : table \notin Rebuilding \cup {"read"}
BY DEF Dropping, Rebuilding, Table

LEMMA FollowsOnly ==
  \A c, series, table, p, md :
    Follows(c, series, table, p, md) =>
      \/ p \in DOMAIN md /\ c.do = table /\ c.pages = {p} /\ c.seen = md[p]
      \/ p \in DOMAIN md /\ c.do \in {"read", "walk"} /\ (c.do = "walk" \/ p \in c.pages)
      \/ p \notin DOMAIN md /\ c.do = Dropping[table] /\ p \in c.pages
BY DEF Follows, Call

\* The sequence of a finite set has each of its elements.
LEMMA Listing ==
  ASSUME NEW P, IsFiniteSet(P)
  PROVE  /\ Cardinality(P) \in Nat /\ SetToSeq(P) \in [1..Cardinality(P) -> P]
         /\ \A x \in P : \E k \in 1..Cardinality(P) : SetToSeq(P)[k] = x
<1> DEFINE n == Cardinality(P)
           s == SetToSeq(P)
<1>1. n \in Nat /\ ExistsBijection(1..n, P)
  BY FS_CardinalityType
<1>2. \E f \in [1..n -> P] : IsInjective(f)
  BY <1>1 DEF ExistsBijection, Bijection, Injection
<1>3. s \in [1..n -> P] /\ IsInjective(s)
  BY <1>2 DEF SetToSeq
<1>4. s \in Injection(1..n, P)
  BY <1>3 DEF Injection
<1>5. IsFiniteSet(1..n) /\ Cardinality(1..n) = n
  BY <1>1, FS_Interval
<1>6. s \in Surjection(1..n, P)
  BY <1>4, <1>5, FS_Injection
<1> QED BY <1>1, <1>3, <1>6 DEF Surjection

LEMMA EachPage ==
  ASSUME NEW P \in SUBSET Id, IsFiniteSet(P), NEW do \in Doing
  PROVE  /\ Each(do, P) \in Seq(CallType)
         /\ ToSet(Each(do, P)) = {Call(do, {p}, Unseen) : p \in P}
<1>1. /\ Cardinality(P) \in Nat /\ SetToSeq(P) \in [1..Cardinality(P) -> P]
      /\ \A x \in P : \E k \in 1..Cardinality(P) : SetToSeq(P)[k] = x
  BY Listing
<1>2. Each(do, P) = [k \in 1..Cardinality(P) |-> Call(do, {SetToSeq(P)[k]}, Unseen)]
  BY DEF Each
<1>3. \A p \in P : Call(do, {p}, Unseen) \in CallType
  BY UnseenIsMark DEF Call, CallType
<1>4. Each(do, P) \in [1..Cardinality(P) -> CallType]
  BY <1>1, <1>2, <1>3
<1>5. Each(do, P) \in Seq(CallType)
  BY <1>1, <1>4
<1>6. ToSet(Each(do, P)) = {Each(do, P)[k] : k \in 1..Cardinality(P)}
  BY <1>4 DEF ToSet
<1>7. \A k \in 1..Cardinality(P) : Each(do, P)[k] = Call(do, {SetToSeq(P)[k]}, Unseen)
  BY <1>2
<1>8. ASSUME NEW k \in 1..Cardinality(P)
      PROVE  Each(do, P)[k] \in {Call(do, {p}, Unseen) : p \in P}
  BY <1>1, <1>7
<1>9. ASSUME NEW p \in P
      PROVE  Call(do, {p}, Unseen) \in {Each(do, P)[k] : k \in 1..Cardinality(P)}
  BY <1>1, <1>7
<1> QED BY <1>5, <1>6, <1>8, <1>9

LEMMA BothTables ==
  ASSUME NEW p \in Id, NEW m \in Mark
  PROVE  /\ Indexing(p, m) \in Seq(CallType) /\ Len(Indexing(p, m)) = 2
         /\ ToSet(Indexing(p, m)) = {Call("tags", {p}, m), Call("properties", {p}, m)}
         /\ {Indexing(p, m)[1], Indexing(p, m)[2]} = {Call("tags", {p}, m), Call("properties", {p}, m)}
         /\ \A table \in Table : Call(table, {p}, m) \in ToSet(Indexing(p, m))
<1>1. Call("tags", {p}, m) \in CallType /\ Call("properties", {p}, m) \in CallType
  BY DEF Call, CallType, Doing
<1>2. DOMAIN Indexing(p, m) = {1, 2}
  BY DEF Indexing
<1> QED BY <1>1, <1>2 DEF Indexing, Table, ToSet

LEMMA IndexingThem ==
  ASSUME MetadataTypeOK, NEW P \in SUBSET Existing, IsFiniteSet(P)
  PROVE  /\ IndexingEach(P) \in Seq(CallType)
         /\ \A c \in ToSet(IndexingEach(P)) : \E table \in Table, p \in P : c = Call(table, {p}, markdown[p])
         /\ \A table \in Table, p \in P : Call(table, {p}, markdown[p]) \in ToSet(IndexingEach(P))
<1> DEFINE n == Cardinality(P)
           s == SetToSeq(P)
           e == IndexingEach(P)
<1>1. n \in Nat /\ s \in [1..n -> P] /\ \A x \in P : \E k \in 1..n : s[k] = x
  BY Listing
<1>2. \A p \in P : p \in Id /\ markdown[p] \in Mark
  BY DEF MetadataTypeOK
<1>3. e = [k \in 1..(2 * n) |-> Indexing(s[(k + 1) \div 2], markdown[s[(k + 1) \div 2]])[2 - (k % 2)]]
  BY DEF IndexingEach
<1>4. ASSUME NEW k \in 1..(2 * n)
      PROVE  (k + 1) \div 2 \in 1..n /\ 2 - (k % 2) \in {1, 2}
  BY <1>1
<1>5. ASSUME NEW k \in 1..(2 * n)
      PROVE  \E table \in Table, p \in P : e[k] = Call(table, {p}, markdown[p])
  <2>1. s[(k + 1) \div 2] \in P
    BY <1>1, <1>4
  <2> DEFINE p == s[(k + 1) \div 2]
             m == markdown[p]
  <2>2. e[k] = Indexing(p, m)[2 - (k % 2)]
    BY <1>3
  <2>3. p \in P /\ p \in Id /\ m \in Mark
    BY <1>2, <2>1
  <2> HIDE DEF e
  <2>4. Indexing(p, m)[1] = Call("tags", {p}, m) /\ Indexing(p, m)[2] = Call("properties", {p}, m)
    BY DEF Indexing
  <2> QED BY <1>4, <2>2, <2>3, <2>4 DEF Table
<1>6. ASSUME NEW table \in Table, NEW p \in P
      PROVE  \E k \in 1..(2 * n) : e[k] = Call(table, {p}, markdown[p])
  <2>1. PICK j \in 1..n : s[j] = p
    BY <1>1
  <2>2. /\ 2 * j - 1 \in 1..(2 * n) /\ ((2 * j - 1) + 1) \div 2 = j /\ 2 - ((2 * j - 1) % 2) = 1
        /\ 2 * j \in 1..(2 * n) /\ ((2 * j) + 1) \div 2 = j /\ 2 - ((2 * j) % 2) = 2
    BY <1>1
  <2>3. /\ e[2 * j - 1] = Indexing(p, markdown[p])[1]
        /\ e[2 * j] = Indexing(p, markdown[p])[2]
    BY <1>3, <2>1, <2>2
  <2> HIDE DEF e
  <2>4. /\ Indexing(p, markdown[p])[1] = Call("tags", {p}, markdown[p])
        /\ Indexing(p, markdown[p])[2] = Call("properties", {p}, markdown[p])
    BY DEF Indexing
  <2> QED BY <2>2, <2>3, <2>4 DEF Table
<1>7. DOMAIN e = 1..(2 * n)
  BY <1>3
<1>8. ASSUME NEW k \in 1..(2 * n)
      PROVE  e[k] \in CallType
  <2>1. PICK table \in Table, p \in P : e[k] = Call(table, {p}, markdown[p])
    BY <1>5
  <2>2. table \in Doing /\ {p} \in SUBSET Id /\ markdown[p] \in Mark
    BY <1>2, <2>1 DEF Doing, Table
  <2> HIDE DEF e
  <2>3. Call(table, {p}, markdown[p]) \in CallType
    BY <2>2 DEF Call, CallType
  <2> QED BY <2>1, <2>3
<1>9. e \in [1..(2 * n) -> CallType]
  BY <1>3, <1>7, <1>8
<1> HIDE DEF e
<1>10. e \in Seq(CallType)
  BY <1>1, <1>9
<1>11. ToSet(e) = {e[k] : k \in 1..(2 * n)}
  BY <1>7 DEF ToSet
<1>12. ASSUME NEW c \in ToSet(e)
       PROVE  \E table \in Table, p \in P : c = Call(table, {p}, markdown[p])
  <2>1. PICK k \in 1..(2 * n) : c = e[k]
    BY <1>11
  <2> QED BY <1>5, <2>1
<1>13. ASSUME NEW table \in Table, NEW p \in P
       PROVE  Call(table, {p}, markdown[p]) \in ToSet(e)
  <2>1. PICK k \in 1..(2 * n) : e[k] = Call(table, {p}, markdown[p])
    BY <1>6
  <2> QED BY <1>11, <2>1
<1> QED BY <1>10, <1>12, <1>13 DEF e

-----------------------------------------------------------------------------
(* What a step leaves *)

\* A worker that had no call left gets some: nothing is lost for a page it did not change.
LEMMA Given ==
  ASSUME NEW table, NEW p, NEW md, NEW md2, NEW at, NEW lost, NEW t,
         NEW all, NEW all2, all[t] = <<>>, \A w \in Worker : w # t => all2[w] = all[w],
         p \in DOMAIN md2 <=> p \in DOMAIN md, p \in DOMAIN md => md2[p] = md[p],
         Covered(table, p, md, at, lost, all)
  PROVE  Covered(table, p, md2, at, lost, all2)
<1>1. \A w \in Worker : FollowedBy(all[w], table, p, md) => w # t
  BY DEF FollowedBy, ToSet
<1>2. \A s : FollowedBy(s, table, p, md) => FollowedBy(s, table, p, md2)
  BY DEF FollowedBy, Follows
<1>3. UpToDate(at, table, p, md) => UpToDate(at, table, p, md2)
  BY DEF UpToDate
<1> QED BY <1>1, <1>2, <1>3 DEF Covered

\* A call that is made, with what it puts in its place: only what the call itself follows is
\* in question.
LEMMA Made ==
  ASSUME NEW table \in Table, NEW p, NEW md, NEW s \in Seq(CallType), s # <<>>,
         NEW series \in Seq(CallType), \A c \in ToSet(series) : c.do \notin Rebuilding,
         FollowedBy(s, table, p, md), ~Follows(Head(s), s, table, p, md)
  PROVE  FollowedBy(series \o Tail(s), table, p, md)
<1>1. /\ ToSet(s) = {Head(s)} \cup ToSet(Tail(s)) /\ Tail(s) \in Seq(CallType)
  BY FirstAndRest
<1>2. ToSet(series \o Tail(s)) = ToSet(series) \cup ToSet(Tail(s))
  BY <1>1, JoinedCalls
<1>3. Clearing[table] \in Rebuilding
  BY Clears
<1>4. PICK c \in ToSet(Tail(s)) : Follows(c, s, table, p, md)
  BY <1>1 DEF FollowedBy
<1>5. \A d \in ToSet(series \o Tail(s)) : d \in ToSet(s) \/ d.do \notin Rebuilding
  BY <1>1, <1>2
<1>6. Follows(c, series \o Tail(s), table, p, md)
  BY <1>3, <1>4, <1>5 DEF Follows
<1> QED BY <1>2, <1>4, <1>6 DEF FollowedBy

-----------------------------------------------------------------------------
(* What the workers have left to do *)

\* Calls that any worker may have
Fine(series, gone) ==
  series \in Seq(CallType) /\ \A c \in ToSet(series) : c.do \notin Rebuilding /\ Sensible(c, gone)

LEMMA Renewed ==
  ASSUME WellFormed, calls \in [Worker -> Seq(CallType)], NEW w \in Worker, NEW series,
         calls' = [calls EXCEPT ![w] = series], series \in Seq(CallType),
         Gone \subseteq Gone',
         \/ Fine(series, Gone')
         \/ /\ w = Resync
            /\ series \in {<<ClearTags, ClearProperties, WalkAll>>, <<ClearProperties, WalkAll>>, <<WalkAll>>}
  PROVE  calls' \in [Worker -> Seq(CallType)] /\ WellFormed'
<1>1. /\ calls' \in [Worker -> Seq(CallType)] /\ calls'[w] = series
      /\ \A v \in Worker : v # w => calls'[v] = calls[v]
  OBVIOUS
<1>2. \A c : Sensible(c, Gone) => Sensible(c, Gone')
  BY DEF Sensible
<1>3. ASSUME NEW v \in Worker
      PROVE  Ordered(v)' /\ \A c \in ToSet(calls'[v]) : Sensible(c, Gone')
  <2>1. CASE v # w
    BY <1>1, <1>2, <2>1 DEF WellFormed, Ordered
  <2>2. CASE v = w /\ Fine(series, Gone')
    BY <1>1, <2>2 DEF Fine, Ordered
  <2>3. CASE v = w /\ w = Resync
             /\ series \in {<<ClearTags, ClearProperties, WalkAll>>, <<ClearProperties, WalkAll>>, <<WalkAll>>}
    <3>1. Ordered(v)'
      BY <1>1, <2>3 DEF Ordered
    <3>2. ASSUME NEW c \in ToSet(series)
          PROVE  Sensible(c, Gone')
      <4>1. c \in {ClearTags, ClearProperties, WalkAll}
        BY <2>3 DEF ToSet
      <4>2. ClearTags.do = "clear tags" /\ ClearProperties.do = "clear properties" /\ WalkAll.do = "walk"
        BY DEF ClearTags, ClearProperties, WalkAll, Call
      <4>3. c.do \in {"clear tags", "clear properties", "walk"}
        BY <4>1, <4>2
      <4> QED BY <4>3 DEF Sensible, Table
    <3> QED BY <1>1, <2>3, <3>1, <3>2
  <2> QED BY <2>1, <2>2, <2>3
<1> QED BY <1>1, <1>3 DEF WellFormed

\* Before and after a call that is none of the three of a resync
LEMMA Ordinary ==
  ASSUME WellFormed, calls \in [Worker -> Seq(CallType)], NEW w \in Worker, calls[w] # <<>>,
         Now(w).do \notin Rebuilding
  PROVE  Fine(calls[w], Gone) /\ Fine(Tail(calls[w]), Gone) /\ Now(w) \in CallType /\ Sensible(Now(w), Gone)
<1>1. calls[w] \in Seq(CallType)
  OBVIOUS
<1>2. /\ Now(w) \in CallType /\ Tail(calls[w]) \in Seq(CallType)
      /\ ToSet(calls[w]) = {Now(w)} \cup ToSet(Tail(calls[w]))
  BY <1>1, FirstAndRest DEF Now
<1>3. calls[w] \notin {<<ClearTags, ClearProperties, WalkAll>>, <<ClearProperties, WalkAll>>, <<WalkAll>>}
  <2>1. /\ Head(<<ClearTags, ClearProperties, WalkAll>>) = ClearTags
        /\ Head(<<ClearProperties, WalkAll>>) = ClearProperties /\ Head(<<WalkAll>>) = WalkAll
    OBVIOUS
  <2>2. ClearTags.do \in Rebuilding /\ ClearProperties.do \in Rebuilding /\ WalkAll.do \in Rebuilding
    BY DEF ClearTags, ClearProperties, WalkAll, Call, Rebuilding
  <2> QED BY <2>1, <2>2 DEF Now
<1>4. \A c \in ToSet(calls[w]) : c.do \notin Rebuilding /\ Sensible(c, Gone)
  BY <1>3 DEF WellFormed, Ordered
<1> QED BY <1>1, <1>2, <1>4 DEF Fine

LEMMA Prefixed ==
  ASSUME WellFormed, calls \in [Worker -> Seq(CallType)], NEW w \in Worker, calls[w] # <<>>,
         Now(w).do \notin Rebuilding, NEW series, Fine(series, Gone),
         calls' = [calls EXCEPT ![w] = series \o Tail(calls[w])], UNCHANGED <<markdown, given>>
  PROVE  calls' \in [Worker -> Seq(CallType)] /\ WellFormed'
<1>1. Fine(Tail(calls[w]), Gone)
  BY Ordinary
<1>2. /\ series \o Tail(calls[w]) \in Seq(CallType)
      /\ ToSet(series \o Tail(calls[w])) = ToSet(series) \cup ToSet(Tail(calls[w]))
  BY <1>1, JoinedCalls DEF Fine
<1>3. Fine(series \o Tail(calls[w]), Gone)
  BY <1>1, <1>2 DEF Fine
<1>4. Fine(series \o Tail(calls[w]), Gone')
  BY <1>3 DEF Gone, Existing
<1> QED BY <1>2, <1>4, Renewed DEF Gone, Existing

-----------------------------------------------------------------------------
(* Mutations *)

LEMMA Marks ==
  ASSUME MetadataTypeOK, NEW p \in Existing, NEW refront \in BOOLEAN, NEW retext \in BOOLEAN
  PROVE  LET md == Rewritten(p, refront, retext) IN
         /\ md \in [Existing -> Mark] /\ \A q \in Existing : q # p => md[q] = markdown[q]
         /\ ~refront => md[p].front = markdown[p].front
         /\ ~retext => md[p].text = markdown[p].text
<1>1. markdown \in [Existing -> Mark] /\ markdown[p] \in Mark
  BY DEF MetadataTypeOK
<1>2. markdown[p].stamp + 1 \in Int
  BY <1>1 DEF Mark
<1> DEFINE md == Rewritten(p, refront, retext)
           stamp == markdown[p].stamp + 1
           front == IF refront THEN stamp ELSE markdown[p].front
           text == IF retext THEN stamp ELSE markdown[p].text
<1>3. DOMAIN md = Existing /\ \A q \in Existing : q # p => md[q] = markdown[q]
  BY <1>1 DEF Rewritten
<1>4. md[p] = [[[markdown[p] EXCEPT !.stamp = stamp] EXCEPT !.front = front] EXCEPT !.text = text]
  BY <1>1 DEF Rewritten
<1>5. front \in Int /\ text \in Int /\ stamp \in Int
  BY <1>1, <1>2 DEF Mark
<1>6. md[p] \in Mark /\ md[p].front = front /\ md[p].text = text
  BY <1>1, <1>4, <1>5 DEF Mark
<1>7. md \in [Existing -> Mark]
  BY <1>1, <1>3, <1>6 DEF Rewritten
<1> QED BY <1>3, <1>6, <1>7

\* A thread changes a page and has calls to make for it, which bring every table to it.
LEMMA MutatedPages ==
  ASSUME MetadataInv, NEW t \in Worker, Idle(t), NEW series, Fine(series, Gone'), Makes(t, series), Observed,
         NEW P, given' \in SUBSET Id, Gone \subseteq Gone', Existing' \subseteq given', IsFiniteSet(Existing'),
         markdown' \in [Existing' -> Mark],
         \A q \in Id \ P : (q \in Existing' <=> q \in Existing) /\ (q \in Existing => markdown'[q] = markdown[q]),
         \A table \in Table, q \in P : FollowedBy(series, table, q, markdown')
  PROVE  MetadataInv'
<1>1. calls \in [Worker -> Seq(CallType)] /\ series \in Seq(CallType) /\ calls' = [calls EXCEPT ![t] = series]
  BY DEF MetadataInv, MetadataTypeOK, Fine, Makes
<1>2. calls' \in [Worker -> Seq(CallType)] /\ WellFormed'
  BY <1>1, Renewed DEF MetadataInv
<1>3. MetadataTypeOK'
  BY <1>2 DEF MetadataInv, MetadataTypeOK, Observed
<1>4. ASSUME NEW table \in Table, NEW p \in Id
      PROVE  Covered(table, p, markdown', rows'[table], missed'[table], calls')
  <2>1. rows'[table] = rows[table] /\ missed'[table] = missed[table]
    BY DEF Observed
  <2>2. CASE p \in P
    <3>1. calls'[t] = series
      BY <1>1
    <3> QED BY <2>2, <3>1 DEF Covered
  <2>3. CASE p \notin P
    <3>1. Covered(table, p, markdown, rows[table], missed[table], calls)
      BY DEF MetadataInv
    <3>2. calls[t] = <<>> /\ \A w \in Worker : w # t => calls'[w] = calls[w]
      BY <1>1 DEF Idle
    <3>3. /\ p \in DOMAIN markdown' <=> p \in DOMAIN markdown
          /\ p \in DOMAIN markdown => markdown'[p] = markdown[p]
      BY <2>3 DEF Existing
    <3> QED BY <2>1, <3>1, <3>2, <3>3, Given
  <2> QED BY <2>2, <2>3
<1> QED BY <1>2, <1>3, <1>4 DEF MetadataInv

\* The calls for a page as it is now
LEMMA IndexingFollows ==
  ASSUME NEW p \in Id, NEW md, p \in DOMAIN md, md[p] \in Mark
  PROVE  /\ \A gone : Fine(Indexing(p, md[p]), gone)
         /\ \A table \in Table : FollowedBy(Indexing(p, md[p]), table, p, md)
<1>1. /\ Indexing(p, md[p]) \in Seq(CallType)
      /\ ToSet(Indexing(p, md[p])) = {Call("tags", {p}, md[p]), Call("properties", {p}, md[p])}
      /\ \A table \in Table : Call(table, {p}, md[p]) \in ToSet(Indexing(p, md[p]))
  BY BothTables
<1>2. \A c \in ToSet(Indexing(p, md[p])) : c.do \in Table /\ c.pages = {p}
  BY <1>1 DEF Call, Table
<1>3. ASSUME NEW gone
      PROVE  Fine(Indexing(p, md[p]), gone)
  BY <1>1, <1>2 DEF Fine, Sensible, Rebuilding, Table
<1> QED BY <1>1, <1>3 DEF FollowedBy, Follows

LEMMA CreateOnePage ==
  ASSUME MetadataInv, NEW t \in Thread, NEW p \in Id, Create(t, p)
  PROVE  MetadataInv'
<1> DEFINE m == [front |-> 0, text |-> 1, stamp |-> 1, pin |-> FALSE]
<1>1. p \notin given /\ given' = given \cup {p} /\ Existing \subseteq given /\ given \in SUBSET Id /\ IsFiniteSet(Existing)
  BY DEF Create, MetadataInv, MetadataTypeOK
<1>2. m \in Mark
  BY DEF Mark
<1>3. /\ Existing' = Existing \cup {p} /\ markdown' \in [Existing' -> Mark] /\ markdown'[p] = m
      /\ \A q \in Existing : markdown'[q] = markdown[q]
  BY <1>1, <1>2 DEF Create, MetadataInv, MetadataTypeOK, Existing
<1>4. IsFiniteSet(Existing')
  BY <1>1, <1>3, FS_AddElement
<1>5. /\ Fine(Indexing(p, markdown'[p]), Gone')
      /\ \A table \in Table : FollowedBy(Indexing(p, markdown'[p]), table, p, markdown')
  BY <1>2, <1>3, IndexingFollows DEF Existing
<1>6. Gone \subseteq Gone' /\ Existing' \subseteq given' /\ given' \in SUBSET Id
  BY <1>1, <1>3 DEF Gone
<1>7. \A q \in Id \ {p} : (q \in Existing' <=> q \in Existing) /\ (q \in Existing => markdown'[q] = markdown[q])
  BY <1>3
<1>8. t \in Worker /\ Idle(t) /\ Makes(t, Indexing(p, markdown'[p])) /\ Observed
  BY DEF Create, Worker
<1> DEFINE series == Indexing(p, markdown'[p])
           P == {p}
<1>9. /\ \A q \in Id \ P : (q \in Existing' <=> q \in Existing) /\ (q \in Existing => markdown'[q] = markdown[q])
      /\ \A table \in Table, q \in P : FollowedBy(series, table, q, markdown')
      /\ Fine(series, Gone') /\ Makes(t, series)
  BY <1>5, <1>7, <1>8
<1> HIDE DEF series, P
<1> QED BY <1>3, <1>4, <1>6, <1>8, <1>9, MutatedPages

\* The Markdown of one page is changed.
LEMMA OnePage ==
  ASSUME MetadataInv, NEW p \in Existing, markdown' \in [Existing -> Mark],
         \A q \in Existing : q # p => markdown'[q] = markdown[q], given' = given
  PROVE  /\ Existing' = Existing /\ Gone' = Gone /\ Existing' \subseteq given' /\ given' \in SUBSET Id /\ IsFiniteSet(Existing')
         /\ p \in Id /\ markdown' \in [Existing' -> Mark]
         /\ \A q \in Id \ {p} : (q \in Existing' <=> q \in Existing) /\ (q \in Existing => markdown'[q] = markdown[q])
BY DEF MetadataInv, MetadataTypeOK, Existing, Gone

LEMMA SavePage ==
  ASSUME MetadataInv, NEW t \in Thread, NEW p \in Id, NEW refront \in BOOLEAN, NEW retext \in BOOLEAN,
         Save(t, p, refront, retext)
  PROVE  MetadataInv'
<1>1. p \in Existing /\ markdown' = Rewritten(p, refront, retext) /\ given' = given
  BY DEF Save, Writable
<1>2. /\ markdown' \in [Existing -> Mark] /\ \A q \in Existing : q # p => markdown'[q] = markdown[q]
  BY <1>1, Marks DEF MetadataInv
<1>3. /\ Existing' = Existing /\ Gone' = Gone /\ Existing' \subseteq given' /\ given' \in SUBSET Id /\ IsFiniteSet(Existing')
      /\ p \in Id /\ markdown' \in [Existing' -> Mark]
      /\ \A q \in Id \ {p} : (q \in Existing' <=> q \in Existing) /\ (q \in Existing => markdown'[q] = markdown[q])
  BY <1>1, <1>2, OnePage
<1>4. /\ Fine(Indexing(p, markdown'[p]), Gone')
      /\ \A table \in Table : FollowedBy(Indexing(p, markdown'[p]), table, p, markdown')
  BY <1>1, <1>2, IndexingFollows
<1>5. t \in Worker /\ Idle(t) /\ Makes(t, Indexing(p, markdown'[p])) /\ Observed
  BY DEF Save, Worker
<1> DEFINE series == Indexing(p, markdown'[p])
           P == {p}
<1>6. /\ \A q \in Id \ P : (q \in Existing' <=> q \in Existing) /\ (q \in Existing => markdown'[q] = markdown[q])
      /\ \A table \in Table, q \in P : FollowedBy(series, table, q, markdown')
      /\ Fine(series, Gone') /\ Makes(t, series)
  BY <1>3, <1>4, <1>5
<1> HIDE DEF series, P
<1> QED BY <1>3, <1>5, <1>6, MutatedPages

\* One call as a series
LEMMA OneCall ==
  \A c \in CallType : <<c>> \in Seq(CallType) /\ ToSet(<<c>>) = {c}
BY DEF ToSet

LEMMA RestorePage ==
  ASSUME MetadataInv, NEW t \in Thread, NEW p \in Id, NEW refront \in BOOLEAN,
         RestoreRevision(t, p, refront)
  PROVE  MetadataInv'
<1>1. p \in Existing /\ markdown' = Rewritten(p, refront, TRUE) /\ given' = given
  BY DEF RestoreRevision, Writable
<1>2. /\ markdown' \in [Existing -> Mark] /\ \A q \in Existing : q # p => markdown'[q] = markdown[q]
  BY <1>1, Marks DEF MetadataInv
<1>3. /\ Existing' = Existing /\ Gone' = Gone /\ Existing' \subseteq given' /\ given' \in SUBSET Id /\ IsFiniteSet(Existing')
      /\ p \in Id /\ markdown' \in [Existing' -> Mark]
      /\ \A q \in Id \ {p} : (q \in Existing' <=> q \in Existing) /\ (q \in Existing => markdown'[q] = markdown[q])
  BY <1>1, <1>2, OnePage
<1> DEFINE c == Call("read", {p}, Unseen)
           series == <<c>>
           P == {p}
<1>4. c \in CallType /\ c.do = "read" /\ c.pages = {p}
  BY UnseenIsMark DEF Call, CallType, Doing
<1>5. series \in Seq(CallType) /\ ToSet(series) = {c}
  BY <1>4, OneCall
<1>6. Fine(series, Gone')
  BY <1>4, <1>5 DEF Fine, Sensible, Table, Rebuilding
<1>7. \A table \in Table, q \in P : FollowedBy(series, table, q, markdown')
  BY <1>1, <1>2, <1>4, <1>5 DEF FollowedBy, Follows
<1>8. \A q \in Id \ P : (q \in Existing' <=> q \in Existing) /\ (q \in Existing => markdown'[q] = markdown[q])
  BY <1>3
<1>9. t \in Worker /\ Idle(t) /\ Makes(t, series) /\ Observed
  BY DEF RestoreRevision, Worker
<1> HIDE DEF series, P
<1> QED BY <1>3, <1>6, <1>7, <1>8, <1>9, MutatedPages

LEMMA DeletePages ==
  ASSUME MetadataInv, NEW t \in Thread, NEW P \in SUBSET Existing, Delete(t, P)
  PROVE  MetadataInv'
<1> DEFINE c == Call("drop tags", P, Unseen)
           each == Each("drop properties", P)
           series == <<c>> \o each
<1>1. /\ P \subseteq Existing /\ given' = given /\ markdown' = [q \in Existing \ P |-> markdown[q]] /\ t \in Worker
      /\ Idle(t) /\ Makes(t, series) /\ Observed
  BY DEF Delete, Worker
<1>2. given \in SUBSET Id /\ Existing \subseteq given /\ IsFiniteSet(Existing) /\ markdown \in [Existing -> Mark]
  BY DEF MetadataInv, MetadataTypeOK
<1>3. IsFiniteSet(P) /\ IsFiniteSet(Existing \ P)
  BY <1>2, FS_Subset
<1>4. Existing' = Existing \ P /\ P \in SUBSET Id /\ markdown' \in [Existing' -> Mark]
  BY <1>1, <1>2 DEF Existing
<1>5. Gone \subseteq Gone' /\ P \subseteq Gone' /\ Existing' \subseteq given' /\ given' \in SUBSET Id /\ IsFiniteSet(Existing')
  BY <1>1, <1>2, <1>3, <1>4 DEF Gone
<1>6. c \in CallType /\ c.do = "drop tags" /\ c.pages = P
  BY <1>4, UnseenIsMark DEF Call, CallType, Doing, Dropping, Table
<1>7. each \in Seq(CallType) /\ ToSet(each) = {Call("drop properties", {p}, Unseen) : p \in P}
  <2>1. "drop properties" \in Doing
    BY DEF Doing, Dropping, Table
  <2> QED BY <1>3, <1>4, <2>1, EachPage
<1>8. series \in Seq(CallType) /\ ToSet(series) = {c} \cup ToSet(each)
  <2>1. <<c>> \in Seq(CallType) /\ ToSet(<<c>>) = {c}
    BY <1>6, OneCall
  <2> HIDE DEF c, each
  <2> QED BY <1>7, <2>1, JoinedCalls
<1>9. \A d \in ToSet(each) : d.do = "drop properties" /\ d.pages \subseteq P
  <2> HIDE DEF each
  <2>1. TAKE d \in ToSet(each)
  <2>2. PICK p \in P : d = Call("drop properties", {p}, Unseen)
    BY <1>7
  <2> QED BY <2>2 DEF Call
<1>10. \A d \in ToSet(series) : d.do \in {"drop tags", "drop properties"} /\ d.pages \subseteq P
  BY <1>6, <1>8, <1>9
<1> HIDE DEF series
<1>11. Fine(series, Gone')
  BY <1>5, <1>8, <1>10 DEF Fine, Sensible, Table, Rebuilding
<1>12. ASSUME NEW table \in Table, NEW q \in P
       PROVE  FollowedBy(series, table, q, markdown')
  <2>1. q \notin DOMAIN markdown'
    BY <1>4 DEF Existing
  <2>2. CASE table = "tags"
    <3>1. Dropping[table] = c.do /\ c \in ToSet(series) /\ q \in c.pages
      BY <1>6, <1>8, <2>2 DEF Dropping, Table
    <3> HIDE DEF c
    <3> QED BY <2>1, <3>1 DEF FollowedBy, Follows
  <2>3. CASE table # "tags"
    <3> DEFINE d == Call("drop properties", {q}, Unseen)
    <3>1. Dropping[table] = "drop properties"
      BY <2>3 DEF Dropping
    <3>2. d.do = "drop properties" /\ q \in d.pages
      BY DEF Call
    <3>3. d \in ToSet(series)
      BY <1>7, <1>8
    <3> HIDE DEF d
    <3> QED BY <2>1, <3>1, <3>2, <3>3 DEF FollowedBy, Follows
  <2> QED BY <2>2, <2>3
<1>13. \A q \in Id \ P : (q \in Existing' <=> q \in Existing) /\ (q \in Existing => markdown'[q] = markdown[q])
  BY <1>1, <1>4
<1> QED BY <1>1, <1>4, <1>5, <1>11, <1>12, <1>13, MutatedPages

\* A change without a call: what the rows lose by it is missed.
LEMMA UnindexedPage ==
  ASSUME MetadataInv, NEW p \in Id, p \in Existing, NEW retext \in BOOLEAN, Unindexed(p, retext),
         markdown' \in [Existing -> Mark], \A q \in Existing : q # p => markdown'[q] = markdown[q],
         markdown'[p].front = markdown[p].front, ~retext => markdown'[p].text = markdown[p].text
  PROVE  MetadataInv'
<1>1. /\ given' = given /\ rows' = rows /\ calls' = calls /\ rebuilds' = rebuilds /\ failures' = failures
      /\ DOMAIN missed' = Table /\ \A table \in Table : missed[table] \subseteq missed'[table]
      /\ \A table \in Table : Overtaken(table, p) \/ (retext /\ table = "tags") => p \in missed'[table]
  BY DEF Unindexed
<1>2. /\ Existing' = Existing /\ Gone' = Gone /\ Existing' \subseteq given' /\ given' \in SUBSET Id /\ IsFiniteSet(Existing')
      /\ markdown' \in [Existing' -> Mark]
  BY <1>1, OnePage
<1>3. MetadataTypeOK'
  BY <1>1, <1>2 DEF MetadataInv, MetadataTypeOK
<1>4. WellFormed'
  BY <1>1, <1>2 DEF MetadataInv, WellFormed, Ordered
<1>5. ASSUME NEW table \in Table, NEW q \in Id
      PROVE  Covered(table, q, markdown', rows'[table], missed'[table], calls')
  <2>1. Covered(table, q, markdown, rows[table], missed[table], calls)
    BY DEF MetadataInv
  <2>2. CASE q \in missed[table]
    BY <1>1, <2>2 DEF Covered
  <2>3. CASE UpToDate(rows[table], table, q, markdown)
    <3>1. q \in DOMAIN markdown' <=> q \in DOMAIN markdown
      BY <1>2 DEF Existing
    <3>2. CASE q # p
      BY <1>1, <2>3, <3>1, <3>2 DEF Covered, UpToDate, Existing
    <3>3. CASE q = p /\ retext /\ table = "tags"
      BY <1>1, <3>3 DEF Covered
    <3>4. CASE q = p /\ ~(retext /\ table = "tags")
      <4>1. Extracted(table, markdown'[p]) = Extracted(table, markdown[p])
        BY <3>4 DEF Extracted, Table
      <4> QED BY <1>1, <2>3, <3>1, <3>4, <4>1 DEF Covered, UpToDate, Existing
    <3> QED BY <3>2, <3>3, <3>4
  <2>4. ASSUME NEW w \in Worker, FollowedBy(calls[w], table, q, markdown)
        PROVE  Covered(table, q, markdown', rows'[table], missed'[table], calls')
    <3>1. PICK c \in ToSet(calls[w]) : Follows(c, calls[w], table, q, markdown)
      BY <2>4 DEF FollowedBy
    <3>2. CASE Follows(c, calls[w], table, q, markdown')
      BY <1>1, <3>1, <3>2 DEF Covered, FollowedBy
    <3>3. CASE ~Follows(c, calls[w], table, q, markdown')
      <4>1. q \in DOMAIN markdown' <=> q \in DOMAIN markdown
        BY <1>2 DEF Existing
      <4>2. q = p /\ c = Call(table, {p}, markdown[p])
        BY <3>1, <3>3, <4>1 DEF Follows, Existing
      <4>3. Overtaken(table, p)
        BY <3>1, <4>2 DEF Overtaken, ToSet
      <4> QED BY <1>1, <4>2, <4>3 DEF Covered
    <3> QED BY <3>2, <3>3
  <2> QED BY <2>1, <2>2, <2>3, <2>4 DEF Covered
<1> QED BY <1>3, <1>4, <1>5 DEF MetadataInv

LEMMA UnindexedChange ==
  ASSUME MetadataInv, NEW p \in Id, Touch(p) \/ RewriteLinks(p) \/ Pin(p)
  PROVE  MetadataInv'
<1>1. CASE Touch(p)
  BY <1>1, Marks, UnindexedPage DEF Touch, Writable, MetadataInv
<1>2. CASE RewriteLinks(p)
  BY <1>2, Marks, UnindexedPage DEF RewriteLinks, Writable, MetadataInv
<1>3. CASE Pin(p)
  <2>1. p \in Existing /\ markdown' = [markdown EXCEPT ![p].pin = ~@] /\ Unindexed(p, FALSE)
    BY <1>3 DEF Pin
  <2>2. markdown \in [Existing -> Mark]
    BY DEF MetadataInv, MetadataTypeOK
  <2>3. /\ DOMAIN markdown' = Existing /\ \A q \in Existing : q # p => markdown'[q] = markdown[q]
        /\ markdown'[p] = [markdown[p] EXCEPT !.pin = ~markdown[p].pin]
    BY <2>1, <2>2
  <2> DEFINE m == markdown[p]
  <2>4. m \in Mark
    BY <2>1, <2>2
  <2> HIDE DEF m
  <2>5. LET n == [m EXCEPT !.pin = ~m.pin] IN n \in Mark /\ n.front = m.front /\ n.text = m.text
    BY <2>4 DEF Mark
  <2>6. /\ markdown'[p] \in Mark /\ markdown'[p].front = markdown[p].front
        /\ markdown'[p].text = markdown[p].text
    BY <2>3, <2>5 DEF m
  <2>7. markdown' \in [Existing -> Mark]
    BY <2>1, <2>2, <2>3, <2>6
  <2> QED BY <2>1, <2>3, <2>6, <2>7, UnindexedPage
<1> QED BY <1>1, <1>2, <1>3

-----------------------------------------------------------------------------
(* Calls *)

\* What a call of a worker leaves, if it is none of the three of a resync
LEMMA MadeCall ==
  ASSUME MetadataInv, NEW w \in Worker, calls[w] # <<>>, Now(w).do \notin Rebuilding,
         NEW series, Fine(series, Gone), calls' = [calls EXCEPT ![w] = series \o Tail(calls[w])],
         UNCHANGED <<markdown, given>>, rebuilds' \in Int, failures' \in Int, DOMAIN rows' = Table, DOMAIN missed' = Table,
         \A table \in Table, p \in Id :
           /\ p \in missed[table] => p \in missed'[table] \/ UpToDate(rows'[table], table, p, markdown)
           /\ UpToDate(rows[table], table, p, markdown)
                => Covered(table, p, markdown, rows'[table], missed'[table], calls')
           /\ Follows(Now(w), calls[w], table, p, markdown)
                => Covered(table, p, markdown, rows'[table], missed'[table], calls')
  PROVE  MetadataInv'
<1>1. WellFormed /\ calls \in [Worker -> Seq(CallType)]
  BY DEF MetadataInv, MetadataTypeOK
<1>2. calls' \in [Worker -> Seq(CallType)] /\ WellFormed'
  BY <1>1, Prefixed
<1>3. MetadataTypeOK'
  BY <1>2 DEF MetadataInv, MetadataTypeOK, Existing
<1>4. ASSUME NEW table \in Table, NEW p \in Id
      PROVE  Covered(table, p, markdown', rows'[table], missed'[table], calls')
  <2>1. Covered(table, p, markdown, rows[table], missed[table], calls)
    BY DEF MetadataInv
  <2>2. series \in Seq(CallType) /\ \A c \in ToSet(series) : c.do \notin Rebuilding
    BY DEF Fine
  <2>3. CASE p \in missed[table] \/ UpToDate(rows[table], table, p, markdown)
    BY <2>3 DEF Covered
  <2>4. CASE Follows(Now(w), calls[w], table, p, markdown)
    BY <2>4
  <2>5. ASSUME NEW v \in Worker, FollowedBy(calls[v], table, p, markdown), ~Follows(Now(w), calls[w], table, p, markdown)
        PROVE  Covered(table, p, markdown', rows'[table], missed'[table], calls')
    <3>1. CASE v # w
      <4>1. calls'[v] = calls[v]
        BY <1>1, <3>1
      <4> QED BY <2>5, <4>1 DEF Covered
    <3>2. CASE v = w
      <4>1. calls[w] \in Seq(CallType) /\ calls'[w] = series \o Tail(calls[w])
        BY <1>1
      <4>2. FollowedBy(calls'[w], table, p, markdown)
        BY <2>2, <2>5, <3>2, <4>1, Made DEF Now
      <4> QED BY <4>2 DEF Covered
    <3> QED BY <3>1, <3>2
  <2> QED BY <2>1, <2>3, <2>4, <2>5 DEF Covered
<1> QED BY <1>2, <1>3, <1>4 DEF MetadataInv

LEMMA NoCalls ==
  /\ <<>> \in Seq(CallType) /\ \A gone : Fine(<<>>, gone)
  /\ \A s \in Seq(CallType) : <<>> \o s = s
BY DEF Fine, ToSet

LEMMA SetRows ==
  ASSUME MetadataInv, NEW w \in Worker, Set(w)
  PROVE  MetadataInv'
<1> DEFINE page == CHOOSE q \in Now(w).pages : TRUE
           row(table, q) == IF q = page THEN Extracted(table, Now(w).seen) ELSE rows[table][q]
<1>1. PICK table \in Table :
        /\ Does(w, table) /\ Then(w, <<>>)
        /\ IF Matches(Now(w))
           THEN /\ rows' = [rows EXCEPT ![table] = [q \in DOMAIN rows[table] \cup {page} |-> row(table, q)]]
                /\ missed' = [missed EXCEPT ![table] = missed[table] \ {page}]
           ELSE UNCHANGED <<rows, missed>>
  BY DEF Set
<1> HIDE DEF page
<1>2. calls[w] # <<>> /\ Now(w).do = table /\ Now(w).do \notin Rebuilding
  BY <1>1 DEF Does, Rebuilding, Table
<1>3. /\ WellFormed /\ calls \in [Worker -> Seq(CallType)] /\ DOMAIN rows = Table /\ DOMAIN missed = Table
      /\ rebuilds \in Int /\ failures \in Int
  BY DEF MetadataInv, MetadataTypeOK
<1>4. Sensible(Now(w), Gone)
  BY <1>2, <1>3, Ordinary
<1>5. PICK p \in Id : Now(w).pages = {p}
  BY <1>2, <1>4 DEF Sensible
<1>6. page = p
  BY <1>5 DEF page
<1>7. /\ calls' = [calls EXCEPT ![w] = <<>> \o Tail(calls[w])]
      /\ UNCHANGED <<markdown, given>> /\ rebuilds' = rebuilds /\ failures' = failures
  BY <1>1 DEF Then, Makes
<1>8. DOMAIN rows' = Table /\ DOMAIN missed' = Table
  BY <1>1, <1>3
<1>9. \A other \in Table : other # table => rows'[other] = rows[other] /\ missed'[other] = missed[other]
  BY <1>1, <1>3
<1>10. CASE Matches(Now(w))
  <2>1. /\ p \in Existing /\ markdown[p] = Now(w).seen
    BY <1>5, <1>10 DEF Matches
  <2>2. /\ rows'[table] = [q \in DOMAIN rows[table] \cup {p} |->
                             IF q = p THEN Extracted(table, markdown[p]) ELSE rows[table][q]]
        /\ missed'[table] = missed[table] \ {p}
    <3>1. /\ rows' = [rows EXCEPT ![table] = [q \in DOMAIN rows[table] \cup {p} |->
                             IF q = p THEN Extracted(table, Now(w).seen) ELSE rows[table][q]]]
          /\ missed' = [missed EXCEPT ![table] = missed[table] \ {p}]
      BY <1>1, <1>6, <1>10
    <3> QED BY <1>3, <2>1, <3>1
  <2>3. UpToDate(rows'[table], table, p, markdown)
    BY <2>1, <2>2 DEF UpToDate, Existing
  <2>4. \A q : q # p /\ UpToDate(rows[table], table, q, markdown) => UpToDate(rows'[table], table, q, markdown)
    BY <2>2 DEF UpToDate
  <2>5. ASSUME NEW other \in Table, NEW q \in Id
        PROVE  /\ q \in missed[other] => q \in missed'[other] \/ UpToDate(rows'[other], other, q, markdown)
               /\ UpToDate(rows[other], other, q, markdown)
                    => Covered(other, q, markdown, rows'[other], missed'[other], calls')
               /\ Follows(Now(w), calls[w], other, q, markdown)
                    => Covered(other, q, markdown, rows'[other], missed'[other], calls')
    <3>1. CASE other # table
      <4>1. ~Follows(Now(w), calls[w], other, q, markdown)
        BY <1>2, <3>1, FollowsOnly, TableNames DEF Rebuilding
      <4> QED BY <1>9, <3>1, <4>1 DEF Covered
    <3>2. CASE other = table /\ q = p
      BY <2>3, <3>2 DEF Covered
    <3>3. CASE other = table /\ q # p
      <4>1. ~Follows(Now(w), calls[w], other, q, markdown)
        <5>1. {q} # {p} /\ q \notin {p}
          BY <3>3
        <5> QED BY <1>2, <1>5, <3>3, <5>1, FollowsOnly, TableNames DEF Rebuilding
      <4> QED BY <2>2, <2>4, <3>3, <4>1 DEF Covered
    <3> QED BY <3>1, <3>2, <3>3
  <2> QED BY <1>2, <1>3, <1>7, <1>8, <2>5, NoCalls, MadeCall
<1>11. CASE ~Matches(Now(w))
  <2>1. rows' = rows /\ missed' = missed
    BY <1>1, <1>11
  <2>2. ASSUME NEW other \in Table, NEW q \in Id
        PROVE  ~Follows(Now(w), calls[w], other, q, markdown)
    <3>1. Now(w).pages = {q} /\ q \in Existing => Now(w).seen # markdown[q]
      BY <1>11 DEF Matches
    <3> QED BY <1>2, <3>1, FollowsOnly, TableNames DEF Rebuilding, Existing
  <2> QED BY <1>2, <1>3, <1>7, <1>8, <2>1, <2>2, NoCalls, MadeCall DEF Covered
<1> QED BY <1>10, <1>11

LEMMA DropRows ==
  ASSUME MetadataInv, NEW w \in Worker, Drop(w)
  PROVE  MetadataInv'
<1>1. PICK table \in Table :
        /\ Does(w, Dropping[table]) /\ Dropped(table, Now(w).pages) /\ Then(w, <<>>) /\ UNCHANGED missed
  BY DEF Drop
<1>2. /\ calls[w] # <<>> /\ Now(w).do = Dropping[table] /\ Now(w).do \notin Rebuilding
      /\ Now(w).do \in {"drop tags", "drop properties"}
  BY <1>1 DEF Does, Rebuilding, Table, Dropping
<1>3. /\ WellFormed /\ calls \in [Worker -> Seq(CallType)] /\ DOMAIN rows = Table /\ DOMAIN missed = Table
      /\ rebuilds \in Int /\ failures \in Int
  BY DEF MetadataInv, MetadataTypeOK
<1>4. Now(w).pages \subseteq Gone
  BY <1>2, <1>3, Ordinary DEF Sensible
<1>5. /\ calls' = [calls EXCEPT ![w] = <<>> \o Tail(calls[w])]
      /\ UNCHANGED <<markdown, given>> /\ rebuilds' = rebuilds /\ failures' = failures /\ missed' = missed
  BY <1>1 DEF Then, Makes
<1>6. /\ DOMAIN rows' = Table /\ \A other \in Table : other # table => rows'[other] = rows[other]
      /\ rows'[table] = [q \in DOMAIN rows[table] \ Now(w).pages |-> rows[table][q]]
  BY <1>1, <1>3 DEF Dropped
<1>7. \A q \in Now(w).pages : UpToDate(rows'[table], table, q, markdown)
  BY <1>4, <1>6 DEF UpToDate, Gone, Existing
<1>8. ASSUME NEW other \in Table, NEW q \in Id, UpToDate(rows[other], other, q, markdown)
      PROVE  UpToDate(rows'[other], other, q, markdown)
  <2>1. CASE other # table
    BY <1>6, <1>8, <2>1
  <2>2. CASE other = table /\ q \in Now(w).pages
    BY <1>7, <2>2
  <2>3. CASE other = table /\ q \notin Now(w).pages
    BY <1>6, <1>8, <2>3 DEF UpToDate
  <2> QED BY <2>1, <2>2, <2>3
<1>9. ASSUME NEW other \in Table, NEW q \in Id, Follows(Now(w), calls[w], other, q, markdown)
      PROVE  UpToDate(rows'[other], other, q, markdown)
  <2>1. Now(w).do \notin Table \cup Rebuilding \cup {"read"} /\ Now(w).do # "walk"
    BY <1>2, TableNames DEF Rebuilding
  <2>2. Now(w).do = Dropping[other] /\ q \in Now(w).pages
    BY <1>9, <2>1, FollowsOnly
  <2>3. other = table
    BY <1>2, <2>2, TableNames
  <2> QED BY <1>7, <2>2, <2>3
<1> QED BY <1>2, <1>3, <1>5, <1>6, <1>8, <1>9, NoCalls, MadeCall DEF Covered

LEMMA ReadPages ==
  ASSUME MetadataInv, NEW w \in Worker, ReadBack(w)
  PROVE  MetadataInv'
<1> DEFINE P == Now(w).pages \cap Existing
           series == IndexingEach(P)
<1>1. calls[w] # <<>> /\ Now(w).do = "read" /\ Now(w).do \notin Rebuilding
  BY DEF ReadBack, Does, Rebuilding
<1>2. /\ calls' = [calls EXCEPT ![w] = series \o Tail(calls[w])]
      /\ UNCHANGED <<markdown, given>> /\ rebuilds' = rebuilds /\ failures' = failures
      /\ rows' = rows /\ missed' = missed
  BY DEF ReadBack, Then, Makes
<1>3. /\ MetadataTypeOK /\ calls \in [Worker -> Seq(CallType)] /\ DOMAIN rows = Table /\ DOMAIN missed = Table
      /\ rebuilds \in Int /\ failures \in Int /\ IsFiniteSet(Existing) /\ Existing \subseteq Id
  BY DEF MetadataInv, MetadataTypeOK
<1>4. P \in SUBSET Existing /\ IsFiniteSet(P)
  BY <1>3, FS_Subset
<1>5. /\ series \in Seq(CallType)
      /\ \A c \in ToSet(series) : \E table \in Table, p \in P : c = Call(table, {p}, markdown[p])
      /\ \A table \in Table, p \in P : Call(table, {p}, markdown[p]) \in ToSet(series)
  BY <1>3, <1>4, IndexingThem
<1> HIDE DEF series
<1>6. ASSUME NEW c \in ToSet(series)
      PROVE  c.do \in Table /\ \E p \in Id : c.pages = {p}
  <2>1. PICK table \in Table, p \in P : c = Call(table, {p}, markdown[p])
    BY <1>5
  <2>2. c.do = table /\ c.pages = {p}
    BY <2>1 DEF Call
  <2> QED BY <1>3, <2>2
<1>7. Fine(series, Gone)
  BY <1>5, <1>6 DEF Fine, Sensible, Table, Rebuilding
<1>8. ASSUME NEW table \in Table, NEW p \in Id, Follows(Now(w), calls[w], table, p, markdown)
      PROVE  FollowedBy(calls'[w], table, p, markdown)
  <2>1. p \in DOMAIN markdown /\ p \in Now(w).pages
    BY <1>1, <1>8, FollowsOnly, TableNames
  <2>2. p \in P
    BY <2>1 DEF Existing
  <2>3. Call(table, {p}, markdown[p]) \in ToSet(series)
    BY <1>5, <2>2
  <2>4. ToSet(calls'[w]) = ToSet(series) \cup ToSet(Tail(calls[w]))
    <3>1. calls[w] \in Seq(CallType)
      BY <1>3
    <3>2. Tail(calls[w]) \in Seq(CallType)
      BY <1>1, <3>1, FirstAndRest
    <3> QED BY <1>2, <1>3, <1>5, <3>2, JoinedCalls
  <2> QED BY <2>2, <2>3, <2>4 DEF FollowedBy, Follows, Existing
<1> QED BY <1>1, <1>2, <1>3, <1>7, <1>8, MadeCall DEF Covered

-----------------------------------------------------------------------------
(* A resync *)

Steps3 == <<ClearTags, ClearProperties, WalkAll>>
Steps2 == <<ClearProperties, WalkAll>>
Steps1 == <<WalkAll>>

LEMMA ResyncSeries ==
  /\ {ClearTags, ClearProperties, WalkAll} \subseteq CallType
  /\ ClearTags.do = "clear tags" /\ ClearProperties.do = "clear properties" /\ WalkAll.do = "walk"
  /\ {Steps3, Steps2, Steps1} \subseteq Seq(CallType)
  /\ Steps3 # <<>> /\ Head(Steps3) = ClearTags /\ Tail(Steps3) = Steps2
  /\ Steps2 # <<>> /\ Head(Steps2) = ClearProperties /\ Tail(Steps2) = Steps1
  /\ Steps1 # <<>> /\ Head(Steps1) = WalkAll /\ Tail(Steps1) = <<>>
  /\ ToSet(Steps3) = {ClearTags, ClearProperties, WalkAll}
  /\ ToSet(Steps2) = {ClearProperties, WalkAll} /\ ToSet(Steps1) = {WalkAll}
<1>1. {ClearTags, ClearProperties, WalkAll} \subseteq CallType
  BY UnseenIsMark DEF ClearTags, ClearProperties, WalkAll, Call, CallType, Doing, Clearing, Table
<1>2. ClearTags.do = "clear tags" /\ ClearProperties.do = "clear properties" /\ WalkAll.do = "walk"
  BY DEF ClearTags, ClearProperties, WalkAll, Call
<1>3. {Steps3, Steps2, Steps1} \subseteq Seq(CallType)
  BY <1>1 DEF Steps3, Steps2, Steps1
<1>4. /\ Steps3 # <<>> /\ Head(Steps3) = ClearTags /\ Tail(Steps3) = Steps2
      /\ Steps2 # <<>> /\ Head(Steps2) = ClearProperties /\ Tail(Steps2) = Steps1
      /\ Steps1 # <<>> /\ Head(Steps1) = WalkAll /\ Tail(Steps1) = <<>>
  BY DEF Steps3, Steps2, Steps1
<1>5. /\ ToSet(Steps3) = {ClearTags, ClearProperties, WalkAll}
      /\ ToSet(Steps2) = {ClearProperties, WalkAll} /\ ToSet(Steps1) = {WalkAll}
  BY DEF Steps3, Steps2, Steps1, ToSet
<1> QED BY <1>1, <1>2, <1>3, <1>4, <1>5

\* The worker is that of the resync, and has what is left of its three calls.
LEMMA Resyncing ==
  ASSUME MetadataInv, NEW w \in Worker, calls[w] # <<>>, Now(w).do \in Rebuilding
  PROVE  /\ w = Resync
         /\ \/ calls[w] = Steps3 /\ Now(w).do = "clear tags"
            \/ calls[w] = Steps2 /\ Now(w).do = "clear properties"
            \/ calls[w] = Steps1 /\ Now(w).do = "walk"
<1>1. calls[w] \in Seq(CallType) /\ Ordered(w)
  BY DEF MetadataInv, MetadataTypeOK, WellFormed
<1>2. Now(w) \in ToSet(calls[w])
  BY <1>1, FirstAndRest DEF Now
<1>3. w = Resync /\ calls[w] \in {Steps3, Steps2, Steps1}
  BY <1>1, <1>2 DEF Ordered, Steps3, Steps2, Steps1
<1> QED BY <1>3, ResyncSeries DEF Now

LEMMA ResyncCall ==
  ASSUME MetadataInv, NEW series, series \in Seq(CallType), Resync \in Worker,
         Fine(series, Gone) \/ series \in {Steps3, Steps2, Steps1},
         calls' = [calls EXCEPT ![Resync] = series],
         UNCHANGED <<markdown, given>>, rebuilds' \in Int, failures' \in Int, DOMAIN rows' = Table, DOMAIN missed' = Table,
         \A table \in Table, p \in Id :
           /\ p \in missed[table] => p \in missed'[table]
           /\ UpToDate(rows[table], table, p, markdown)
                => Covered(table, p, markdown, rows'[table], missed'[table], calls')
           /\ FollowedBy(calls[Resync], table, p, markdown)
                => Covered(table, p, markdown, rows'[table], missed'[table], calls')
  PROVE  MetadataInv'
<1>1. WellFormed /\ calls \in [Worker -> Seq(CallType)]
  BY DEF MetadataInv, MetadataTypeOK
<1>2. Gone' = Gone
  BY DEF Gone, Existing
<1>3. calls' \in [Worker -> Seq(CallType)] /\ WellFormed'
  <2>1. CASE Fine(series, Gone)
    BY <1>1, <1>2, <2>1, Renewed
  <2>2. CASE series \in {Steps3, Steps2, Steps1}
    BY <1>1, <1>2, <2>2, Renewed DEF Steps3, Steps2, Steps1
  <2> QED BY <2>1, <2>2
<1>4. MetadataTypeOK'
  BY <1>3 DEF MetadataInv, MetadataTypeOK, Existing
<1>5. ASSUME NEW table \in Table, NEW p \in Id
      PROVE  Covered(table, p, markdown', rows'[table], missed'[table], calls')
  <2>1. Covered(table, p, markdown, rows[table], missed[table], calls)
    BY DEF MetadataInv
  <2>2. CASE p \in missed[table] \/ UpToDate(rows[table], table, p, markdown)
    BY <2>2 DEF Covered
  <2>3. ASSUME NEW v \in Worker, FollowedBy(calls[v], table, p, markdown)
        PROVE  Covered(table, p, markdown', rows'[table], missed'[table], calls')
    <3>1. CASE v # Resync
      <4>1. calls'[v] = calls[v]
        BY <1>1, <3>1
      <4> QED BY <2>3, <4>1 DEF Covered
    <3>2. CASE v = Resync
      BY <2>3, <3>2
    <3> QED BY <3>1, <3>2
  <2> QED BY <2>1, <2>2, <2>3 DEF Covered
<1> QED BY <1>3, <1>4, <1>5 DEF MetadataInv

LEMMA BeginResync ==
  ASSUME MetadataInv, StartResync
  PROVE  MetadataInv'
<1>1. /\ calls' = [calls EXCEPT ![Resync] = Steps3] /\ UNCHANGED <<markdown, given>> /\ rows' = rows /\ missed' = missed
      /\ rebuilds' = rebuilds + 1 /\ failures' = failures /\ calls[Resync] = <<>>
  BY DEF StartResync, Makes, Idle, Steps3, ClearTags, ClearProperties, WalkAll
<1>2. DOMAIN rows' = Table /\ DOMAIN missed' = Table /\ rebuilds' \in Int /\ failures' \in Int /\ Resync \in Worker
  BY <1>1 DEF MetadataInv, MetadataTypeOK, Worker
<1>3. \A table, p : ~FollowedBy(calls[Resync], table, p, markdown)
  BY <1>1 DEF FollowedBy, ToSet
<1>4. Steps3 \in Seq(CallType)
  BY ResyncSeries
<1> QED BY <1>1, <1>2, <1>3, <1>4, ResyncCall DEF Covered

\* The walk that is left follows every page, of a table that has no call left to clear it.
LEMMA WalkFollows ==
  ASSUME NEW s \in {Steps1, Steps2}, NEW table \in Table, s = Steps2 => table = "tags", NEW p, NEW md, p \in DOMAIN md
  PROVE  FollowedBy(s, table, p, md)
<1>1. WalkAll \in ToSet(s)
  BY ResyncSeries
<1>2. ASSUME NEW d \in ToSet(s)
      PROVE  d.do # Clearing[table]
  <2>1. CASE s = Steps1
    BY <2>1, ResyncSeries, Clears
  <2>2. CASE s = Steps2
    <3>1. Clearing[table] = "clear tags"
      BY <2>2 DEF Clearing
    <3> QED BY <2>2, <3>1, ResyncSeries
  <2> QED BY <2>1, <2>2
<1> QED BY <1>1, <1>2, ResyncSeries DEF FollowedBy, Follows

\* And none that has not.
LEMMA WalkDoesNot ==
  ASSUME NEW s \in {Steps1, Steps2, Steps3}, NEW table \in Table, NEW p, NEW md, FollowedBy(s, table, p, md)
  PROVE  p \in DOMAIN md /\ s # Steps3 /\ (s = Steps2 => table = "tags")
<1>1. PICK c \in ToSet(s) : Follows(c, s, table, p, md)
  BY DEF FollowedBy
<1>2. c.do \in Rebuilding
  BY ResyncSeries DEF Rebuilding
<1>3. p \in DOMAIN md /\ c.do = "walk"
  <2>1. table \notin Rebuilding /\ Dropping[table] \notin Rebuilding /\ "read" \notin Rebuilding
    BY TableNames DEF Rebuilding
  <2> QED BY <1>1, <1>2, <2>1, FollowsOnly
<1>4. \A d \in ToSet(s) : d.do # Clearing[table]
  <2>1. c # Call(table, {p}, md[p])
    BY <1>3 DEF Call, Table
  <2> QED BY <1>1, <1>3, <2>1 DEF Follows
<1>5. ("clear properties" \in {d.do : d \in ToSet(s)} => table = "tags")
      /\ ("clear tags" \in {d.do : d \in ToSet(s)} => table = "properties")
  BY <1>4 DEF Clearing, Table
<1>6. s = Steps2 \/ s = Steps3 => ClearProperties \in ToSet(s)
  BY ResyncSeries
<1>7. s = Steps3 => ClearTags \in ToSet(s)
  BY ResyncSeries
<1> QED BY <1>3, <1>5, <1>6, <1>7, ResyncSeries

LEMMA ClearTable ==
  ASSUME MetadataInv, Clear
  PROVE  MetadataInv'
<1>1. PICK table \in Table :
        /\ Does(Resync, Clearing[table]) /\ Dropped(table, Id) /\ Then(Resync, <<>>) /\ UNCHANGED missed
  BY DEF Clear
<1>2. Resync \in Worker /\ calls[Resync] # <<>> /\ Now(Resync).do = Clearing[table] /\ Now(Resync).do \in Rebuilding
  BY <1>1, Clears DEF Does, Worker
<1> DEFINE series == Tail(calls[Resync])
<1>3. \/ table = "tags" /\ calls[Resync] = Steps3 /\ series = Steps2
      \/ table = "properties" /\ calls[Resync] = Steps2 /\ series = Steps1
  BY <1>2, Resyncing, ResyncSeries DEF Clearing, Table
<1>4. series \in Seq(CallType) /\ series \in {Steps1, Steps2, Steps3} /\ <<>> \o series = series
  BY <1>3, ResyncSeries, NoCalls
<1>5. /\ calls' = [calls EXCEPT ![Resync] = series] /\ UNCHANGED <<markdown, given>>
      /\ rebuilds' = rebuilds /\ failures' = failures /\ missed' = missed
  BY <1>1, <1>4 DEF Then, Makes
<1>6. /\ DOMAIN rows = Table /\ DOMAIN missed = Table /\ rebuilds \in Int /\ failures \in Int
      /\ calls \in [Worker -> Seq(CallType)]
  BY DEF MetadataInv, MetadataTypeOK
<1>7. /\ DOMAIN rows' = Table /\ \A other \in Table : other # table => rows'[other] = rows[other]
      /\ rows'[table] = [q \in DOMAIN rows[table] \ Id |-> rows[table][q]]
  BY <1>1, <1>6 DEF Dropped
<1>8. calls'[Resync] = series
  BY <1>2, <1>5, <1>6
<1>9. ASSUME NEW p \in Id
      PROVE  Covered(table, p, markdown, rows'[table], missed'[table], calls')
  <2>1. CASE p \in DOMAIN markdown
    <3> HIDE DEF series
    <3>1. series \in {Steps1, Steps2} /\ (series = Steps2 => table = "tags")
      BY <1>3, ResyncSeries
    <3>2. FollowedBy(series, table, p, markdown)
      BY <2>1, <3>1, WalkFollows
    <3> QED BY <1>2, <1>8, <3>2 DEF Covered
  <2>2. CASE p \notin DOMAIN markdown
    BY <1>7, <2>2 DEF Covered, UpToDate
  <2> QED BY <2>1, <2>2
<1>10. ASSUME NEW other \in Table, other # table, NEW p \in Id, FollowedBy(calls[Resync], other, p, markdown)
       PROVE  FollowedBy(calls'[Resync], other, p, markdown)
  <2>1. p \in DOMAIN markdown /\ calls[Resync] = Steps2 /\ other = "tags"
    BY <1>3, <1>10, WalkDoesNot
  <2> QED BY <1>3, <1>8, <2>1, WalkFollows
<1> HIDE DEF series
<1>11. ASSUME NEW other \in Table, NEW p \in Id
       PROVE  /\ p \in missed[other] => p \in missed'[other]
              /\ UpToDate(rows[other], other, p, markdown)
                   => Covered(other, p, markdown, rows'[other], missed'[other], calls')
              /\ FollowedBy(calls[Resync], other, p, markdown)
                   => Covered(other, p, markdown, rows'[other], missed'[other], calls')
  <2>1. CASE other = table
    BY <1>5, <1>9, <2>1
  <2>2. CASE other # table
    BY <1>2, <1>5, <1>7, <1>10, <2>2 DEF Covered
  <2> QED BY <2>1, <2>2
<1> QED BY <1>2, <1>4, <1>5, <1>6, <1>7, <1>11, ResyncCall

LEMMA WalkPages ==
  ASSUME MetadataInv, Walk
  PROVE  MetadataInv'
<1>1. /\ Resync \in Worker /\ calls[Resync] # <<>> /\ Now(Resync).do = "walk" /\ Now(Resync).do \in Rebuilding
  BY DEF Walk, Does, Rebuilding, Worker
<1>2. calls[Resync] = Steps1 /\ Tail(calls[Resync]) = <<>>
  BY <1>1, Resyncing, ResyncSeries
<1>3. Existing \in SUBSET Id /\ calls \in [Worker -> Seq(CallType)] /\ DOMAIN rows = Table /\ DOMAIN missed = Table
      /\ rebuilds \in Int /\ failures \in Int
  BY DEF MetadataInv, MetadataTypeOK
<1> DEFINE c == Call("read", Existing, Unseen)
           series == <<c>>
<1>4. c \in CallType /\ c.do = "read" /\ c.pages = Existing
  BY <1>3, UnseenIsMark DEF Call, CallType, Doing
<1>5. series \in Seq(CallType) /\ ToSet(series) = {c}
  BY <1>4, OneCall
<1>6. Fine(series, Gone)
  BY <1>4, <1>5 DEF Fine, Sensible, Table, Rebuilding
<1>7. /\ calls' = [calls EXCEPT ![Resync] = series \o Tail(calls[Resync])] /\ UNCHANGED <<markdown, given>>
      /\ rows' = rows /\ missed' = missed /\ rebuilds' = rebuilds /\ failures' = failures
  BY DEF Walk, Then, Makes
<1> HIDE DEF c
<1>8. series \o <<>> = series
  OBVIOUS
<1>9. ASSUME NEW table \in Table, NEW p \in Id, FollowedBy(calls[Resync], table, p, markdown)
      PROVE  FollowedBy(series, table, p, markdown)
  <2>1. p \in DOMAIN markdown
    BY <1>2, <1>9, WalkDoesNot
  <2> QED BY <1>4, <1>5, <2>1 DEF FollowedBy, Follows, Existing
<1> HIDE DEF series
<1>10. calls' = [calls EXCEPT ![Resync] = series] /\ calls'[Resync] = series
  BY <1>1, <1>2, <1>3, <1>7, <1>8
<1> QED BY <1>1, <1>3, <1>5, <1>6, <1>7, <1>9, <1>10, ResyncCall DEF Covered

LEMMA RestartServer ==
  ASSUME MetadataInv, Restart
  PROVE  MetadataInv'
<1>1. /\ calls' = [w \in Worker |-> <<>>] /\ markdown' = markdown /\ given' = given /\ failures' = failures
      /\ rows' = [table \in Table |-> [p \in Existing |-> Extracted(table, markdown[p])]]
      /\ missed' = [table \in Table |-> {}] /\ rebuilds' = rebuilds + 1
  BY DEF Restart
<1>2. calls' \in [Worker -> Seq(CallType)] /\ \A w \in Worker : ToSet(calls'[w]) = {}
  BY <1>1 DEF ToSet
<1>3. MetadataTypeOK'
  BY <1>1, <1>2 DEF MetadataInv, MetadataTypeOK, Existing
<1>4. WellFormed'
  BY <1>2 DEF WellFormed, Ordered
<1>5. \A table \in Table, p \in Id : Covered(table, p, markdown', rows'[table], missed'[table], calls')
  BY <1>1 DEF Covered, UpToDate, Existing
<1> QED BY <1>3, <1>4, <1>5 DEF MetadataInv

\* What the call that fails follows is missed.
LEMMA FailingFollows ==
  ASSUME NEW w, NEW table \in Table, NEW p, Follows(Now(w), calls[w], table, p, markdown), Now(w).do \notin Rebuilding
  PROVE  p \in Behind(w, table)
<1> DEFINE c == Now(w)
<1>1. \/ p \in Existing /\ c.do = table /\ c.pages = {p} /\ c.seen = markdown[p]
      \/ p \in Existing /\ c.do = "read" /\ p \in c.pages
      \/ p \notin Existing /\ c.do = Dropping[table] /\ p \in c.pages
  BY FollowsOnly DEF Existing, Rebuilding
<1>2. /\ table \notin {"read", "walk", "clear properties"} /\ Dropping[table] \notin {table, "read", "walk", "clear properties"}
  BY DEF Dropping, Table
<1>3. CASE p \in Existing /\ c.do = table /\ c.pages = {p} /\ c.seen = markdown[p]
  <2>1. Matches(c)
    BY <1>3 DEF Matches
  <2>2. Behind(w, table) = c.pages
    BY <1>2, <1>3, <2>1 DEF Behind
  <2> QED BY <1>3, <2>2
<1>4. CASE c.do = "read" /\ p \in c.pages
  <2>1. Behind(w, table) = c.pages
    BY <1>2, <1>4 DEF Behind
  <2> QED BY <1>4, <2>1
<1>5. CASE c.do = Dropping[table] /\ p \in c.pages
  <2>1. Behind(w, table) = c.pages
    BY <1>2, <1>5 DEF Behind
  <2> QED BY <1>5, <2>1
<1> QED BY <1>1, <1>3, <1>4, <1>5

LEMMA FailCall ==
  ASSUME MetadataInv, NEW w \in Worker, Fail(w)
  PROVE  MetadataInv'
<1>1. /\ calls[w] # <<>> /\ UNCHANGED <<markdown, given>> /\ rows' = rows /\ rebuilds' = rebuilds /\ failures' = failures + 1
      /\ missed' = [table \in Table |-> missed[table] \cup Behind(w, table)]
      /\ calls' = [calls EXCEPT ![w] = IF Now(w).do \in {"clear tags", "clear properties"} THEN <<>> ELSE Tail(calls[w])]
  BY DEF Fail, Makes
<1>2. /\ calls \in [Worker -> Seq(CallType)] /\ DOMAIN rows' = Table /\ DOMAIN missed' = Table
      /\ rebuilds' \in Int /\ failures' \in Int
  <2>1. calls \in [Worker -> Seq(CallType)] /\ DOMAIN rows = Table /\ rebuilds \in Int /\ failures \in Int
    BY DEF MetadataInv, MetadataTypeOK
  <2>2. DOMAIN missed' = Table
    BY <1>1
  <2>3. rows' = rows /\ rebuilds' = rebuilds /\ failures' = failures + 1
    BY <1>1
  <2> QED BY <2>1, <2>2, <2>3
<1>3. CASE Now(w).do \notin Rebuilding
  <2>1. Tail(calls[w]) \in Seq(CallType) /\ <<>> \o Tail(calls[w]) = Tail(calls[w])
    <3>1. calls[w] \in Seq(CallType)
      BY <1>2
    <3>2. Tail(calls[w]) \in Seq(CallType)
      BY <1>1, <3>1, FirstAndRest
    <3> QED BY <3>2, NoCalls
  <2>2. calls' = [calls EXCEPT ![w] = <<>> \o Tail(calls[w])]
    BY <1>1, <1>3, <2>1 DEF Rebuilding
  <2>3. \A table \in Table, p \in Id :
          Follows(Now(w), calls[w], table, p, markdown) => p \in missed'[table]
    BY <1>1, <1>3, FailingFollows
  <2>4. \A table \in Table : missed[table] \subseteq missed'[table]
    BY <1>1
  <2> QED BY <1>1, <1>2, <1>3, <2>2, <2>3, <2>4, NoCalls, MadeCall DEF Covered
<1>4. CASE Now(w).do \in Rebuilding
  <2>1. /\ w = Resync
        /\ \/ calls[w] = Steps3 /\ Now(w).do = "clear tags"
           \/ calls[w] = Steps2 /\ Now(w).do = "clear properties"
           \/ calls[w] = Steps1 /\ Now(w).do = "walk"
    BY <1>1, <1>4, Resyncing
  <2>2. calls' = [calls EXCEPT ![Resync] = <<>>]
    BY <1>1, <2>1, ResyncSeries
  <2>3. ASSUME NEW table \in Table, NEW p \in Id, FollowedBy(calls[Resync], table, p, markdown)
        PROVE  p \in missed'[table]
    <3>1. p \in Existing /\ calls[w] # Steps3 /\ (calls[w] = Steps2 => table = "tags")
      BY <2>1, <2>3, WalkDoesNot DEF Existing
    <3>2. /\ table \notin {"walk", "clear properties"} /\ Dropping[table] \notin {"walk", "clear properties"}
      BY DEF Dropping, Table
    <3>3. CASE Now(w).do = "walk"
      <4>1. Behind(w, table) = Existing
        BY <3>2, <3>3 DEF Behind
      <4> QED BY <1>1, <3>1, <4>1
    <3>4. CASE Now(w).do = "clear properties" /\ table = "tags"
      <4>1. Behind(w, table) = Existing
        BY <3>2, <3>4 DEF Behind
      <4> QED BY <1>1, <3>1, <4>1
    <3> QED BY <2>1, <3>1, <3>3, <3>4
  <2>4. \A table \in Table : missed[table] \subseteq missed'[table]
    BY <1>1
  <2> QED BY <1>1, <1>2, <2>1, <2>2, <2>3, <2>4, NoCalls, ResyncCall DEF Covered
<1> QED BY <1>3, <1>4

-----------------------------------------------------------------------------
(* The invariant *)

LEMMA MetadataStart == MetadataInit => MetadataInv
<1> SUFFICES ASSUME MetadataInit PROVE MetadataInv
  OBVIOUS
<1>1. /\ calls = [w \in Worker |-> <<>>] /\ markdown = [p \in {} |-> 0] /\ given = {} /\ rebuilds = 0 /\ failures = 0
      /\ rows = [table \in Table |-> [p \in {} |-> 0]] /\ missed = [table \in Table |-> {}]
  BY DEF MetadataInit
<1>2. calls \in [Worker -> Seq(CallType)] /\ \A w \in Worker : ToSet(calls[w]) = {}
  BY <1>1 DEF ToSet
<1>3. IsFiniteSet({}) /\ Existing = {}
  BY <1>1, FS_EmptySet DEF Existing
<1>4. MetadataTypeOK
  BY <1>1, <1>2, <1>3 DEF MetadataTypeOK
<1>5. WellFormed
  BY <1>2 DEF WellFormed, Ordered
<1>6. \A table \in Table, p \in Id : Covered(table, p, markdown, rows[table], missed[table], calls)
  BY <1>1 DEF Covered, UpToDate
<1> QED BY <1>4, <1>5, <1>6 DEF MetadataInv

LEMMA MetadataStep == MetadataInv /\ [MetadataNext]_metadataVars => MetadataInv'
<1> SUFFICES ASSUME MetadataInv, [MetadataNext]_metadataVars PROVE MetadataInv'
  OBVIOUS
<1>1. ASSUME NEW t \in Thread, NEW p \in Id, Create(t, p)
      PROVE  MetadataInv'
  BY <1>1, CreateOnePage
<1>2. ASSUME NEW t \in Thread, NEW p \in Id, NEW refront \in BOOLEAN, NEW retext \in BOOLEAN,
             Save(t, p, refront, retext) \/ RestoreRevision(t, p, refront)
      PROVE  MetadataInv'
  BY <1>2, SavePage, RestorePage
<1>3. ASSUME NEW t \in Thread, NEW P \in SUBSET Existing, Delete(t, P)
      PROVE  MetadataInv'
  BY <1>3, DeletePages
<1>4. ASSUME NEW p \in Id, Touch(p) \/ RewriteLinks(p) \/ Pin(p)
      PROVE  MetadataInv'
  BY <1>4, UnindexedChange
<1>5. ASSUME NEW w \in Worker, Step(w)
      PROVE  MetadataInv'
  BY <1>5, SetRows, DropRows, ReadPages, FailCall DEF Step
<1>6. CASE StartResync \/ Clear \/ Walk \/ Restart
  BY <1>6, BeginResync, ClearTable, WalkPages, RestartServer
<1>7. CASE UNCHANGED metadataVars
  BY <1>7 DEF metadataVars, MetadataInv, MetadataTypeOK, WellFormed, Ordered, Gone, Existing, Covered
<1>8. CASE Mutation
  BY <1>1, <1>2, <1>3, <1>4, <1>8 DEF Mutation
<1>9. CASE \E w \in Worker : Step(w)
  BY <1>5, <1>9
<1> QED BY <1>6, <1>7, <1>8, <1>9 DEF MetadataNext

\* In every state each table has of each page what its Markdown says, or misses it for good,
\* or a call is left that brings it up to date.
THEOREM MetadataInvariant == MetadataSpec => []MetadataInv
BY MetadataStart, MetadataStep, PTL DEF MetadataSpec

\* What follows a page is pending for it.
LEMMA FollowedIsPending ==
  ASSUME MetadataInv, NEW table \in Table, NEW p \in Id, NEW w \in Worker,
         FollowedBy(calls[w], table, p, markdown)
  PROVE  Pending(table, p)
<1>1. PICK c \in ToSet(calls[w]) : Follows(c, calls[w], table, p, markdown)
  BY DEF FollowedBy
<1>2. PICK i \in DOMAIN calls[w] : calls[w][i] = c
  BY <1>1 DEF ToSet
<1>3. \/ c.do = "walk"
      \/ p \in c.pages /\ c.do \in {table, "read", Dropping[table]}
  BY <1>1, FollowsOnly
<1> QED BY <1>2, <1>3 DEF Pending

\* However the calls of saves, deletions, restored revisions and a resync are reordered, the
\* rows of a page for which none is left say what its Markdown says, and a deleted page has
\* none: what keeps it so is that a call writes only what is current (CurrentPageMatches).
THEOREM RowsAreCurrent == MetadataSpec => []MetadataSettles
<1>1. MetadataInv => MetadataSettles
  <2> SUFFICES ASSUME MetadataInv, NEW table \in Table, NEW p \in Id, p \notin missed[table], ~Pending(table, p)
               PROVE  IF p \in Existing THEN p \in DOMAIN rows[table] /\ rows[table][p] = Extracted(table, markdown[p])
                      ELSE p \notin DOMAIN rows[table]
    BY DEF MetadataSettles
  <2>1. Covered(table, p, markdown, rows[table], missed[table], calls)
    BY DEF MetadataInv
  <2>2. UpToDate(rows[table], table, p, markdown)
    BY <2>1, FollowedIsPending DEF Covered
  <2> QED BY <2>2 DEF UpToDate, Existing
<1> QED BY <1>1, MetadataInvariant, PTL

=============================================================================
