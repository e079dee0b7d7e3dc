-------------------------- MODULE UploadCacheProofs --------------------------
(***************************************************************************)
(* The upload cache, for any number of commands, uploads and slots. The    *)
(* argument: PARSER_SLOT makes the admission check and the insert of a     *)
(* preview one step as far as other previews can tell, a reader counts     *)
(* from the step that finds its upload, and an upload that was imported    *)
(* is marked as removed before its reader gives it back.                   *)
(***************************************************************************)
EXTENDS UploadCache, FiniteSetTheorems, TLAPS

KeptUploads == {u \in Uploads : Kept(entry[u])}
ReadersOf(u) == {h \in Handlers : using[h] = u}

(* One preview at a time is between its begin and its end. *)
ParserInv ==
    \A h \in Handlers : pc[h] \in {"admit", "parse", "store", "release"} => parser = h

(* An admitted preview still finds room when it stores. *)
RoomInv ==
    /\ IsFiniteSet(KeptUploads)
    /\ CacheIsBounded
    /\ \A h \in Handlers : pc[h] \in {"parse", "store"} => Cardinality(KeptUploads) < Slots

UsingInv ==
    \A h \in Handlers :
        /\ using[h] # None <=> pc[h] \in {"validate", "import", "remove", "return"}
        /\ pc[h] = "remove" => using[h] \in imported

CommittedInv == \A u \in committed : u \in removed \/ entry[u] = "gone"

IInv ==
    /\ TypeOK
    /\ ParserInv
    /\ RoomInv
    /\ UsingInv
    /\ BorrowedIsKept
    /\ WithdrawnIsImported
    /\ CommittedInv

-----------------------------------------------------------------------------
(* What the actions do to the cache *)

(* Entries that are only taken away leave as much room as before. *)
LEMMA RoomStays ==
    ASSUME TypeOK, RoomInv, \A u \in Uploads : Kept(entry'[u]) => Kept(entry[u])
    PROVE  /\ IsFiniteSet(KeptUploads') /\ CacheIsBounded'
           /\ Cardinality(KeptUploads') \in Nat
           /\ Cardinality(KeptUploads') <= Cardinality(KeptUploads)
<1>1. KeptUploads' \in SUBSET KeptUploads
    BY DEF KeptUploads
<1>2. IsFiniteSet(KeptUploads)
    BY DEF RoomInv
<1>3. /\ IsFiniteSet(KeptUploads')
      /\ Cardinality(KeptUploads') <= Cardinality(KeptUploads)
    BY <1>1, <1>2, FS_Subset
<1>4. Cardinality(KeptUploads') \in Nat /\ Cardinality(KeptUploads) \in Nat
    BY <1>2, <1>3, FS_CardinalityType
<1>5. Cardinality(KeptUploads) <= Slots /\ Slots \in Nat
    BY UploadAssumption DEF RoomInv, CacheIsBounded, KeptUploads
<1>6. Cardinality(KeptUploads') <= Slots
    BY <1>3, <1>4, <1>5
<1>. QED
    BY <1>3, <1>4, <1>6 DEF CacheIsBounded, KeptUploads

(* Expiry takes no upload that is read by the given counts. *)
LEMMA ExpireFacts ==
    ASSUME TypeOK, NEW count \in [Uploads -> Nat], Expire(count)
    PROVE  /\ entry' \in [Uploads -> {"none", "cached", "expired", "gone"}]
           /\ readers' = count /\ removed' \subseteq removed
           /\ \A u \in Uploads : Kept(entry'[u]) => Kept(entry[u])
           /\ \A u \in Uploads : Kept(entry[u]) /\ count[u] > 0 => Kept(entry'[u])
           /\ \A u \in removed' : entry'[u] = entry[u]
           /\ \A u \in removed : u \in removed' \/ entry'[u] = "gone"
           /\ \A u \in Uploads : entry[u] = "gone" => entry'[u] = "gone"
           /\ \A u \in Uploads : entry'[u] = "none" <=> entry[u] = "none"
<1>1. \A u \in Uploads : u \in Stale(count) => Kept(entry[u]) /\ count[u] = 0
    BY DEF Stale
<1>. QED
    BY <1>1 DEF TypeOK, Expire, Kept

(* Readers whose uploads stay the same are counted the same. *)
LEMMA CountsStay ==
    ASSUME BorrowedIsKept, UNCHANGED <<readers, using>>,
           \A u \in Uploads : readers[u] > 0 /\ Kept(entry[u]) => Kept(entry'[u])
    PROVE  BorrowedIsKept'
BY DEF BorrowedIsKept

(* Steps of a handler that leave cache, readers and history alone. *)
LEMMA MoveKeeps ==
    ASSUME IInv, NEW h \in Handlers, UNCHANGED <<cache, using, committed>>,
           NEW step \in {"idle", "admit", "parse", "store", "release", "validate", "import",
                         "remove", "return"},
           Goes(h, step), parser' \in Handlers \cup {None},
           imported \subseteq imported', imported' \subseteq Uploads,
           \A k \in Handlers \ {h} : parser = k => parser' = k,
           step \in {"admit", "parse", "store", "release"} => parser' = h,
           step \in {"parse", "store"} => pc[h] \in {"parse", "store"},
           step \in {"validate", "import", "remove", "return"} <=>
               pc[h] \in {"validate", "import", "remove", "return"},
           step = "remove" => using[h] \in imported'
    PROVE  IInv'
<1>1. /\ pc' \in [Handlers -> {"idle", "admit", "parse", "store", "release", "validate",
                               "import", "remove", "return"}]
      /\ pc'[h] = step /\ \A k \in Handlers \ {h} : pc'[k] = pc[k]
    BY DEF IInv, TypeOK, Goes
<1>2. TypeOK'
    BY <1>1 DEF IInv, TypeOK, cache
<1>3. ParserInv'
    BY <1>1 DEF IInv, ParserInv
<1>4. RoomInv'
  <2>1. KeptUploads' = KeptUploads /\ CacheIsBounded'
      BY DEF IInv, RoomInv, KeptUploads, CacheIsBounded, cache
  <2>. QED
      BY <1>1, <2>1 DEF IInv, RoomInv
<1>5. UsingInv'
    BY <1>1 DEF IInv, UsingInv
<1>6. BorrowedIsKept'
    BY CountsStay DEF IInv, cache
<1>7. WithdrawnIsImported' /\ CommittedInv'
    BY DEF IInv, WithdrawnIsImported, CommittedInv, cache
<1>. QED
    BY <1>2, <1>3, <1>4, <1>5, <1>6, <1>7 DEF IInv

-----------------------------------------------------------------------------
(* The actions *)

LEMMA BeginPreviewKeeps ==
    ASSUME IInv, NEW h \in Handlers, BeginPreview(h)
    PROVE  IInv'
<1>1. \A k \in Handlers \ {h} : parser = k => parser' = k
    BY UploadAssumption DEF BeginPreview
<1>2. imported' \subseteq Uploads
    BY DEF IInv, TypeOK, BeginPreview
<1>. QED
    BY <1>1, <1>2, MoveKeeps DEF BeginPreview

LEMMA ParseKeeps ==
    ASSUME IInv, NEW h \in Handlers, Parse(h)
    PROVE  IInv'
<1>1. PICK step \in {"store", "release"} : Goes(h, step)
    BY DEF Parse
<1>2. /\ parser' = h /\ parser' \in Handlers \cup {None} /\ imported' \subseteq Uploads
      /\ \A k \in Handlers \ {h} : parser = k => parser' = k
    BY DEF IInv, TypeOK, ParserInv, Parse
<1>. QED
    BY <1>1, <1>2, MoveKeeps DEF Parse

LEMMA ReleaseParserKeeps ==
    ASSUME IInv, NEW h \in Handlers, ReleaseParser(h)
    PROVE  IInv'
<1>1. /\ imported' \subseteq Uploads
      /\ \A k \in Handlers \ {h} : parser = k => parser' = k
    BY DEF IInv, TypeOK, ParserInv, ReleaseParser
<1>. QED
    BY <1>1, MoveKeeps DEF ReleaseParser

LEMMA ValidateKeeps ==
    ASSUME IInv, NEW h \in Handlers, Validate(h)
    PROVE  IInv'
<1>1. PICK step \in {"import", "return"} : Goes(h, step)
    BY DEF Validate
<1>2. parser' \in Handlers \cup {None} /\ imported' \subseteq Uploads
    BY DEF IInv, TypeOK, Validate
<1>. QED
    BY <1>1, <1>2, MoveKeeps DEF Validate

LEMMA ImportKeeps ==
    ASSUME IInv, NEW h \in Handlers, Import(h)
    PROVE  IInv'
<1>1. PICK step \in {"remove", "return"} :
          /\ Goes(h, step) /\ imported' \in {imported, imported \cup {using[h]}}
          /\ step = "remove" => using[h] \in imported'
    BY DEF Import
<1>2. using[h] \in Uploads
    BY DEF IInv, TypeOK, UsingInv, Import
<1>3. parser' \in Handlers \cup {None} /\ imported' \subseteq Uploads
    BY <1>1, <1>2 DEF IInv, TypeOK, Import
<1>. QED
    BY <1>1, <1>3, MoveKeeps DEF Import

(* Nobody but the handler with the parser slot adds to the cache. *)
LEMMA AdmitKeeps ==
    ASSUME IInv, NEW h \in Handlers, Admit(h)
    PROVE  IInv'
<1>1. readers \in [Uploads -> Nat] /\ Expire(readers)
    BY DEF IInv, TypeOK, Admit
<1>. USE <1>1, ExpireFacts
<1>2. PICK step \in {"parse", "release"} :
          Goes(h, step) /\ (step = "parse" => ~(Cardinality(KeptUploads') >= Slots))
    BY DEF Admit, KeptUploads
<1>3. /\ pc' \in [Handlers -> {"idle", "admit", "parse", "store", "release", "validate",
                               "import", "remove", "return"}]
      /\ pc'[h] = step /\ \A k \in Handlers \ {h} : pc'[k] = pc[k]
      /\ pc[h] = "admit"
    BY <1>2 DEF IInv, TypeOK, Goes, Admit
<1>4. UNCHANGED <<readers, parser, using, imported, committed>>
    BY DEF Admit, IInv
<1>5. TypeOK'
    BY <1>3, <1>4 DEF IInv, TypeOK
<1>6. ParserInv'
    BY <1>3, <1>4 DEF IInv, ParserInv
<1>7. RoomInv'
  <2>1. IsFiniteSet(KeptUploads') /\ CacheIsBounded' /\ Cardinality(KeptUploads') \in Nat
      BY RoomStays DEF IInv
  <2>2. ASSUME NEW k \in Handlers, pc'[k] \in {"parse", "store"}
        PROVE  k = h /\ step = "parse"
      BY <2>2, <1>3 DEF IInv, ParserInv
  <2>3. Slots \in Nat
      BY UploadAssumption
  <2>. QED
      BY <2>1, <2>2, <2>3, <1>2 DEF RoomInv
<1>8. UsingInv'
    BY <1>3, <1>4 DEF IInv, UsingInv
<1>9. BorrowedIsKept'
    BY <1>4, CountsStay DEF IInv
<1>10. WithdrawnIsImported'
    BY <1>4 DEF IInv, WithdrawnIsImported
<1>11. CommittedInv'
    BY <1>4 DEF IInv, TypeOK, CommittedInv
<1>. QED
    BY <1>5, <1>6, <1>7, <1>8, <1>9, <1>10, <1>11 DEF IInv

LEMMA StoreKeeps ==
    ASSUME IInv, NEW h \in Handlers, Store(h)
    PROVE  IInv'
<1>1. PICK u \in Uploads : entry[u] = "none" /\ entry' = [entry EXCEPT ![u] = "cached"]
    BY DEF Store
<1>2. /\ entry' \in [Uploads -> {"none", "cached", "expired", "gone"}]
      /\ entry'[u] = "cached" /\ \A v \in Uploads \ {u} : entry'[v] = entry[v]
    BY <1>1 DEF IInv, TypeOK
<1>3. /\ pc' \in [Handlers -> {"idle", "admit", "parse", "store", "release", "validate",
                               "import", "remove", "return"}]
      /\ pc'[h] = "release" /\ \A k \in Handlers \ {h} : pc'[k] = pc[k]
      /\ pc[h] = "store"
    BY DEF IInv, TypeOK, Goes, Store
<1>4. UNCHANGED <<readers, removed, parser, using, imported, committed>>
    BY DEF Store
<1>5. TypeOK'
    BY <1>2, <1>3, <1>4 DEF IInv, TypeOK
<1>6. ParserInv'
    BY <1>3, <1>4 DEF IInv, ParserInv
<1>7. RoomInv'
  <2>1. KeptUploads' = KeptUploads \cup {u} /\ u \notin KeptUploads
      BY <1>1, <1>2 DEF KeptUploads, Kept
  <2>2. IsFiniteSet(KeptUploads) /\ Cardinality(KeptUploads) < Slots
      BY <1>3 DEF IInv, RoomInv
  <2>3. /\ IsFiniteSet(KeptUploads')
        /\ Cardinality(KeptUploads') = Cardinality(KeptUploads) + 1
      BY <2>1, <2>2, FS_AddElement
  <2>4. Cardinality(KeptUploads) \in Nat /\ Slots \in Nat
      BY <2>2, FS_CardinalityType, UploadAssumption
  <2>5. Cardinality(KeptUploads') <= Slots
      BY <2>2, <2>3, <2>4
  <2>6. \A k \in Handlers : pc'[k] \notin {"parse", "store"}
      BY <1>3 DEF IInv, ParserInv
  <2>. QED
      BY <2>3, <2>5, <2>6 DEF RoomInv, CacheIsBounded, KeptUploads
<1>8. UsingInv'
    BY <1>3, <1>4 DEF IInv, UsingInv
<1>9. BorrowedIsKept'
  <2>1. \A v \in Uploads : Kept(entry[v]) => Kept(entry'[v])
      BY <1>1, <1>2 DEF Kept
  <2>. QED
      BY <2>1, <1>4, CountsStay DEF IInv
<1>10. WithdrawnIsImported'
    BY <1>1, <1>2, <1>4 DEF IInv, TypeOK, WithdrawnIsImported, Kept
<1>11. CommittedInv'
    BY <1>1, <1>2, <1>4 DEF IInv, TypeOK, CommittedInv
<1>. QED
    BY <1>5, <1>6, <1>7, <1>8, <1>9, <1>10, <1>11 DEF IInv

(* Counting a reader more, or one less. *)
LEMMA ReadersAreFinite ==
    ASSUME NEW u
    PROVE  IsFiniteSet(ReadersOf(u)) /\ Cardinality(ReadersOf(u)) \in Nat
<1>1. IsFiniteSet(ReadersOf(u))
    BY UploadAssumption, FS_Subset DEF ReadersOf
<1>. QED
    BY <1>1, FS_CardinalityType

LEMMA BorrowKeeps ==
    ASSUME IInv, NEW h \in Handlers, NEW u \in Uploads, Borrow(h, u)
    PROVE  IInv'
<1>. DEFINE usable == entry[u] = "cached" /\ u \notin removed
<1>. DEFINE count == IF usable THEN [readers EXCEPT ![u] = @ + 1] ELSE readers
<1>1. count \in [Uploads -> Nat] /\ Expire(count)
    BY DEF IInv, TypeOK, Borrow
<1>2. /\ \A v \in Uploads : count[v] = IF usable /\ v = u THEN readers[v] + 1 ELSE readers[v]
      /\ \A v \in Uploads : readers[v] \in Nat
    BY DEF IInv, TypeOK
<1>. HIDE DEF count
<1>. USE <1>1, ExpireFacts
<1>3. /\ pc' \in [Handlers -> {"idle", "admit", "parse", "store", "release", "validate",
                               "import", "remove", "return"}]
      /\ pc'[h] = (IF usable THEN "validate" ELSE "idle")
      /\ \A k \in Handlers \ {h} : pc'[k] = pc[k]
      /\ pc[h] = "idle"
    BY DEF IInv, TypeOK, Goes, Borrow
<1>4. /\ using' \in [Handlers -> Uploads \cup {None}]
      /\ using'[h] = (IF usable THEN u ELSE None)
      /\ \A k \in Handlers \ {h} : using'[k] = using[k]
      /\ using[h] = None /\ u # None
    BY UploadAssumption DEF IInv, TypeOK, UsingInv, Borrow
<1>5. UNCHANGED <<parser, imported, committed>>
    BY DEF Borrow
<1>6. TypeOK'
    BY <1>3, <1>4, <1>5 DEF IInv, TypeOK
<1>7. ParserInv'
    BY <1>3, <1>5 DEF IInv, ParserInv
<1>8. RoomInv'
  <2>1. /\ IsFiniteSet(KeptUploads') /\ CacheIsBounded' /\ Cardinality(KeptUploads') \in Nat
        /\ Cardinality(KeptUploads') <= Cardinality(KeptUploads)
      BY RoomStays DEF IInv
  <2>2. Cardinality(KeptUploads) \in Nat /\ Slots \in Nat
      BY FS_CardinalityType, UploadAssumption DEF IInv, RoomInv
  <2>3. \A k \in Handlers : pc'[k] \in {"parse", "store"} => pc[k] \in {"parse", "store"}
      BY <1>3
  <2>. QED
      BY <2>1, <2>2, <2>3 DEF IInv, RoomInv
<1>9. UsingInv'
    BY <1>3, <1>4, <1>5 DEF IInv, UsingInv
<1>10. BorrowedIsKept'
  <2>1. ASSUME NEW v \in Uploads
        PROVE  readers'[v] = Cardinality(ReadersOf(v)') /\ (readers'[v] > 0 => Kept(entry'[v]))
    <3>1. /\ readers[v] = Cardinality(ReadersOf(v)) /\ (readers[v] > 0 => Kept(entry[v]))
          /\ readers'[v] = count[v]
          /\ Kept(entry[v]) /\ count[v] > 0 => Kept(entry'[v])
        BY DEF IInv, BorrowedIsKept, ReadersOf
    <3>2. CASE usable /\ v = u
      <4>1. ReadersOf(v)' = ReadersOf(v) \cup {h} /\ h \notin ReadersOf(v)
          BY <3>2, <1>4 DEF ReadersOf
      <4>2. Cardinality(ReadersOf(v)') = Cardinality(ReadersOf(v)) + 1
          BY <4>1, ReadersAreFinite, FS_AddElement
      <4>3. Kept(entry[v])
          BY <3>2 DEF Kept
      <4>. QED
          BY <3>1, <3>2, <4>2, <4>3, <1>2
    <3>3. CASE ~(usable /\ v = u)
      <4>1. ReadersOf(v)' = ReadersOf(v)
          BY <3>3, <1>4, UploadAssumption DEF ReadersOf
      <4>. QED
          BY <3>1, <3>3, <4>1, <1>2
    <3>. QED
        BY <3>2, <3>3
  <2>. QED
      BY <2>1 DEF BorrowedIsKept, ReadersOf
<1>11. WithdrawnIsImported'
    BY <1>5 DEF IInv, WithdrawnIsImported
<1>12. CommittedInv'
    BY <1>5 DEF IInv, TypeOK, CommittedInv
<1>. QED
    BY <1>6, <1>7, <1>8, <1>9, <1>10, <1>11, <1>12 DEF IInv

LEMMA RemoveKeeps ==
    ASSUME IInv, NEW h \in Handlers, Remove(h)
    PROVE  IInv'
<1>1. /\ pc' \in [Handlers -> {"idle", "admit", "parse", "store", "release", "validate",
                               "import", "remove", "return"}]
      /\ pc'[h] = "return" /\ \A k \in Handlers \ {h} : pc'[k] = pc[k]
      /\ pc[h] = "remove"
    BY DEF IInv, TypeOK, Goes, Remove
<1>2. /\ removed' = removed \cup {using[h]} /\ committed' = committed \cup {using[h]}
      /\ UNCHANGED <<entry, readers, parser, using, imported>>
    BY DEF Remove
<1>3. using[h] \in Uploads /\ using[h] \in imported
    BY <1>1 DEF IInv, TypeOK, UsingInv
<1>4. Kept(entry[using[h]])
  <2>1. h \in ReadersOf(using[h])
      BY DEF ReadersOf
  <2>2. Cardinality(ReadersOf(using[h])) > 0
      BY <2>1, ReadersAreFinite, FS_EmptySet
  <2>. QED
      BY <2>2, <1>3 DEF IInv, BorrowedIsKept, ReadersOf
<1>5. TypeOK'
    BY <1>1, <1>2, <1>3 DEF IInv, TypeOK
<1>6. ParserInv' /\ UsingInv'
    BY <1>1, <1>2 DEF IInv, ParserInv, UsingInv
<1>7. RoomInv'
  <2>1. KeptUploads' = KeptUploads /\ CacheIsBounded'
      BY <1>2 DEF IInv, RoomInv, KeptUploads, CacheIsBounded
  <2>. QED
      BY <1>1, <2>1 DEF IInv, RoomInv
<1>8. BorrowedIsKept'
    BY <1>2, CountsStay DEF IInv
<1>9. WithdrawnIsImported' /\ CommittedInv'
    BY <1>2, <1>3, <1>4 DEF IInv, WithdrawnIsImported, CommittedInv
<1>. QED
    BY <1>5, <1>6, <1>7, <1>8, <1>9 DEF IInv

LEMMA ReturnKeeps ==
    ASSUME IInv, NEW h \in Handlers, Return(h)
    PROVE  IInv'
<1>. DEFINE u == using[h]
<1>. DEFINE count == [readers EXCEPT ![u] = @ - 1]
<1>0. u \in Uploads /\ pc[h] = "return" /\ u # None
    BY UploadAssumption DEF IInv, TypeOK, UsingInv, Return
<1>1. \A v \in Uploads : readers[v] = Cardinality(ReadersOf(v)) /\ readers[v] \in Nat
    BY DEF IInv, TypeOK, BorrowedIsKept, ReadersOf
<1>2. readers[u] > 0
  <2>1. h \in ReadersOf(u)
      BY DEF ReadersOf
  <2>2. Cardinality(ReadersOf(u)) > 0
      BY <2>1, ReadersAreFinite, FS_EmptySet
  <2>. QED
      BY <2>2, <1>0, <1>1
<1>3. /\ count \in [Uploads -> Nat] /\ Expire(count)
      /\ \A v \in Uploads : count[v] = IF v = u THEN readers[v] - 1 ELSE readers[v]
    BY <1>0, <1>1, <1>2 DEF IInv, TypeOK, Return
<1>. HIDE DEF count
<1>. USE <1>3, ExpireFacts
<1>4. /\ pc' \in [Handlers -> {"idle", "admit", "parse", "store", "release", "validate",
                               "import", "remove", "return"}]
      /\ pc'[h] = "idle" /\ \A k \in Handlers \ {h} : pc'[k] = pc[k]
    BY DEF IInv, TypeOK, Goes, Return
<1>5. /\ using' \in [Handlers -> Uploads \cup {None}]
      /\ using'[h] = None /\ \A k \in Handlers \ {h} : using'[k] = using[k]
    BY DEF IInv, TypeOK, Return
<1>6. UNCHANGED <<parser, imported, committed>>
    BY DEF Return
<1>7. TypeOK'
    BY <1>4, <1>5, <1>6 DEF IInv, TypeOK
<1>8. ParserInv'
    BY <1>4, <1>6 DEF IInv, ParserInv
<1>9. RoomInv'
  <2>1. /\ IsFiniteSet(KeptUploads') /\ CacheIsBounded' /\ Cardinality(KeptUploads') \in Nat
        /\ Cardinality(KeptUploads') <= Cardinality(KeptUploads)
      BY RoomStays DEF IInv
  <2>2. Cardinality(KeptUploads) \in Nat /\ Slots \in Nat
      BY FS_CardinalityType, UploadAssumption DEF IInv, RoomInv
  <2>3. \A k \in Handlers : pc'[k] \in {"parse", "store"} => pc[k] \in {"parse", "store"}
      BY <1>4
  <2>. QED
      BY <2>1, <2>2, <2>3 DEF IInv, RoomInv
<1>10. UsingInv'
    BY <1>4, <1>5, <1>6 DEF IInv, UsingInv
<1>11. BorrowedIsKept'
  <2>1. ASSUME NEW v \in Uploads
        PROVE  readers'[v] = Cardinality(ReadersOf(v)') /\ (readers'[v] > 0 => Kept(entry'[v]))
    <3>1. /\ readers[v] = Cardinality(ReadersOf(v)) /\ (readers[v] > 0 => Kept(entry[v]))
          /\ readers'[v] = count[v]
          /\ Kept(entry[v]) /\ count[v] > 0 => Kept(entry'[v])
        BY DEF IInv, BorrowedIsKept, ReadersOf
    <3>2. CASE v = u
      <4>1. ReadersOf(v)' = ReadersOf(v) \ {h} /\ h \in ReadersOf(v)
          BY <3>2, <1>0, <1>5 DEF ReadersOf
      <4>2. Cardinality(ReadersOf(v)') = Cardinality(ReadersOf(v)) - 1
          BY <4>1, ReadersAreFinite, FS_RemoveElement
      <4>. QED
          BY <3>1, <3>2, <4>2, <1>1, <1>2, <1>3
    <3>3. CASE v # u
      <4>1. ReadersOf(v)' = ReadersOf(v)
          BY <3>3, <1>5, UploadAssumption DEF ReadersOf
      <4>. QED
          BY <3>1, <3>3, <4>1, <1>1, <1>3
    <3>. QED
        BY <3>2, <3>3
  <2>. QED
      BY <2>1 DEF BorrowedIsKept, ReadersOf
<1>12. WithdrawnIsImported'
    BY <1>6 DEF IInv, WithdrawnIsImported
<1>13. CommittedInv'
    BY <1>6 DEF IInv, TypeOK, CommittedInv
<1>. QED
    BY <1>7, <1>8, <1>9, <1>10, <1>11, <1>12, <1>13 DEF IInv

LEMMA TickKeeps ==
    ASSUME IInv, NEW u \in Uploads, Tick(u)
    PROVE  IInv'
<1>1. /\ entry' \in [Uploads -> {"none", "cached", "expired", "gone"}]
      /\ \A v \in Uploads : /\ Kept(entry'[v]) <=> Kept(entry[v])
                            /\ entry'[v] = "gone" <=> entry[v] = "gone"
    BY DEF IInv, TypeOK, Tick, Kept
<1>2. UNCHANGED <<readers, removed, parser, pc, using, imported, committed>>
    BY DEF Tick
<1>3. TypeOK'
    BY <1>1, <1>2 DEF IInv, TypeOK
<1>4. ParserInv' /\ UsingInv'
    BY <1>2 DEF IInv, ParserInv, UsingInv
<1>5. RoomInv'
  <2>1. KeptUploads' = KeptUploads
      BY <1>1 DEF KeptUploads
  <2>2. CacheIsBounded'
      BY <2>1 DEF IInv, RoomInv, KeptUploads, CacheIsBounded
  <2>. QED
      BY <1>2, <2>1, <2>2 DEF IInv, RoomInv
<1>6. BorrowedIsKept'
    BY <1>1, <1>2, CountsStay DEF IInv
<1>7. WithdrawnIsImported' /\ CommittedInv'
    BY <1>1, <1>2 DEF IInv, TypeOK, WithdrawnIsImported, CommittedInv
<1>. QED
    BY <1>3, <1>4, <1>5, <1>6, <1>7 DEF IInv

LEMMA RestartKeeps ==
    ASSUME IInv, Restart
    PROVE  IInv'
<1>1. /\ entry' \in [Uploads -> {"none", "cached", "expired", "gone"}]
      /\ \A v \in Uploads : ~Kept(entry'[v])
      /\ \A v \in Uploads : Kept(entry[v]) \/ entry[v] = "gone" => entry'[v] = "gone"
    BY DEF IInv, TypeOK, Restart, Kept
<1>2. /\ readers' = [u \in Uploads |-> 0] /\ removed' = {} /\ parser' = None
      /\ pc' = [h \in Handlers |-> "idle"] /\ using' = [h \in Handlers |-> None]
      /\ UNCHANGED <<imported, committed>>
    BY DEF Restart
<1>3. TypeOK'
    BY <1>1, <1>2 DEF IInv, TypeOK
<1>4. ParserInv' /\ UsingInv'
    BY <1>2 DEF ParserInv, UsingInv
<1>5. RoomInv'
  <2>1. \A v \in Uploads : Kept(entry'[v]) => Kept(entry[v])
      BY <1>1
  <2>. QED
      BY <2>1, <1>2, RoomStays DEF IInv, RoomInv
<1>6. BorrowedIsKept'
  <2>1. ASSUME NEW u \in Uploads
        PROVE  ReadersOf(u)' = {}
      BY <1>2, UploadAssumption DEF ReadersOf
  <2>2. \A u \in Uploads : Cardinality(ReadersOf(u)') = 0 /\ readers'[u] = 0
      BY <1>2, <2>1, FS_EmptySet
  <2>. QED
      BY <2>2 DEF BorrowedIsKept, ReadersOf
<1>7. WithdrawnIsImported'
    BY <1>2 DEF WithdrawnIsImported
<1>8. CommittedInv'
    BY <1>1, <1>2 DEF IInv, TypeOK, WithdrawnIsImported, CommittedInv
<1>. QED
    BY <1>3, <1>4, <1>5, <1>6, <1>7, <1>8 DEF IInv

LEMMA HandleKeeps ==
    ASSUME IInv, NEW h \in Handlers, Handle(h)
    PROVE  IInv'
BY AdmitKeeps, ParseKeeps, StoreKeeps, ReleaseParserKeeps, ValidateKeeps, ImportKeeps,
   RemoveKeeps, ReturnKeeps DEF Handle

LEMMA StepKeeps ==
    ASSUME IInv, [Next]_vars
    PROVE  IInv'
<1>1. CASE UNCHANGED vars
  <2>1. TypeOK' /\ ParserInv' /\ UsingInv' /\ WithdrawnIsImported' /\ CommittedInv'
      BY <1>1 DEF vars, cache, IInv, TypeOK, ParserInv, UsingInv, WithdrawnIsImported,
         CommittedInv
  <2>2. RoomInv' /\ BorrowedIsKept'
      BY <1>1, CountsStay DEF vars, cache, IInv, RoomInv, KeptUploads, CacheIsBounded
  <2>. QED
      BY <2>1, <2>2 DEF IInv
<1>2. CASE \E h \in Handlers : BeginPreview(h) \/ Handle(h) \/ \E u \in Uploads : Borrow(h, u)
    BY <1>2, BeginPreviewKeeps, HandleKeeps, BorrowKeeps
<1>3. CASE \E u \in Uploads : Tick(u)
    BY <1>3, TickKeeps
<1>4. CASE Restart
    BY <1>4, RestartKeeps
<1>. QED
    BY <1>1, <1>2, <1>3, <1>4 DEF Next

LEMMA InitKeeps == Init => IInv
<1>. SUFFICES ASSUME Init PROVE IInv
    OBVIOUS
<1>1. TypeOK /\ ParserInv /\ UsingInv /\ WithdrawnIsImported /\ CommittedInv
    BY DEF Init, TypeOK, ParserInv, UsingInv, WithdrawnIsImported, CommittedInv
<1>2. KeptUploads = {}
    BY DEF Init, KeptUploads, Kept
<1>3. RoomInv
    BY <1>2, FS_EmptySet, UploadAssumption DEF Init, RoomInv, KeptUploads, CacheIsBounded
<1>4. BorrowedIsKept
  <2>1. \A u \in Uploads : ReadersOf(u) = {}
      BY UploadAssumption DEF Init, ReadersOf
  <2>. QED
      BY <2>1, FS_EmptySet DEF Init, BorrowedIsKept, ReadersOf
<1>. QED
    BY <1>1, <1>3, <1>4 DEF IInv

(* The strengthened invariant of the cache and its commands holds.         *)
THEOREM UploadInvariant == Spec => []IInv
<1>1. Init => IInv
    BY InitKeeps
<1>2. IInv /\ [Next]_vars => IInv'
    BY StepKeeps
<1>. QED
    BY <1>1, <1>2, PTL DEF Spec

(* Between the admission check of a preview and its insert nobody takes    *)
(* the last slot: the cache keeps its limit.                               *)
THEOREM CacheStaysBounded == Spec => []CacheIsBounded
<1>1. IInv => CacheIsBounded
    BY DEF IInv, RoomInv
<1>. QED
    BY <1>1, UploadInvariant, PTL

(* The counts of readers are exact, and what is read is kept.              *)
THEOREM BorrowedStays == Spec => []BorrowedIsKept
<1>1. IInv => BorrowedIsKept
    BY DEF IInv
<1>. QED
    BY <1>1, UploadInvariant, PTL

(* Only an upload that has a dataset is withdrawn.                         *)
THEOREM WithdrawnWasImported == Spec => []WithdrawnIsImported
<1>1. IInv => WithdrawnIsImported
    BY DEF IInv
<1>. QED
    BY <1>1, UploadInvariant, PTL

(* An upload whose import was carried through is not borrowed again.       *)
THEOREM CommittedStaysClosed == Spec => CommittedIsClosed
<1>. DEFINE Closed == \A u \in committed, h \in Handlers : using'[h] = u => using[h] = u
<1>1. ASSUME IInv, [Next]_vars
      PROVE  [Closed]_vars
  <2>1. committed \subseteq Uploads /\ None \notin committed
      BY <1>1, UploadAssumption DEF IInv, TypeOK
  <2>2. CASE UNCHANGED using
      BY <2>2
  <2>3. ASSUME NEW h \in Handlers, NEW u \in Uploads, Borrow(h, u)
        PROVE  Closed
    <3>1. u \in committed => ~(entry[u] = "cached" /\ u \notin removed)
        BY <1>1 DEF IInv, CommittedInv
    <3>2. /\ using'[h] \in {u, None} /\ (using'[h] = u => u \notin committed)
          /\ \A k \in Handlers \ {h} : using'[k] = using[k]
        BY <1>1, <2>3, <3>1, UploadAssumption DEF IInv, TypeOK, Borrow
    <3>. QED
        BY <2>1, <3>2
  <2>4. ASSUME NEW h \in Handlers, Return(h)
        PROVE  Closed
    <3>1. using'[h] = None /\ \A k \in Handlers \ {h} : using'[k] = using[k]
        BY <1>1, <2>4 DEF IInv, TypeOK, Return
    <3>. QED
        BY <2>1, <3>1
  <2>5. CASE Restart
      BY <2>1, <2>5 DEF Restart
  <2>6. ASSUME NEW h \in Handlers,
               BeginPreview(h) \/ Admit(h) \/ Parse(h) \/ Store(h) \/ ReleaseParser(h)
                   \/ Validate(h) \/ Import(h) \/ Remove(h)
        PROVE  UNCHANGED using
      BY <2>6 DEF BeginPreview, Admit, Parse, Store, ReleaseParser, Validate, Import, Remove
  <2>7. ASSUME NEW u \in Uploads, Tick(u)
        PROVE  UNCHANGED using
      BY <2>7 DEF Tick
  <2>8. UNCHANGED vars => UNCHANGED using
      BY DEF vars
  <2>. QED
      BY <1>1, <2>2, <2>3, <2>4, <2>5, <2>6, <2>7, <2>8 DEF Next, Handle
<1>. QED
    BY <1>1, UploadInvariant, PTL DEF Spec, CommittedIsClosed

(* Entries, counts and commands keep their types.                          *)
THEOREM UploadsAreTyped == Spec => []TypeOK
<1>1. IInv => TypeOK
    BY DEF IInv
<1>. QED
    BY <1>1, UploadInvariant, PTL
=============================================================================
