----------------------------- MODULE UploadCache -----------------------------
(***************************************************************************)
(* Parsed uploads between their preview and their import: the module-level *)
(* cache of workbench/server.py, shared by the threads of the HTTP server. *)
(* A preview parses in an isolated process and keeps the value for ten     *)
(* minutes; validation and import borrow it. A step is one critical        *)
(* section under UPLOAD_LOCK, or what a thread does between two of them.   *)
(*                                                                         *)
(* COMMAND_SLOTS admits a fixed number of commands at a time; a handler is *)
(* one slot. Commands that are turned away change nothing and are left out.*)
(***************************************************************************)
EXTENDS Naturals, FiniteSets

CONSTANTS
    Handlers,  \* COMMAND_SLOTS, 4
    Uploads,   \* identities uuid4 can draw
    Slots,     \* the limit on len(UPLOADS), 4
    None

ASSUME UploadAssumption ==
    /\ Slots \in Nat \ {0}
    /\ IsFiniteSet(Handlers)
    /\ None \notin Handlers \cup Uploads

VARIABLES
    entry,     \* UPLOADS: "none" before and "gone" after an identity is a key
    readers,   \* UPLOAD_READERS
    removed,   \* UPLOAD_REMOVED
    parser,    \* the handler that has PARSER_SLOT, or None
    pc,        \* where each handler is
    using,     \* the upload it has borrowed, or None
    imported,  \* uploads with a dataset in PostgreSQL
    committed  \* uploads whose import was carried through (history)

cache == <<entry, readers, removed>>
vars == <<cache, parser, pc, using, imported, committed>>

TypeOK ==
    /\ entry \in [Uploads -> {"none", "cached", "expired", "gone"}]
    /\ readers \in [Uploads -> Nat]
    /\ removed \subseteq Uploads
    /\ parser \in Handlers \cup {None}
    /\ pc \in [Handlers -> {"idle", "admit", "parse", "store", "release",
                            "validate", "import", "remove", "return"}]
    /\ using \in [Handlers -> Uploads \cup {None}]
    /\ imported \subseteq Uploads
    /\ committed \subseteq Uploads

Init ==
    /\ entry = [u \in Uploads |-> "none"]
    /\ readers = [u \in Uploads |-> 0]
    /\ removed = {}
    /\ parser = None
    /\ pc = [h \in Handlers |-> "idle"]
    /\ using = [h \in Handlers |-> None]
    /\ imported = {}
    /\ committed = {}

Goes(h, step) == pc' = [pc EXCEPT ![h] = step]

(* "expired": still a key of UPLOADS, its ten minutes are over. *)
Kept(e) == e \in {"cached", "expired"}

(* Fault: expiry does not look for readers. *)
StaleInUse(count) ==
    {u \in Uploads : Kept(entry[u]) /\ (entry[u] = "expired" \/ u \in removed)}

(* expire_uploads deletes what has expired or was imported and has no      *)
(* reader by the counts `count'.                                           *)
Stale(count) ==
    {u \in Uploads : /\ Kept(entry[u]) /\ count[u] = 0
                     /\ entry[u] = "expired" \/ u \in removed}

Expire(count) ==
    /\ entry' = [u \in Uploads |-> IF u \in Stale(count) THEN "gone" ELSE entry[u]]
    /\ removed' = removed \ Stale(count)
    /\ readers' = count

-----------------------------------------------------------------------------
(* preview_upload *)

(* Bound: uuid4 never repeats itself, the model has few identities. A      *)
(* preview begins only while one is left that it can give its upload.      *)
IdentityLeft == \E u \in Uploads : entry[u] = "none"

(* Fault: previews parse side by side. *)
BeginPreviewAnyway(h) ==
    /\ pc[h] = "idle" /\ IdentityLeft
    /\ parser' = h
    /\ Goes(h, "admit")
    /\ UNCHANGED <<cache, using, imported, committed>>

BeginPreview(h) ==
    /\ pc[h] = "idle" /\ IdentityLeft
    /\ parser = None
    /\ parser' = h
    /\ Goes(h, "admit")
    /\ UNCHANGED <<cache, using, imported, committed>>

(* With the cache full of uploads in use or not expired: ImportBusy. *)
Admit(h) ==
    /\ pc[h] = "admit"
    /\ Expire(readers)
    /\ Goes(h, IF Cardinality({u \in Uploads : Kept(entry'[u])}) >= Slots
               THEN "release" ELSE "parse")
    /\ UNCHANGED <<parser, using, imported, committed>>

(* isolated_parse and check_preview, or the exception of one of them.      *)
Parse(h) ==
    /\ pc[h] = "parse"
    /\ Goes(h, "store") \/ Goes(h, "release")
    /\ UNCHANGED <<cache, parser, using, imported, committed>>

Store(h) ==
    /\ pc[h] = "store"
    /\ \E u \in Uploads :
         /\ entry[u] = "none"
         /\ entry' = [entry EXCEPT ![u] = "cached"]
    /\ Goes(h, "release")
    /\ UNCHANGED <<readers, removed, parser, using, imported, committed>>

(* Fault: the slot is not given back. *)
ReleaseNothing(h) ==
    /\ pc[h] = "release"
    /\ Goes(h, "idle")
    /\ UNCHANGED <<cache, parser, using, imported, committed>>

(* The finally clause. *)
ReleaseParser(h) ==
    /\ pc[h] = "release"
    /\ parser' = None
    /\ Goes(h, "idle")
    /\ UNCHANGED <<cache, using, imported, committed>>

-----------------------------------------------------------------------------
(* import_upload *)

(* Fault: an upload that was imported and is still read can be borrowed.   *)
BorrowRemoved(h, u) ==
    /\ pc[h] = "idle"
    /\ LET usable == entry[u] = "cached" /\ u \notin Stale(readers)
       IN  /\ Expire(IF usable THEN [readers EXCEPT ![u] = @ + 1] ELSE readers)
           /\ Goes(h, IF usable THEN "validate" ELSE "idle")
           /\ using' = [using EXCEPT ![h] = IF usable THEN u ELSE None]
    /\ UNCHANGED <<parser, imported, committed>>

(* borrowed_upload: expire, look the upload up, count the reader. Counting *)
(* first changes nothing, the upload that is counted is not stale. A       *)
(* lookup that fails has expired others all the same.                      *)
Borrow(h, u) ==
    /\ pc[h] = "idle"
    /\ LET usable == entry[u] = "cached" /\ u \notin removed
       IN  /\ Expire(IF usable THEN [readers EXCEPT ![u] = @ + 1] ELSE readers)
           /\ Goes(h, IF usable THEN "validate" ELSE "idle")
           /\ using' = [using EXCEPT ![h] = IF usable THEN u ELSE None]
    /\ UNCHANGED <<parser, imported, committed>>

(* validate_import; the request may end here, by its path or by an error.  *)
Validate(h) ==
    /\ pc[h] = "validate"
    /\ Goes(h, "import") \/ Goes(h, "return")
    /\ UNCHANGED <<cache, parser, using, imported, committed>>

(* import_dataset raises before its commit or, reading the new dataset     *)
(* back, after it; or it returns.                                          *)
Import(h) ==
    /\ pc[h] = "import"
    /\ \/ Goes(h, "remove") /\ imported' = imported \cup {using[h]}
       \/ Goes(h, "return") /\ imported' \in {imported, imported \cup {using[h]}}
    /\ UNCHANGED <<cache, parser, using, committed>>

(* Fault: the upload is withdrawn after it was given back. *)
RemoveReturned(h) ==
    /\ pc[h] = "remove"
    /\ LET count == [readers EXCEPT ![using[h]] = @ - 1]
       IN  /\ entry' = [u \in Uploads |-> IF u \in Stale(count) THEN "gone" ELSE entry[u]]
           /\ removed' = (removed \ Stale(count)) \cup {using[h]}
           /\ readers' = count
    /\ committed' = committed \cup {using[h]}
    /\ using' = [using EXCEPT ![h] = None]
    /\ Goes(h, "idle")
    /\ UNCHANGED <<parser, imported>>

Remove(h) ==
    /\ pc[h] = "remove"
    /\ removed' = removed \cup {using[h]}
    /\ committed' = committed \cup {using[h]}
    /\ Goes(h, "return")
    /\ UNCHANGED <<entry, readers, parser, using, imported>>

(* The finally clause of borrowed_upload. *)
Return(h) ==
    /\ pc[h] = "return"
    /\ Expire([readers EXCEPT ![using[h]] = @ - 1])
    /\ using' = [using EXCEPT ![h] = None]
    /\ Goes(h, "idle")
    /\ UNCHANGED <<parser, imported, committed>>

-----------------------------------------------------------------------------
(* Ten minutes pass. *)
Tick(u) ==
    /\ entry[u] = "cached"
    /\ entry' = [entry EXCEPT ![u] = "expired"]
    /\ UNCHANGED <<readers, removed, parser, pc, using, imported, committed>>

(* The process ends and starts again with empty memory. *)
Restart ==
    /\ entry' = [u \in Uploads |-> IF Kept(entry[u]) THEN "gone" ELSE entry[u]]
    /\ readers' = [u \in Uploads |-> 0]
    /\ removed' = {}
    /\ parser' = None
    /\ pc' = [h \in Handlers |-> "idle"]
    /\ using' = [h \in Handlers |-> None]
    /\ UNCHANGED <<imported, committed>>

Handle(h) ==
    \/ Admit(h) \/ Parse(h) \/ Store(h) \/ ReleaseParser(h)
    \/ Validate(h) \/ Import(h) \/ Remove(h) \/ Return(h)

Next ==
    \/ \E h \in Handlers : BeginPreview(h) \/ Handle(h) \/ \E u \in Uploads : Borrow(h, u)
    \/ \E u \in Uploads : Tick(u)
    \/ Restart

(* Every command ends: the parser has a deadline, statements and critical  *)
(* sections do not block for ever. Nobody has to send one.                 *)
Spec == Init /\ [][Next]_vars /\ \A h \in Handlers : WF_vars(Handle(h))

-----------------------------------------------------------------------------
(* Properties *)

(* The admission check and the insert are two critical sections; between   *)
(* them the parser slot keeps the cache within its limit.                  *)
CacheIsBounded == Cardinality({u \in Uploads : Kept(entry[u])}) <= Slots

(* The counts are exact, and an upload stays as long as somebody reads it, *)
(* expired or imported by another command meanwhile.                       *)
BorrowedIsKept ==
    \A u \in Uploads :
        /\ readers[u] = Cardinality({h \in Handlers : using[h] = u})
        /\ readers[u] > 0 => Kept(entry[u])

(* Only an upload that was imported is withdrawn, so a failed import can   *)
(* be repeated, and the mark goes together with the entry.                 *)
WithdrawnIsImported == removed \subseteq {u \in imported : Kept(entry[u])}

(* Once an import was carried through, its upload is not borrowed again:   *)
(* only commands that read it at the same time can import it once more.    *)
CommittedIsClosed ==
    [][\A u \in committed, h \in Handlers : using'[h] = u => using[h] = u]_vars

(* Whatever becomes of a preview, another one can be parsed after it.      *)
ParserIsFreed == \A h \in Handlers : (parser = h) ~> (parser # h)
=============================================================================
