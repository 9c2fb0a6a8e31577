---------------------------- MODULE ArtifactStore ----------------------------
(***************************************************************************)
(* The artifact store and the blob store beside it, on a filesystem or on  *)
(* S3 (src/docdoc/artifacts), as several workers use them at once.  An     *)
(* artifact is filed under an identity derived from the inputs of a stage; *)
(* its content has a hash of its own, kept in the envelope.  What one      *)
(* system call or one request does is one step.                            *)
(***************************************************************************)
EXTENDS Naturals, FiniteSets

CONSTANTS
  Key,          \* artifact identities
  Content,      \* serialised payloads; equal exactly when their hashes are
  Format,       \* artifact format versions
  Document,     \* source documents, which are their own identity
  Process,      \* workers, request handlers, sweeps
  MaxFaults,    \* crashes, outages and corruptions in one behaviour
  Absent

Backends == {"files", "s3"}
\* What an envelope says, and what became of the bytes it is stored as: another
\* payload than its hash says, no envelope any more, not even text in UTF-8.
Rotted   == {"altered", "unreadable", "undecodable"}
Envelope == [content: Content, format: Format, bytes: Rotted \union {"whole"}]
Answer   == {"none", "miss", "hit", "integrity", "stored", "conflict", "degraded",
             "removed", "absent", "refused", "unavailable", "found"}
StorePc  == {"idle", "write", "link", "relook", "delete", "prefix", "blob"}

VARIABLES
  backend,      \* which of the two stores the deployment uses
  rooted,       \* whether the tenant's namespace is the store root itself
  entries,      \* what is filed under each identity
  documents,    \* the blobs
  temporaries,  \* temporary files that exist, by the process that made them
  pc,           \* how far the operation of each process is
  op,           \* its key, content and format
  todo,         \* what a removal by prefix has listed and not yet removed
  answer,       \* what its last operation returned or raised
  faults,
  listed,       \* history: what a removal in progress listed, unless filed anew
  cleared,      \* history: what removals said is gone, unless filed anew
  accepted,     \* history: contents filed by a put that came back, per identity
  unseen        \* history: identities written without seeing what another filed

storeVars == <<backend, rooted, entries, documents, temporaries, pc, op, todo,
               answer, faults, listed, cleared, accepted, unseen>>
store   == <<entries, documents>>
setting == <<backend, rooted>>
history == <<cleared, accepted, unseen>>

Operation == [key: Key \union Document, content: Content, format: Format]

TypeOK ==
  /\ backend \in Backends /\ rooted \in BOOLEAN
  /\ entries \in [Key -> Envelope \union {Absent}]
  /\ documents \subseteq Document
  /\ temporaries \in SUBSET (Process \X {"crashed", "live"})
  /\ pc \in [Process -> StorePc]
  /\ op \in [Process -> Operation \union {Absent}]
  /\ todo \in [Process -> SUBSET Key]
  /\ answer \in [Process -> Answer]
  /\ faults \in 0 .. MaxFaults
  /\ listed \in [Process -> SUBSET Key] /\ cleared \subseteq Key
  /\ accepted \in [Key -> SUBSET Content] /\ unseen \subseteq Key

Init ==
  /\ backend \in Backends /\ rooted \in BOOLEAN
  /\ entries = [k \in Key |-> Absent]
  /\ documents = {} /\ temporaries = {}
  /\ pc = [p \in Process |-> "idle"]
  /\ op = [p \in Process |-> Absent]
  /\ todo = [p \in Process |-> {}]
  /\ answer = [p \in Process |-> "none"]
  /\ faults = 0
  /\ listed = [p \in Process |-> {}] /\ cleared = {}
  /\ accepted = [k \in Key |-> {}] /\ unseen = {}

-----------------------------------------------------------------------------
(* One process goes through an operation                                   *)

\* The operation is over: it returned or raised `a`.
Done(p, a) ==
  /\ pc' = [pc EXCEPT ![p] = "idle"]
  /\ op' = [op EXCEPT ![p] = Absent]
  /\ todo' = [todo EXCEPT ![p] = {}]
  /\ answer' = [answer EXCEPT ![p] = a]
  /\ listed' = [listed EXCEPT ![p] = {}]

At(p, step, o, keys) ==
  /\ pc' = [pc EXCEPT ![p] = step]
  /\ op' = [op EXCEPT ![p] = o]
  /\ todo' = [todo EXCEPT ![p] = keys]
  /\ listed' = [listed EXCEPT ![p] = keys]
  /\ answer' = [answer EXCEPT ![p] = "none"]

Fault == faults < MaxFaults /\ faults' = faults + 1
NoFault == UNCHANGED faults

\* The envelope parses, and its payload hashes to the content id beside it.
Verified(e) == e.bytes = "whole"

\* S3's envelope decodes the object inside the `except Exception` that takes any
\* failure for a store out of reach; read_text of a file raises its own error.
Undecoded(e) == backend = "s3" /\ e.bytes = "undecodable"

\* Every way of reading one envelope: absent, raising because it is not what was
\* written, or found. A store that cannot be reached reads as absent, see Unreachable.
Read(k) == IF entries[k] = Absent \/ Undecoded(entries[k]) THEN "miss"
           ELSE IF Verified(entries[k]) THEN "found" ELSE "integrity"

\* A format other than the reader's is a miss; any other mismatch raises.
Get(p, k, f) ==
  /\ pc[p] = "idle"
  /\ Done(p, IF Read(k) = "found"
             THEN IF entries[k].format = f THEN "hit" ELSE "miss"
             ELSE Read(k))
  /\ NoFault
  /\ UNCHANGED <<setting, store, temporaries, history>>

-----------------------------------------------------------------------------
(* put                                                                     *)

Writers(k) == {p \in Process : pc[p] \in {"write", "link", "relook"} /\ op[p].key = k}

\* The first look.  What is filed is compared by its content alone, whatever
\* its format: the same content is a no-op, another one is a conflict.  What
\* reads as a miss although it is there is overwritten without having been seen.
Put(p, k, c, f) ==
  /\ pc[p] = "idle"
  /\ CASE Read(k) = "integrity" -> Done(p, "integrity") /\ UNCHANGED history
       [] Read(k) = "found" ->
            /\ Done(p, IF entries[k].content = c THEN "stored" ELSE "conflict")
            /\ accepted' = IF entries[k].content = c
                           THEN [accepted EXCEPT ![k] = @ \union {c}] ELSE accepted
            /\ UNCHANGED <<cleared, unseen>>
       [] Read(k) = "miss" ->
            /\ At(p, "write", [key |-> k, content |-> c, format |-> f], {})
            /\ unseen' = IF Writers(k) = {} /\ entries[k] = Absent THEN unseen ELSE unseen \union {k}
            /\ UNCHANGED <<cleared, accepted>>
  /\ NoFault
  /\ UNCHANGED <<setting, store, temporaries>>

\* The first look cannot reach the store, which reads as a miss.
PutBlind(p, k, c, f) ==
  /\ Fault
  /\ pc[p] = "idle"
  /\ At(p, "write", [key |-> k, content |-> c, format |-> f], {})
  /\ unseen' = unseen \union {k}
  /\ UNCHANGED <<setting, store, temporaries, cleared, accepted>>

\* History only: no removal answers for what is filed after it listed.
FiledAnew(k) ==
  /\ listed' = [p \in Process |-> listed[p] \ {k}]
  /\ cleared' = cleared \ {k}

Filed(o) == [content |-> o.content, format |-> o.format, bytes |-> "whole"]

\* The whole envelope goes to a temporary file first.
WriteTemporary(p) ==
  /\ pc[p] = "write" /\ backend = "files"
  /\ temporaries' = temporaries \union {<<p, "live">>}
  /\ At(p, "link", op[p], {})
  /\ NoFault
  /\ UNCHANGED <<setting, store, history>>

\* A PutObject is atomic, needs no temporary, and overwrites what is there.
PutObject(p) ==
  /\ pc[p] = "write" /\ backend = "s3"
  /\ entries' = [entries EXCEPT ![op[p].key] = Filed(op[p])]
  /\ pc' = [pc EXCEPT ![p] = "relook"]
  /\ FiledAnew(op[p].key)
  /\ NoFault
  /\ UNCHANGED <<setting, documents, temporaries, op, todo, answer, accepted, unseen>>

\* MUTANT of Taken: os.replace instead of os.link.
NeverTaken(k) == FALSE

\* os.link refuses a target that exists.
Taken(k) == entries[k] # Absent

\* MUTANT of Unlinked: the temporary file is only removed once it was linked.
UnlinkedIfFree(p, k) == IF Taken(k) THEN temporaries ELSE temporaries \ {<<p, "live">>}

\* `finally` removes the temporary file on every path.
Unlinked(p, k) == temporaries \ {<<p, "live">>}

Link(p) ==
  /\ pc[p] = "link"
  /\ LET k == op[p].key IN
       /\ temporaries' = Unlinked(p, k)
       /\ IF Taken(k)
          THEN At(p, "relook", op[p], {}) /\ UNCHANGED <<entries, history>>
          ELSE /\ entries' = [entries EXCEPT ![k] = Filed(op[p])]
               /\ accepted' = [accepted EXCEPT ![k] = @ \union {op[p].content}]
               /\ pc' = [pc EXCEPT ![p] = "idle"]
               /\ op' = [op EXCEPT ![p] = Absent]
               /\ answer' = [answer EXCEPT ![p] = "stored"]
               /\ FiledAnew(k)
               /\ UNCHANGED <<todo, unseen>>
  /\ NoFault
  /\ UNCHANGED <<setting, documents>>

\* MUTANT of SameContent: a put that lost the race trusts the winner.
AnyContent(p) == TRUE

SameContent(p) == entries[op[p].key].content = op[p].content

\* The second look at what is there.  On files a loser whose winner has been
\* removed again reports a conflict all the same.
Relook(p) ==
  /\ pc[p] = "relook" /\ backend = "files"
  /\ LET k == op[p].key
         same == Read(k) = "found" /\ SameContent(p)
     IN /\ Done(p, IF Read(k) = "integrity" THEN "integrity"
                   ELSE IF same THEN "stored" ELSE "conflict")
        /\ accepted' = IF same THEN [accepted EXCEPT ![k] = @ \union {op[p].content}] ELSE accepted
  /\ NoFault
  /\ UNCHANGED <<setting, store, temporaries, cleared, unseen>>

\* A put of this content came back, and something is filed under its identity.
Accept(p) == accepted' = IF entries[op[p].key] = Absent THEN accepted
                         ELSE [accepted EXCEPT ![op[p].key] = @ \union {op[p].content}]

\* On S3 every writer looks again, and an entry that is gone, or reads as if it
\* were, is no conflict.
RelookObject(p) ==
  /\ pc[p] = "relook" /\ backend = "s3"
  /\ LET k == op[p].key
         fine == Read(k) = "miss" \/ (Read(k) = "found" /\ SameContent(p))
     IN /\ Done(p, IF fine THEN "stored" ELSE IF Read(k) = "integrity" THEN "integrity" ELSE "conflict")
        /\ IF fine THEN Accept(p) ELSE UNCHANGED accepted
  /\ NoFault
  /\ UNCHANGED <<setting, store, temporaries, cleared, unseen>>

-----------------------------------------------------------------------------
(* delete, delete_prefix, clear                                            *)

\* What was accepted under an identity is forgotten with what is filed there.
Forget(keys) == accepted' = [k \in Key |-> IF k \in keys THEN {} ELSE accepted[k]]

Delete(p, k) ==
  /\ pc[p] = "idle" /\ backend = "files"
  /\ Done(p, IF entries[k] = Absent THEN "absent" ELSE "removed")
  /\ entries' = [entries EXCEPT ![k] = Absent]
  /\ Forget({k})
  /\ NoFault
  /\ UNCHANGED <<setting, documents, temporaries, cleared, unseen>>

\* S3 is asked whether the object is there first: a delete does not say.
HeadObject(p, k) ==
  /\ pc[p] = "idle" /\ backend = "s3"
  /\ IF entries[k] = Absent
     THEN Done(p, "absent")
     ELSE At(p, "delete", [key |-> k, content |-> entries[k].content,
                           format |-> entries[k].format], {})
  /\ NoFault
  /\ UNCHANGED <<setting, store, temporaries, history>>

DeleteObject(p) ==
  /\ pc[p] = "delete"
  /\ entries' = [entries EXCEPT ![op[p].key] = Absent]
  /\ Forget({op[p].key})
  /\ Done(p, "removed")
  /\ NoFault
  /\ UNCHANGED <<setting, documents, temporaries, cleared, unseen>>

\* The namespace of the default tenant is the store root, which holds what
\* other tenants and callers without a run filed.
MayRemoveAll == ~rooted

Listed == {k \in Key : entries[k] # Absent}

DeletePrefix(p) ==
  /\ pc[p] = "idle"
  /\ IF MayRemoveAll THEN At(p, "prefix", Absent, Listed) ELSE Done(p, "refused")
  /\ NoFault
  /\ UNCHANGED <<setting, store, temporaries, history>>

\* The supported recovery from a failed integrity check.
Clear(p, keys) ==
  /\ pc[p] = "idle"
  /\ At(p, "prefix", Absent, keys)
  /\ NoFault
  /\ UNCHANGED <<setting, store, temporaries, history>>

\* One stage of it: the stage is in the envelope, and what is none is passed over.
OfStage(keys) == {k \in keys \intersect Listed : entries[k].bytes \in {"whole", "altered"}}

RemoveListed(p) ==
  /\ pc[p] = "prefix"
  /\ IF todo[p] = {}
     THEN /\ Done(p, "removed")
          /\ cleared' = cleared \union listed[p]
          /\ UNCHANGED <<entries, accepted>>
     ELSE \E k \in todo[p] :
            /\ entries' = [entries EXCEPT ![k] = Absent]
            /\ Forget({k})
            /\ todo' = [todo EXCEPT ![p] = @ \ {k}]
            /\ UNCHANGED <<pc, op, answer, listed, cleared>>
  /\ NoFault
  /\ UNCHANGED <<setting, documents, temporaries, unseen>>

-----------------------------------------------------------------------------
(* Blobs, which are never compared: equal identities are equal bytes       *)

PutBlob(p, d) ==
  /\ pc[p] = "idle"
  /\ IF backend = "files" /\ d \notin documents
     THEN /\ temporaries' = temporaries \union {<<p, "live">>}
          /\ At(p, "blob", [key |-> d, content |-> CHOOSE c \in Content : TRUE,
                            format |-> CHOOSE f \in Format : TRUE], {})
          /\ UNCHANGED documents
     ELSE /\ documents' = documents \union {d}
          /\ Done(p, "stored")
          /\ UNCHANGED temporaries
  /\ NoFault
  /\ UNCHANGED <<setting, entries, history>>

\* os.replace: a second writer of the same bytes changes nothing.
ReplaceBlob(p) ==
  /\ pc[p] = "blob"
  /\ documents' = documents \union {op[p].key}
  /\ temporaries' = temporaries \ {<<p, "live">>}
  /\ Done(p, "stored")
  /\ NoFault
  /\ UNCHANGED <<setting, entries, history>>

GetBlob(p, d) ==
  /\ pc[p] = "idle"
  /\ Done(p, IF d \in documents THEN "found" ELSE "absent")
  /\ NoFault
  /\ UNCHANGED <<setting, store, temporaries, history>>

DeleteBlob(p, d) ==
  /\ pc[p] = "idle"
  /\ Done(p, IF d \in documents THEN "removed" ELSE "absent")
  /\ documents' = documents \ {d}
  /\ NoFault
  /\ UNCHANGED <<setting, entries, temporaries, history>>

-----------------------------------------------------------------------------
(* Faults                                                                  *)

\* The store cannot be reached.  A cache degrades: reads miss, writes are
\* dropped, but what a caller was told to delete, or must have, raises.
Unreachable(p) ==
  /\ Fault
  /\ \/ /\ pc[p] = "relook" /\ backend = "s3"
        /\ Done(p, "stored") /\ Accept(p)
     \/ /\ \/ pc[p] = "idle" /\ \E a \in {"miss", "unavailable"} : Done(p, a)
           \/ pc[p] = "write" /\ Done(p, "degraded")
           \/ pc[p] = "relook" /\ backend = "files" /\ Done(p, "conflict")
           \/ pc[p] = "delete" /\ Done(p, "unavailable")
        /\ UNCHANGED accepted
  /\ UNCHANGED <<setting, store, temporaries, cleared, unseen>>

\* The link fails for another reason than a taken name.
LinkFails(p) ==
  /\ Fault
  /\ pc[p] = "link"
  /\ temporaries' = Unlinked(p, op[p].key)
  /\ Done(p, "degraded")
  /\ UNCHANGED <<setting, store, history>>

\* MUTANT of GivesUp: no store raises for an object it could not remove.
NeverGivesUp == FALSE

\* rmtree is told to ignore errors; a failed request leaves _delete_under.
GivesUp == backend = "s3"

\* One entry of a prefix cannot be removed.
Unremovable(p) ==
  /\ Fault
  /\ pc[p] = "prefix"
  /\ \E k \in todo[p] :
       IF GivesUp
       THEN Done(p, "unavailable")
       ELSE /\ todo' = [todo EXCEPT ![p] = @ \ {k}]
            /\ UNCHANGED <<pc, op, answer, listed>>
  /\ UNCHANGED <<setting, store, temporaries, history>>

\* The process dies: nobody removes its temporary file.
Crash(p) ==
  /\ Fault
  /\ pc[p] # "idle"
  /\ temporaries' = IF <<p, "live">> \in temporaries
                    THEN (temporaries \ {<<p, "live">>}) \union {<<p, "crashed">>}
                    ELSE temporaries
  /\ Done(p, "none")
  /\ UNCHANGED <<setting, store, history>>

\* Bytes rot, or somebody edits them.
Corrupt(k) ==
  /\ Fault
  /\ entries[k] # Absent
  /\ \E b \in Rotted : entries' = [entries EXCEPT ![k].bytes = b]
  /\ UNCHANGED <<setting, documents, temporaries, pc, op, todo, answer, listed, history>>

-----------------------------------------------------------------------------
Next ==
  \/ \E p \in Process :
       \/ \E k \in Key : \/ \E f \in Format : Get(p, k, f) \/ \E c \in Content : Put(p, k, c, f) \/ PutBlind(p, k, c, f)
                       \/ Delete(p, k) \/ HeadObject(p, k) \/ Clear(p, OfStage({k}))
       \/ WriteTemporary(p) \/ Link(p) \/ Relook(p) \/ PutObject(p) \/ RelookObject(p)
       \/ DeleteObject(p) \/ DeletePrefix(p) \/ Clear(p, Listed) \/ RemoveListed(p)
       \/ \E d \in Document : PutBlob(p, d) \/ GetBlob(p, d) \/ DeleteBlob(p, d)
       \/ ReplaceBlob(p)
       \/ Unreachable(p) \/ LinkFails(p) \/ Unremovable(p) \/ Crash(p)
  \/ \E k \in Key : Corrupt(k)

Spec == Init /\ [][Next]_storeVars

-----------------------------------------------------------------------------
(* Properties                                                              *)

\* Of two different contents under one identity at most one put comes back,
\* until what is filed is removed ("a write never overwrites ... divergent
\* content raises", store.py:22), crashes, outages and corruptions included.
\* On S3 only if no two writers overlap and each saw what was there before it
\* wrote, which it could not while the store was out of reach, nor bytes that
\* are not text any more.
DivergenceIsSeen ==
  \A k \in Key : Cardinality(accepted[k]) > 1 => backend = "s3" /\ k \in unseen

\* Without the exemption: what the tables of artifacts.md promise of any store.
WritesNeverOverwrite == \A k \in Key : Cardinality(accepted[k]) <= 1

\* Bytes that fail their check stay for a person to look at: no put replaces
\* them, not even one that had looked before they went bad (files; on S3 bytes
\* that are no text read as a miss, and the next put overwrites them).
KeepsEvidence ==
  \A k \in Key :
    (backend = "files" /\ entries[k] # Absent /\ entries[k].bytes # "whole") =>
      entries'[k] = Absent \/ entries'[k].bytes # "whole"
EvidenceIsKept == [][KeepsEvidence]_storeVars

\* store.py, clear: what is damaged is recomputed after a person cleared it, "rather
\* than the run that found the fault silently overwriting the evidence of it". No
\* put that could look begins to write where bytes are that fail their check.
SparesDamage ==
  \A p \in Process : (pc[p] = "idle" /\ pc'[p] = "write" /\ faults' = faults) =>
    (entries[op'[p].key] = Absent \/ entries[op'[p].key].bytes = "whole")
DamageIsSpared == [][SparesDamage]_storeVars

\* Whatever path an operation takes, the temporary file it wrote document or
\* extracted values to is gone when it is over, unless its process died.
TemporariesAreTransient ==
  \A p \in Process : <<p, "live">> \in temporaries => pc[p] \in {"link", "blob"}

\* What a removal by prefix or a clear said is gone is gone, unless somebody
\* filed it after the removal had listed it (S3; rmtree passes over what it
\* cannot remove, and the rows that name it are entombed all the same).
RemovedIsGone == backend = "s3" => \A k \in cleared : entries[k] = Absent

-----------------------------------------------------------------------------
(* What makes the properties inductive                                     *)

\* The key of what an operation carries is one of its store.
Carrying == \A p \in Process :
  /\ pc[p] \in {"write", "link", "relook", "delete"} => op[p] \in Operation /\ op[p].key \in Key
  /\ pc[p] = "blob" => op[p] \in Operation /\ op[p].key \in Document

\* What came back as filed is what is filed, and a writer of objects that saw
\* nothing filed is alone, with nothing filed before it wrote and nothing but its
\* own after; unless writers overlapped or one could not look.
FiledAsAccepted == \A k \in Key : backend = "files" \/ k \notin unseen =>
  accepted[k] = {} \/ (entries[k] # Absent /\ accepted[k] = {entries[k].content})
OneWriter == \A k \in Key : backend = "s3" /\ k \notin unseen =>
  /\ \A p, q \in Writers(k) : p = q
  /\ \A p \in Writers(k) : entries[k] = Absent \/ (pc[p] # "write" /\ entries[k].content = op[p].content)

\* What a removal listed and has not to remove any more is gone (S3).
ListedIsGone == backend = "s3" => \A p \in Process : \A k \in listed[p] \ todo[p] : entries[k] = Absent

StoreInv ==
  TypeOK /\ Carrying /\ FiledAsAccepted /\ OneWriter /\ ListedIsGone /\ TemporariesAreTransient /\ RemovedIsGone
=============================================================================
