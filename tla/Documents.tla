------------------------------ MODULE Documents ------------------------------
(***************************************************************************)
(* Files of one group: DocumentsService and the bucket behind S3Service.   *)
(* A file reaches the bucket through the server, or from the client by a   *)
(* signed URL with a confirmation afterwards.  Rows and objects are        *)
(* written one after the other, and nothing undoes the first.              *)
(***************************************************************************)
EXTENDS Accounts

CONSTANTS
    Document,       \* ids of documents rows
    File,           \* keys of objects in the bucket
    Fellow,         \* active members of the group, one of them its chair
    GroupChair,
    Uploader        \* requests in flight at once

VARIABLES
    document,       \* rows of documents
    bucket,         \* keys that have an object
    offer,          \* keys handed out in signed upload URLs, with their user
    filing          \* the handler each caller is running

documentVars == <<document, bucket, offer, filing>>

DocumentRow ==
    [key : File, owner : Person, via : {"server", "client"},
     deleted : BOOLEAN]

Filing ==
    [pc : {"put", "insert"}, key : File, by : Person]
    \cup [pc : {"hide", "erase"}, document : Document, key : File]

ASSUME DocumentAssumption ==
    /\ GroupChair \in Fellow
    /\ Fellow \subseteq Person
    /\ None \notin DocumentRow

-----------------------------------------------------------------------------

FilingAt(c, pc) == filing[c] # None /\ filing[c].pc = pc

FilingReturn(c) == filing' = [filing EXCEPT ![c] = None]

FilingGoto(c, pc) == filing' = [filing EXCEPT ![c].pc = pc]

\* A row of an id no row has.
NewDocument(row) ==
    \E id \in Document :
        /\ document[id] = None
        /\ document' = [document EXCEPT ![id] = row]

\* A key no one has: it holds a random id.
FreshKey(key) ==
    /\ key \notin bucket
    /\ offer[key] = None
    /\ \A id \in Document : document[id] # None => document[id].key # key
    /\ \A c \in Uploader : filing[c] # None => filing[c].key # key

Listed(id) == document[id] # None /\ ~ document[id].deleted

-----------------------------------------------------------------------------
(* Uploads. *)

\* uploadDocument, by a member.
ReadForUpload(c, key, u) ==
    /\ filing[c] = None
    /\ u \in Fellow
    /\ FreshKey(key)
    /\ filing' = [filing EXCEPT ![c] = [pc |-> "put", key |-> key, by |-> u]]
    /\ UNCHANGED <<document, bucket, offer>>

PutObject(c) ==
    /\ FilingAt(c, "put")
    /\ bucket' = bucket \cup {filing[c].key}
    /\ FilingGoto(c, "insert")
    /\ UNCHANGED <<document, offer>>

InsertDocument(c) ==
    /\ FilingAt(c, "insert")
    /\ NewDocument([key |-> filing[c].key, owner |-> filing[c].by,
                    via |-> "server", deleted |-> FALSE])
    /\ FilingReturn(c)
    /\ UNCHANGED <<bucket, offer>>

\* getUploadUrl, by a member; nothing is stored.
GetUploadUrl(key, u) ==
    /\ u \in Fellow
    /\ FreshKey(key)
    /\ offer' = [offer EXCEPT ![key] = u]
    /\ UNCHANGED <<document, bucket, filing>>

\* The client uses its URL, or another time, while the URL is good.
ClientPuts(key) ==
    /\ offer[key] # None
    /\ bucket' = bucket \cup {key}
    /\ UNCHANGED <<document, offer, filing>>

\* confirmUpload takes any key from any user: it asks neither for the URL nor
\* for the object, nor whether the key has a row already.  A key that the
\* server has drawn and not answered with yet is known to no one.
ConfirmUpload(key, u) ==
    /\ \A c \in Uploader :
          FilingAt(c, "put") \/ FilingAt(c, "insert") => filing[c].key # key
    /\ NewDocument([key |-> key, owner |-> u, via |-> "client",
                    deleted |-> FALSE])
    /\ UNCHANGED <<bucket, offer, filing>>

-----------------------------------------------------------------------------
(* Deletion, by the owner or the chairperson. *)

ReadForErase(c, id, u) ==
    /\ filing[c] = None
    /\ Listed(id)
    /\ u \in {document[id].owner, GroupChair}
    /\ filing' = [filing EXCEPT ![c] =
          [pc |-> "hide", document |-> id, key |-> document[id].key]]
    /\ UNCHANGED <<document, bucket, offer>>

\* Faulty variant: the object goes first and the row is hidden afterwards.
HideDocumentLast(c) ==
    /\ FilingAt(c, "hide")
    /\ bucket' = bucket \ {filing[c].key}
    /\ FilingGoto(c, "erase")
    /\ UNCHANGED <<document, offer>>

HideDocument(c) ==
    /\ FilingAt(c, "hide")
    /\ document' = [document EXCEPT ![filing[c].document].deleted = TRUE]
    /\ FilingGoto(c, "erase")
    /\ UNCHANGED <<bucket, offer>>

EraseObject(c) ==
    /\ FilingAt(c, "erase")
    /\ bucket' = bucket \ {filing[c].key}
    /\ FilingReturn(c)
    /\ UNCHANGED <<document, offer>>

\* S3 or the database fails, or the server stops: the rest does not happen.
AbandonFiling(c) ==
    /\ filing[c] # None
    /\ FilingReturn(c)
    /\ UNCHANGED <<document, bucket, offer>>

-----------------------------------------------------------------------------

DocumentInit ==
    /\ document = [id \in Document |-> None]
    /\ bucket = {}
    /\ offer = [key \in File |-> None]
    /\ filing = [c \in Uploader |-> None]

DocumentNext ==
    \/ \E c \in Uploader :
          \/ \E key \in File, u \in Person : ReadForUpload(c, key, u)
          \/ \E id \in Document, u \in Person : ReadForErase(c, id, u)
          \/ PutObject(c) \/ InsertDocument(c)
          \/ HideDocument(c) \/ EraseObject(c) \/ AbandonFiling(c)
    \/ \E key \in File :
          \/ \E u \in Person : GetUploadUrl(key, u) \/ ConfirmUpload(key, u)
          \/ ClientPuts(key)

-----------------------------------------------------------------------------
(* Properties. *)

DocumentTypeOK ==
    /\ document \in [Document -> DocumentRow \cup {None}]
    /\ bucket \subseteq File
    /\ offer \in [File -> Person \cup {None}]
    /\ filing \in [Uploader -> Filing \cup {None}]

\* A document that is listed and came through the server can be downloaded,
\* wherever an upload or a deletion, or several at once, broke off, unless a
\* row that a client confirmed for its key was deleted: the object goes with
\* the first of its rows.  What a client confirms may have no object at all.
ListedHasObject ==
    \A id \in Document :
        Listed(id) /\ document[id].via = "server" =>
            \/ document[id].key \in bucket
            \/ \E other \in Document :
                  /\ document[other] # None /\ document[other].deleted
                  /\ document[other].via = "client"
                  /\ document[other].key = document[id].key

=============================================================================
