---------------------------- MODULE ServiceProofs ----------------------------
(***************************************************************************)
(* What holds of the files, the receipts, the memberships, the sessions,   *)
(* the phone's queue, the messages and the screens for any number of       *)
(* users, groups, devices, documents, operations, syncs, jobs and calls.   *)
(***************************************************************************)
EXTENDS Services, FiniteSetTheorems, TLAPS

-----------------------------------------------------------------------------
(* Files. *)

\* The key of an upload under way is nobody else's, and once the row is to be
\* inserted its object is there.
UploadOK(c) ==
    FilingAt(c, "put") \/ FilingAt(c, "insert") =>
        /\ \A id \in Document :
              document[id] # None => document[id].key # filing[c].key
        /\ \A d \in Uploader \ {c} :
              filing[d] # None => filing[d].key # filing[c].key
        /\ FilingAt(c, "insert") => filing[c].key \in bucket

\* A deletion under way has the key of its row, and erases the object of a row
\* that is hidden.
EraseOK(c) ==
    FilingAt(c, "hide") \/ FilingAt(c, "erase") =>
        LET row == document[filing[c].document] IN
        /\ row # None
        /\ row.key = filing[c].key
        /\ FilingAt(c, "erase") => row.deleted

\* No two rows that came through the server share a key.
ServerKeys ==
    \A id, other \in Document :
        /\ document[id] # None /\ document[id].via = "server"
        /\ document[other] # None /\ document[other].via = "server"
        /\ document[id].key = document[other].key
        => id = other

DocumentInv ==
    /\ DocumentTypeOK
    /\ \A c \in Uploader : UploadOK(c) /\ EraseOK(c)
    /\ ServerKeys
    /\ ListedHasObject

\* An upload takes a key that no one has.
LEMMA ReadForUploadInv ==
    ASSUME DocumentInv, NEW c \in Uploader, NEW key \in File, NEW u \in Person,
           ReadForUpload(c, key, u)
    PROVE  DocumentInv'
<1> DEFINE x == [pc |-> "put", key |-> key, by |-> u]
<1>1. /\ filing' = [filing EXCEPT ![c] = x]
      /\ UNCHANGED <<document, bucket, offer>>
      /\ filing[c] = None
      /\ FreshKey(key)
    BY DEF ReadForUpload
<1>2. x \in Filing /\ x.pc = "put" /\ x.key = key
    BY DEF Filing
<1> HIDE DEF x
<1>3. /\ filing \in [Uploader -> Filing \cup {None}]
      /\ filing'[c] = x
      /\ \A d \in Uploader \ {c} : filing'[d] = filing[d]
    BY <1>1 DEF DocumentInv, DocumentTypeOK
<1>4. DocumentTypeOK'
    BY <1>1, <1>2 DEF DocumentInv, DocumentTypeOK
<1>5. UploadOK(c)' /\ EraseOK(c)'
    BY <1>1, <1>2, <1>3 DEF UploadOK, EraseOK, FilingAt, FreshKey
<1>6. ASSUME NEW d \in Uploader, d # c
      PROVE  UploadOK(d)' /\ EraseOK(d)'
    <2>1. UploadOK(d) /\ EraseOK(d) /\ filing'[d] = filing[d]
        BY <1>3, <1>6 DEF DocumentInv
    <2>2. filing[d] # None => filing[d].key # key
        BY <1>1 DEF FreshKey
    <2>3. UploadOK(d)'
        BY <1>1, <1>2, <1>3, <2>1, <2>2 DEF UploadOK, FilingAt
    <2>4. EraseOK(d)'
        BY <1>1, <2>1 DEF EraseOK, FilingAt
    <2>5. QED
        BY <2>3, <2>4
<1>7. ServerKeys' /\ ListedHasObject'
    BY <1>1 DEF DocumentInv, ServerKeys, ListedHasObject, Listed
<1>8. QED
    BY <1>4, <1>5, <1>6, <1>7 DEF DocumentInv

\* A step of one handler that touches no row and no offer, from filing[c] to x.
LEMMA FilingStep ==
    ASSUME DocumentInv, NEW c \in Uploader, NEW x \in Filing \cup {None},
           filing' = [filing EXCEPT ![c] = x],
           UNCHANGED <<document, offer>>,
           bucket' \in SUBSET File,
           x # None => filing[c] # None /\ x.key = filing[c].key,
           \A d \in Uploader \ {c} :
               FilingAt(d, "insert") /\ filing[d].key \in bucket
                   => filing[d].key \in bucket',
           UploadOK(c)', EraseOK(c)', ListedHasObject'
    PROVE  DocumentInv'
<1>1. /\ filing \in [Uploader -> Filing \cup {None}]
      /\ filing'[c] = x
      /\ \A d \in Uploader \ {c} : filing'[d] = filing[d]
    BY DEF DocumentInv, DocumentTypeOK
<1>2. DocumentTypeOK'
    BY DEF DocumentInv, DocumentTypeOK
<1>3. ASSUME NEW d \in Uploader, d # c
      PROVE  UploadOK(d)' /\ EraseOK(d)'
    <2>1. UploadOK(d) /\ EraseOK(d) /\ filing'[d] = filing[d]
        BY <1>1, <1>3 DEF DocumentInv
    <2>2. UploadOK(d)'
        BY <1>1, <1>3, <2>1 DEF UploadOK, FilingAt
    <2>3. EraseOK(d)'
        BY <2>1 DEF EraseOK, FilingAt
    <2>4. QED
        BY <2>2, <2>3
<1>4. ServerKeys'
    BY DEF DocumentInv, ServerKeys
<1>5. QED
    BY <1>2, <1>3, <1>4 DEF DocumentInv

\* A handler that returns or breaks off leaves an object without a row at most.
LEMMA AbandonFilingInv ==
    ASSUME DocumentInv, NEW c \in Uploader, FilingReturn(c),
           UNCHANGED <<document, bucket, offer>>
    PROVE  DocumentInv'
<1>1. filing' = [filing EXCEPT ![c] = None] /\ filing'[c] = None
    BY DEF FilingReturn, DocumentInv, DocumentTypeOK
<1>2. UploadOK(c)' /\ EraseOK(c)'
    BY <1>1 DEF UploadOK, EraseOK, FilingAt
<1>3. ListedHasObject' /\ bucket' \in SUBSET File
    BY DEF DocumentInv, DocumentTypeOK, ListedHasObject, Listed
<1>4. QED
    BY <1>1, <1>2, <1>3, FilingStep

LEMMA PutObjectInv ==
    ASSUME DocumentInv, NEW c \in Uploader, PutObject(c)
    PROVE  DocumentInv'
<1>1. PICK x : x = [filing[c] EXCEPT !.pc = "insert"]
    OBVIOUS
<1>2. /\ FilingAt(c, "put")
      /\ filing[c] \in Filing
      /\ filing' = [filing EXCEPT ![c] = x]
      /\ bucket' = bucket \cup {filing[c].key}
      /\ UNCHANGED <<document, offer>>
    BY <1>1 DEF PutObject, FilingGoto, FilingAt, DocumentInv, DocumentTypeOK
<1>3. /\ filing[c] \in [pc : {"put", "insert"}, key : File, by : Person]
      /\ filing[c] # None
    BY <1>2 DEF Filing, FilingAt
<1>4. /\ x \in Filing
      /\ x.pc = "insert"
      /\ x.key = filing[c].key
      /\ filing[c].key \in File
    BY <1>1, <1>3 DEF Filing
<1>5. filing'[c] = x /\ \A d \in Uploader \ {c} : filing'[d] = filing[d]
    BY <1>2 DEF DocumentInv, DocumentTypeOK
<1>6. UploadOK(c)'
    <2>1. UploadOK(c) /\ FilingAt(c, "put")
        BY <1>2 DEF DocumentInv
    <2>2. QED
        BY <1>2, <1>4, <1>5, <2>1 DEF UploadOK, FilingAt
<1>7. EraseOK(c)'
    BY <1>4, <1>5 DEF EraseOK, FilingAt
<1>8. ListedHasObject' /\ bucket' \in SUBSET File
    BY <1>2, <1>4 DEF DocumentInv, DocumentTypeOK, ListedHasObject, Listed
<1>9. QED
    BY <1>2, <1>3, <1>4, <1>6, <1>7, <1>8, FilingStep

\* A new row; the key of a server row is that of no other row.
LEMMA NewRow ==
    ASSUME DocumentInv, NEW id \in Document, document[id] = None,
           NEW row \in DocumentRow, document' = [document EXCEPT ![id] = row],
           UNCHANGED <<bucket, offer>>,
           row.via = "server" =>
               /\ row.key \in bucket
               /\ \A other \in Document :
                     document[other] # None => document[other].key # row.key
    PROVE  /\ document' \in [Document -> DocumentRow \cup {None}]
           /\ ServerKeys'
           /\ ListedHasObject'
           /\ document'[id] = row
           /\ \A other \in Document \ {id} : document'[other] = document[other]
<1>1. /\ document \in [Document -> DocumentRow \cup {None}]
      /\ document' \in [Document -> DocumentRow \cup {None}]
    BY DEF DocumentInv, DocumentTypeOK
<1>2. /\ document'[id] = row
      /\ \A other \in Document \ {id} : document'[other] = document[other]
    BY <1>1
<1>3. ServerKeys'
    <2>1. SUFFICES ASSUME NEW a \in Document, NEW b \in Document,
                          document'[a] # None, document'[a].via = "server",
                          document'[b] # None, document'[b].via = "server",
                          document'[a].key = document'[b].key
                   PROVE  a = b
        BY DEF ServerKeys
    <2>2. CASE a = id \/ b = id
        BY <1>2, <2>1, <2>2
    <2>3. CASE a # id /\ b # id
        BY <1>2, <2>1, <2>3 DEF DocumentInv, ServerKeys
    <2>4. QED
        BY <2>2, <2>3
<1>4. ListedHasObject'
    <2>1. SUFFICES ASSUME NEW a \in Document, Listed(a)',
                          document'[a].via = "server",
                          document'[a].key \notin bucket'
                   PROVE  \E other \in Document :
                             /\ document'[other] # None
                             /\ document'[other].deleted
                             /\ document'[other].via = "client"
                             /\ document'[other].key = document'[a].key
        BY DEF ListedHasObject
    <2>2. a # id /\ document'[a] = document[a]
        BY <1>2, <2>1
    <2>3. PICK other \in Document :
              /\ document[other] # None /\ document[other].deleted
              /\ document[other].via = "client"
              /\ document[other].key = document[a].key
        BY <2>1, <2>2 DEF DocumentInv, ListedHasObject, Listed
    <2>4. document'[other] = document[other]
        BY <1>2, <2>3
    <2>5. QED
        BY <2>2, <2>3, <2>4
<1>5. QED
    BY <1>1, <1>2, <1>3, <1>4

LEMMA InsertDocumentInv ==
    ASSUME DocumentInv, NEW c \in Uploader, InsertDocument(c)
    PROVE  DocumentInv'
<1>1. /\ FilingAt(c, "insert")
      /\ filing[c] \in Filing
      /\ UploadOK(c)
      /\ filing' = [filing EXCEPT ![c] = None]
      /\ UNCHANGED <<bucket, offer>>
    BY DEF InsertDocument, FilingReturn, FilingAt, DocumentInv, DocumentTypeOK
<1>2. PICK row : row = [key |-> filing[c].key, owner |-> filing[c].by,
                        via |-> "server", deleted |-> FALSE]
    OBVIOUS
<1>3. row \in DocumentRow /\ row.via = "server" /\ row.key = filing[c].key
    BY <1>1, <1>2 DEF Filing, FilingAt, DocumentRow
<1>4. PICK id \in Document : /\ document[id] = None
                             /\ document' = [document EXCEPT ![id] = row]
    BY <1>2 DEF InsertDocument, NewDocument
<1>5. /\ document' \in [Document -> DocumentRow \cup {None}]
      /\ ServerKeys'
      /\ ListedHasObject'
      /\ document'[id] = row
      /\ \A other \in Document \ {id} : document'[other] = document[other]
    BY <1>1, <1>3, <1>4, NewRow DEF UploadOK
<1>6. filing'[c] = None /\ \A d \in Uploader \ {c} : filing'[d] = filing[d]
    BY <1>1 DEF DocumentInv, DocumentTypeOK
<1>7. DocumentTypeOK'
    BY <1>1, <1>5 DEF DocumentInv, DocumentTypeOK
<1>8. ASSUME NEW d \in Uploader
      PROVE  UploadOK(d)' /\ EraseOK(d)'
    <2>1. CASE d = c
        BY <1>6, <2>1 DEF UploadOK, EraseOK, FilingAt
    <2>2. CASE d # c
        <3>1. UploadOK(d) /\ EraseOK(d) /\ filing'[d] = filing[d]
            BY <1>6, <2>2 DEF DocumentInv
        <3>2. filing[d] # None => filing[d].key # row.key
            BY <1>1, <1>3, <2>2 DEF UploadOK
        <3>3. UploadOK(d)'
            BY <1>1, <1>5, <1>6, <3>1, <3>2 DEF UploadOK, FilingAt
        <3>4. FilingAt(d, "hide") \/ FilingAt(d, "erase")
                  => filing[d].document \in Document /\ filing[d].document # id
            BY <1>4, <3>1 DEF EraseOK, FilingAt, DocumentInv, DocumentTypeOK, Filing
        <3>5. EraseOK(d)'
            BY <1>5, <3>1, <3>4 DEF EraseOK, FilingAt
        <3>6. QED
            BY <3>3, <3>5
    <2>3. QED
        BY <2>1, <2>2
<1>9. QED
    BY <1>5, <1>7, <1>8 DEF DocumentInv

LEMMA ConfirmUploadInv ==
    ASSUME DocumentInv, NEW key \in File, NEW u \in Person, ConfirmUpload(key, u)
    PROVE  DocumentInv'
<1>1. /\ \A c \in Uploader :
            FilingAt(c, "put") \/ FilingAt(c, "insert") => filing[c].key # key
      /\ UNCHANGED <<bucket, offer, filing>>
    BY DEF ConfirmUpload
<1>2. PICK row : row = [key |-> key, owner |-> u, via |-> "client",
                        deleted |-> FALSE]
    OBVIOUS
<1>3. row \in DocumentRow /\ row.via = "client" /\ row.key = key
    BY <1>2 DEF DocumentRow
<1>4. PICK id \in Document : /\ document[id] = None
                             /\ document' = [document EXCEPT ![id] = row]
    BY <1>2 DEF ConfirmUpload, NewDocument
<1>5. /\ document' \in [Document -> DocumentRow \cup {None}]
      /\ ServerKeys'
      /\ ListedHasObject'
      /\ document'[id] = row
      /\ \A other \in Document \ {id} : document'[other] = document[other]
    BY <1>1, <1>3, <1>4, NewRow
<1>6. DocumentTypeOK'
    BY <1>1, <1>5 DEF DocumentInv, DocumentTypeOK
<1>7. ASSUME NEW d \in Uploader
      PROVE  UploadOK(d)' /\ EraseOK(d)'
    <2>1. UploadOK(d) /\ EraseOK(d)
        BY DEF DocumentInv
    <2>2. UploadOK(d)'
        BY <1>1, <1>3, <1>5, <2>1 DEF UploadOK, FilingAt
    <2>3. FilingAt(d, "hide") \/ FilingAt(d, "erase")
              => filing[d].document \in Document /\ filing[d].document # id
        BY <1>4, <2>1 DEF EraseOK, FilingAt, DocumentInv, DocumentTypeOK, Filing
    <2>4. EraseOK(d)'
        BY <1>1, <1>5, <2>1, <2>3 DEF EraseOK, FilingAt
    <2>5. QED
        BY <2>2, <2>4
<1>8. QED
    BY <1>5, <1>6, <1>7 DEF DocumentInv

\* A signed URL takes a key that no one has, and its use only adds an object.
LEMMA ClientInv ==
    ASSUME DocumentInv, NEW key \in File,
           ClientPuts(key) \/ \E u \in Person : GetUploadUrl(key, u)
    PROVE  DocumentInv'
<1>1. CASE ClientPuts(key)
    <2>1. UNCHANGED <<document, offer, filing>> /\ bucket' = bucket \cup {key}
        BY <1>1 DEF ClientPuts
    <2>2. QED
        BY <2>1 DEF DocumentInv, DocumentTypeOK, UploadOK, EraseOK, ServerKeys,
                    ListedHasObject, Listed, FilingAt
<1>2. ASSUME NEW u \in Person, GetUploadUrl(key, u)
      PROVE  DocumentInv'
    <2>1. /\ UNCHANGED <<document, bucket, filing>>
          /\ offer' = [offer EXCEPT ![key] = u]
          /\ FreshKey(key)
        BY <1>2 DEF GetUploadUrl
    <2>2. offer \in [File -> Person \cup {None}]
        BY DEF DocumentInv, DocumentTypeOK
    <2>3. \A k : k # key => offer'[k] = offer[k]
        BY <2>1, <2>2
    <2>4. DocumentTypeOK'
        BY <2>1 DEF DocumentInv, DocumentTypeOK
    <2>5. ASSUME NEW d \in Uploader
          PROVE  UploadOK(d)' /\ EraseOK(d)'
        BY <2>1, <2>3 DEF DocumentInv, UploadOK, EraseOK, FilingAt, FreshKey
    <2>6. ServerKeys' /\ ListedHasObject'
        BY <2>1, <2>3 DEF DocumentInv, ServerKeys, ListedHasObject, Listed, FreshKey
    <2>7. QED
        BY <2>4, <2>5, <2>6 DEF DocumentInv
<1>3. QED
    BY <1>1, <1>2

LEMMA ReadForEraseInv ==
    ASSUME DocumentInv, NEW c \in Uploader, NEW id \in Document,
           NEW u \in Person, ReadForErase(c, id, u)
    PROVE  DocumentInv'
<1>1. PICK x : x = [pc |-> "hide", document |-> id, key |-> document[id].key]
    OBVIOUS
<1>2. /\ filing' = [filing EXCEPT ![c] = x]
      /\ UNCHANGED <<document, bucket, offer>>
      /\ document[id] # None
    BY <1>1 DEF ReadForErase, Listed
<1>3. document[id].key \in File
    BY <1>2 DEF DocumentInv, DocumentTypeOK, DocumentRow
<1>4. x \in Filing /\ x.pc = "hide" /\ x.document = id /\ x.key = document[id].key
    BY <1>1, <1>3 DEF Filing
<1>5. filing'[c] = x /\ \A d \in Uploader \ {c} : filing'[d] = filing[d]
    BY <1>2 DEF DocumentInv, DocumentTypeOK
<1>6. DocumentTypeOK'
    BY <1>2, <1>4 DEF DocumentInv, DocumentTypeOK
<1>7. UploadOK(c)' /\ EraseOK(c)'
    BY <1>2, <1>4, <1>5 DEF UploadOK, EraseOK, FilingAt
<1>8. ASSUME NEW d \in Uploader, d # c
      PROVE  UploadOK(d)' /\ EraseOK(d)'
    <2>1. UploadOK(d) /\ EraseOK(d) /\ filing'[d] = filing[d]
        BY <1>5, <1>8 DEF DocumentInv
    <2>2. UploadOK(d)'
        BY <1>2, <1>4, <1>5, <2>1 DEF UploadOK, FilingAt
    <2>3. EraseOK(d)'
        BY <1>2, <2>1 DEF EraseOK, FilingAt
    <2>4. QED
        BY <2>2, <2>3
<1>9. ServerKeys' /\ ListedHasObject'
    BY <1>2 DEF DocumentInv, ServerKeys, ListedHasObject, Listed
<1>10. QED
    BY <1>6, <1>7, <1>8, <1>9 DEF DocumentInv

\* The row is hidden; its object is about to go.
LEMMA HideDocumentInv ==
    ASSUME DocumentInv, NEW c \in Uploader, HideDocument(c)
    PROVE  DocumentInv'
<1>1. PICK x : x = [filing[c] EXCEPT !.pc = "erase"]
    OBVIOUS
<1>2. PICK id : id = filing[c].document
    OBVIOUS
<1>3. PICK row : row = [document[id] EXCEPT !.deleted = TRUE]
    OBVIOUS
<1>4. /\ FilingAt(c, "hide")
      /\ filing[c] \in [pc : {"hide", "erase"}, document : Document, key : File]
      /\ filing' = [filing EXCEPT ![c] = x]
      /\ UNCHANGED <<bucket, offer>>
    BY <1>1 DEF HideDocument, FilingGoto, FilingAt, DocumentInv, DocumentTypeOK,
                Filing
<1>5. id \in Document /\ document' = [document EXCEPT ![id] = row]
    BY <1>2, <1>3, <1>4 DEF HideDocument
<1>6. document[id] \in DocumentRow /\ document[id].key = filing[c].key
    BY <1>2, <1>4, <1>5 DEF DocumentInv, DocumentTypeOK, EraseOK
<1>7. /\ row \in DocumentRow
      /\ row.key = document[id].key
      /\ row.via = document[id].via
      /\ row.deleted
    BY <1>3, <1>6 DEF DocumentRow
<1>8. /\ x \in Filing
      /\ x.pc = "erase"
      /\ x.document = id
      /\ x.key = filing[c].key
    BY <1>1, <1>2, <1>4 DEF Filing
<1>9. /\ filing'[c] = x
      /\ \A d \in Uploader \ {c} : filing'[d] = filing[d]
      /\ document'[id] = row
      /\ \A other \in Document \ {id} : document'[other] = document[other]
    BY <1>4, <1>5 DEF DocumentInv, DocumentTypeOK
<1>10. DocumentTypeOK'
    BY <1>4, <1>5, <1>7, <1>8 DEF DocumentInv, DocumentTypeOK
<1>11. document[id] # None
    BY <1>2, <1>4 DEF DocumentInv, EraseOK
<1>12. row # None
    BY <1>7, DocumentAssumption
<1>13. ASSUME NEW d \in Uploader
       PROVE  UploadOK(d)' /\ EraseOK(d)'
    <2>1. CASE d = c
        BY <1>7, <1>8, <1>9, <1>6, <1>12, <2>1 DEF UploadOK, EraseOK, FilingAt
    <2>2. CASE d # c
        <3>1. UploadOK(d) /\ EraseOK(d) /\ filing'[d] = filing[d]
            BY <1>9, <2>2 DEF DocumentInv
        <3>2. FilingAt(d, "put") \/ FilingAt(d, "insert")
                  => filing[d].key # document[id].key
            BY <1>5, <1>11, <3>1 DEF UploadOK
        <3>3. UploadOK(d)'
            <4>1. \A other \in Document :
                      document'[other] # None =>
                          document'[other].key = document[other].key
                            /\ document[other] # None
                BY <1>7, <1>9, <1>11
            <4>2. SUFFICES ASSUME FilingAt(d, "put") \/ FilingAt(d, "insert")
                           PROVE  UploadOK(d)'
                BY <3>1 DEF UploadOK, FilingAt
            <4>3. \A e \in Uploader \ {d} :
                      filing'[e] # None => filing[e] # None
                                             /\ filing'[e].key = filing[e].key
                BY <1>4, <1>8, <1>9 DEF FilingAt
            <4>4. QED
                BY <1>4, <3>1, <4>1, <4>2, <4>3 DEF UploadOK, FilingAt
        <3>4. EraseOK(d)'
            <4>1. CASE filing[d].document = id
                BY <1>7, <1>9, <1>12, <3>1, <4>1 DEF EraseOK, FilingAt
            <4>2. CASE filing[d].document # id
                <5>1. FilingAt(d, "hide") \/ FilingAt(d, "erase")
                          => filing[d].document \in Document
                    BY DEF FilingAt, DocumentInv, DocumentTypeOK, Filing
                <5>2. QED
                    BY <1>9, <3>1, <4>2, <5>1 DEF EraseOK, FilingAt
            <4>3. QED
                BY <4>1, <4>2
        <3>5. QED
            BY <3>3, <3>4
    <2>3. QED
        BY <2>1, <2>2
<1>14. ServerKeys'
    <2>1. \A other \in Document :
              document'[other] # None =>
                  /\ document[other] # None
                  /\ document'[other].key = document[other].key
                  /\ document'[other].via = document[other].via
        BY <1>7, <1>9, <1>11
    <2>2. QED
        BY <1>4, <2>1 DEF DocumentInv, ServerKeys
<1>15. ListedHasObject'
    <2>1. SUFFICES ASSUME NEW a \in Document, Listed(a)',
                          document'[a].via = "server",
                          document'[a].key \notin bucket'
                   PROVE  \E other \in Document :
                             /\ document'[other] # None
                             /\ document'[other].deleted
                             /\ document'[other].via = "client"
                             /\ document'[other].key = document'[a].key
        BY DEF ListedHasObject
    <2>2. a # id /\ document'[a] = document[a]
        BY <1>7, <1>9, <2>1 DEF Listed
    <2>3. PICK other \in Document :
              /\ document[other] # None /\ document[other].deleted
              /\ document[other].via = "client"
              /\ document[other].key = document[a].key
        BY <1>4, <2>1, <2>2 DEF DocumentInv, ListedHasObject, Listed
    <2>4. /\ document'[other] # None /\ document'[other].deleted
          /\ document'[other].via = document[other].via
          /\ document'[other].key = document[other].key
        BY <1>7, <1>9, <1>12, <2>3
    <2>5. QED
        BY <2>2, <2>3, <2>4
<1>16. QED
    BY <1>10, <1>13, <1>14, <1>15 DEF DocumentInv

\* Only the object of a hidden row goes; a server row that shares it is hidden
\* too, or the hidden row is a client's.
LEMMA EraseObjectInv ==
    ASSUME DocumentInv, NEW c \in Uploader, EraseObject(c)
    PROVE  DocumentInv'
<1>1. /\ FilingAt(c, "erase")
      /\ bucket' = bucket \ {filing[c].key}
      /\ filing' = [filing EXCEPT ![c] = None]
      /\ UNCHANGED <<document, offer>>
    BY DEF EraseObject, FilingReturn
<1>2. PICK id : id = filing[c].document
    OBVIOUS
<1>3. /\ id \in Document
      /\ document[id] # None
      /\ document[id].key = filing[c].key
      /\ document[id].deleted
    BY <1>1, <1>2 DEF DocumentInv, DocumentTypeOK, EraseOK, FilingAt, Filing
<1>4. \A d \in Uploader \ {c} :
          FilingAt(d, "insert") => filing[d].key # filing[c].key
    BY <1>3 DEF DocumentInv, UploadOK
<1>5. ListedHasObject'
    <2>1. SUFFICES ASSUME NEW listed \in Document, Listed(listed),
                          document[listed].via = "server"
                   PROVE  \/ document[listed].key \in bucket'
                          \/ \E other \in Document :
                                /\ document[other] # None
                                /\ document[other].deleted
                                /\ document[other].via = "client"
                                /\ document[other].key = document[listed].key
        BY <1>1 DEF ListedHasObject, Listed
    <2>2. CASE document[listed].key = filing[c].key
        <3>1. listed # id
            BY <1>3, <2>1 DEF Listed
        <3>2. document[id].via # "server"
            BY <1>3, <2>1, <2>2, <3>1 DEF DocumentInv, ServerKeys, Listed
        <3>3. document[id].via = "client"
            BY <1>3, <3>2 DEF DocumentInv, DocumentTypeOK, DocumentRow
        <3>4. QED
            BY <1>3, <2>2, <3>3
    <2>3. CASE document[listed].key # filing[c].key
        BY <1>1, <2>1, <2>3 DEF DocumentInv, ListedHasObject
    <2>4. QED
        BY <2>2, <2>3
<1>6. filing'[c] = None
    BY <1>1 DEF DocumentInv, DocumentTypeOK
<1>7. UploadOK(c)' /\ EraseOK(c)'
    BY <1>6 DEF UploadOK, EraseOK, FilingAt
<1>8. bucket' \in SUBSET File
    BY <1>1 DEF DocumentInv, DocumentTypeOK
<1>9. QED
    BY <1>1, <1>4, <1>5, <1>7, <1>8, FilingStep

LEMMA DocumentInitInv == DocumentInit => DocumentInv
BY DEF DocumentInit, DocumentInv, DocumentTypeOK, UploadOK, EraseOK, FilingAt,
       ServerKeys, ListedHasObject, Listed

LEMMA DocumentStepInv == DocumentInv /\ [DocumentNext]_documentVars => DocumentInv'
<1> SUFFICES ASSUME DocumentInv, [DocumentNext]_documentVars PROVE DocumentInv'
    OBVIOUS
<1>1. ASSUME NEW c \in Uploader,
             \/ PutObject(c) \/ InsertDocument(c)
             \/ HideDocument(c) \/ EraseObject(c) \/ AbandonFiling(c)
      PROVE  DocumentInv'
    <2>1. CASE AbandonFiling(c)
        BY <2>1, AbandonFilingInv DEF AbandonFiling
    <2>2. QED
        BY <1>1, <2>1, PutObjectInv, InsertDocumentInv, HideDocumentInv,
           EraseObjectInv
<1>2. ASSUME NEW c \in Uploader, NEW key \in File, NEW u \in Person,
             ReadForUpload(c, key, u)
      PROVE  DocumentInv'
    BY <1>2, ReadForUploadInv
<1>3. ASSUME NEW c \in Uploader, NEW id \in Document, NEW u \in Person,
             ReadForErase(c, id, u)
      PROVE  DocumentInv'
    BY <1>3, ReadForEraseInv
<1>4. ASSUME NEW key \in File,
             \/ \E u \in Person : GetUploadUrl(key, u) \/ ConfirmUpload(key, u)
             \/ ClientPuts(key)
      PROVE  DocumentInv'
    BY <1>4, ClientInv, ConfirmUploadInv
<1>5. CASE UNCHANGED documentVars
    BY <1>5 DEF documentVars, DocumentInv, DocumentTypeOK, UploadOK, EraseOK,
                ServerKeys, ListedHasObject, Listed, FilingAt
<1>6. QED
    BY <1>1, <1>2, <1>3, <1>4, <1>5 DEF DocumentNext

LEMMA DocumentsInvariant == ServicesSpec => []DocumentInv
<1>1. ServicesInit => DocumentInv
    BY DocumentInitInv DEF ServicesInit
<1>2. DocumentInv /\ [ServicesNext]_serviceVars => DocumentInv'
    <2>1. [ServicesNext]_serviceVars => [DocumentNext]_documentVars
        BY DEF ServicesNext, serviceVars, partVars
    <2>2. QED
        BY <2>1, DocumentStepInv
<1>3. QED
    BY <1>1, <1>2, PTL DEF ServicesSpec

\* A document that came through the server and is listed can be downloaded,
\* whichever uploads and deletions overlap or break off and whoever confirms
\* whatever key, unless a row a client confirmed for its key was deleted.
THEOREM ListedDocumentsHaveObjects == ServicesSpec => []ListedHasObject
<1>1. DocumentInv => ListedHasObject
    BY DEF DocumentInv
<1>2. QED
    BY <1>1, DocumentsInvariant, PTL

-----------------------------------------------------------------------------
(* Receipts. *)

Started(t) == tap[t] # None

Backed(t) == Started(t) /\ tap[t].goods \in taken

\* Rows and syncs are about taps that were made, and what is marked as synced,
\* or about to be, the server has.
RowOK(t) ==
    receipt[t] # None => Started(t) /\ (receipt[t].synced => Backed(t))

SweepOK(s) ==
    sweep[s] # None =>
        /\ \A t \in sweep[s].todo : Started(t)
        /\ sweep[s].pc = "synced" => sweep[s].now \in Tap /\ Backed(sweep[s].now)

ReceiptInv ==
    /\ ReceiptTypeOK
    /\ \A t \in Tap : RowOK(t)
    /\ \A s \in Sweep : SweepOK(s)
    /\ \A t \in told : Started(t) /\ (Backed(t) \/ t \in Unsynced)

\* A tap goes on, and the server forgets nothing: what was backed stays so.
LEMMA TapStep ==
    ASSUME ReceiptInv, NEW t \in Tap, NEW x \in TapRow,
           Started(t) => x.goods = tap[t].goods,
           tap' = [tap EXCEPT ![t] = x],
           taken \subseteq taken', taken' \subseteq Goods,
           UNCHANGED sweep
    PROVE  /\ tap' \in [Tap -> TapRow \cup {None}]
           /\ \A u \in Tap : Started(u) => Started(u)'
           /\ \A u \in Tap : Backed(u) => Backed(u)'
           /\ Started(t)'
           /\ \A s \in Sweep : SweepOK(s)'
<1>1. tap \in [Tap -> TapRow \cup {None}] /\ x # None
    BY ConfirmationAssumption DEF ReceiptInv, ReceiptTypeOK
<1>2. tap'[t] = x /\ \A u \in Tap \ {t} : tap'[u] = tap[u]
    BY <1>1
<1>3. tap' \in [Tap -> TapRow \cup {None}]
    BY <1>1
<1>4. /\ \A u \in Tap : Started(u) => Started(u)'
      /\ \A u \in Tap : Backed(u) => Backed(u)'
      /\ Started(t)'
    BY <1>1, <1>2 DEF Started, Backed
<1>5. ASSUME NEW s \in Sweep PROVE SweepOK(s)'
    <2>1. SweepOK(s) /\ sweep'[s] = sweep[s]
        BY DEF ReceiptInv
    <2>2. sweep[s] # None => sweep[s].todo \subseteq Tap
        BY DEF ReceiptInv, ReceiptTypeOK, SweepRow
    <2>3. PICK r : r = sweep[s] /\ sweep'[s] = r
        BY <2>1
    <2>4. QED
        BY <1>4, <2>1, <2>2, <2>3 DEF SweepOK
<1>6. QED
    BY <1>3, <1>4, <1>5

LEMMA ConfirmTapInv ==
    ASSUME ReceiptInv, NEW t \in Tap, NEW goods \in Goods, ConfirmTap(t, goods)
    PROVE  ReceiptInv'
<1>1. PICK x : x = [goods |-> goods, pc |-> IF online THEN "call" ELSE "queue"]
    OBVIOUS
<1>2. /\ x \in TapRow
      /\ ~ Started(t)
      /\ tap' = [tap EXCEPT ![t] = x]
      /\ UNCHANGED <<receipt, sweep, taken, told>>
    BY <1>1 DEF ConfirmTap, TapRow, Started
<1>3. taken' \subseteq Goods
    BY <1>2 DEF ReceiptInv, ReceiptTypeOK
<1>4. /\ tap' \in [Tap -> TapRow \cup {None}]
      /\ \A u \in Tap : Started(u) => Started(u)'
      /\ \A u \in Tap : Backed(u) => Backed(u)'
      /\ \A s \in Sweep : SweepOK(s)'
    BY <1>2, <1>3, TapStep
<1>5. ReceiptTypeOK'
    BY <1>2, <1>4 DEF ReceiptInv, ReceiptTypeOK
<1>6. \A u \in Tap : RowOK(u)'
    BY <1>2, <1>4 DEF ReceiptInv, RowOK
<1>7. ASSUME NEW u \in told'
      PROVE  Started(u)' /\ (Backed(u)' \/ u \in Unsynced')
    <2>1. u \in Tap /\ Started(u) /\ (Backed(u) \/ u \in Unsynced)
        BY <1>2, <1>7 DEF ReceiptInv, ReceiptTypeOK
    <2>2. QED
        BY <1>2, <1>4, <2>1 DEF Unsynced
<1>8. QED
    BY <1>4, <1>5, <1>6, <1>7 DEF ReceiptInv

LEMMA CallConfirmInv ==
    ASSUME ReceiptInv, NEW t \in Tap, CallConfirm(t)
    PROVE  ReceiptInv'
<1>1. tap[t] \in TapRow /\ Started(t) /\ UNCHANGED <<receipt, sweep>>
    BY DEF CallConfirm, Started, ReceiptInv, ReceiptTypeOK
<1>2. PICK pc \in {"over", "queue"} :
          /\ TapGoto(t, pc)
          /\ \/ /\ Take(tap[t].goods)
                /\ told' \in {told, told \cup {t}}
             \/ UNCHANGED <<taken, told>>
    BY DEF CallConfirm
<1>3. PICK x : x = [tap[t] EXCEPT !.pc = pc]
    OBVIOUS
<1>4. /\ x \in TapRow
      /\ x.goods = tap[t].goods
      /\ x.goods \in Goods
      /\ tap' = [tap EXCEPT ![t] = x]
    BY <1>1, <1>2, <1>3 DEF TapRow, TapGoto
<1>5. taken \subseteq taken' /\ taken' \subseteq Goods
    BY <1>2, <1>4 DEF Take, ReceiptInv, ReceiptTypeOK
<1>6. /\ tap' \in [Tap -> TapRow \cup {None}]
      /\ \A u \in Tap : Started(u) => Started(u)'
      /\ \A u \in Tap : Backed(u) => Backed(u)'
      /\ Started(t)'
      /\ \A s \in Sweep : SweepOK(s)'
    BY <1>1, <1>4, <1>5, TapStep
<1>7. tap'[t] = x
    BY <1>4 DEF ReceiptInv, ReceiptTypeOK
<1>8. t \in told' => t \in told \/ Backed(t)'
    BY <1>2, <1>4, <1>6, <1>7 DEF Take, Backed
<1>9. told' \subseteq told \cup {t}
    BY <1>2
<1>10. ReceiptTypeOK'
    BY <1>1, <1>5, <1>6, <1>9 DEF ReceiptInv, ReceiptTypeOK
<1>11. \A u \in Tap : RowOK(u)'
    BY <1>1, <1>6 DEF ReceiptInv, RowOK
<1>12. ASSUME NEW u \in told'
       PROVE  Started(u)' /\ (Backed(u)' \/ u \in Unsynced')
    <2>1. CASE u \in told
        <3>1. u \in Tap /\ Started(u) /\ (Backed(u) \/ u \in Unsynced)
            BY <2>1 DEF ReceiptInv, ReceiptTypeOK
        <3>2. QED
            BY <1>1, <1>6, <3>1 DEF Unsynced
    <2>2. CASE u \notin told
        BY <1>6, <1>8, <1>9, <1>12, <2>2
    <2>3. QED
        BY <2>1, <2>2
<1>13. QED
    BY <1>6, <1>10, <1>11, <1>12 DEF ReceiptInv

\* From here on the row is there to be sent.
LEMMA QueueConfirmationInv ==
    ASSUME ReceiptInv, NEW t \in Tap, QueueConfirmation(t)
    PROVE  ReceiptInv'
<1>1. /\ tap[t] \in TapRow
      /\ Started(t)
      /\ TapGoto(t, "over")
      /\ told' = told \cup {t}
      /\ UNCHANGED <<sweep, taken>>
    BY DEF QueueConfirmation, Started, ReceiptInv, ReceiptTypeOK
<1>2. PICK x : x = [tap[t] EXCEPT !.pc = "over"]
    OBVIOUS
<1>3. /\ x \in TapRow
      /\ x.goods = tap[t].goods
      /\ x.goods \in Goods
      /\ tap' = [tap EXCEPT ![t] = x]
    BY <1>1, <1>2 DEF TapRow, TapGoto
<1>4. PICK row : row = [goods |-> tap[t].goods, synced |-> FALSE]
    OBVIOUS
<1>5. /\ row \in ReceiptRow
      /\ row # None
      /\ ~ row.synced
      /\ receipt' = [receipt EXCEPT ![t] = row]
    <2>1. row \in ReceiptRow
        BY <1>3, <1>4 DEF ReceiptRow
    <2>2. ~ row.synced
        BY <1>4
    <2>3. row # None
        BY <2>1, ConfirmationAssumption
    <2>4. receipt' = [receipt EXCEPT ![t] = row]
        BY <1>4 DEF QueueConfirmation
    <2>5. QED
        BY <2>1, <2>2, <2>3, <2>4
<1>6. taken' \subseteq Goods
    BY <1>1 DEF ReceiptInv, ReceiptTypeOK
<1>7. /\ tap' \in [Tap -> TapRow \cup {None}]
      /\ \A u \in Tap : Started(u) => Started(u)'
      /\ \A u \in Tap : Backed(u) => Backed(u)'
      /\ Started(t)'
      /\ \A s \in Sweep : SweepOK(s)'
    BY <1>1, <1>3, <1>6, TapStep
<1>8. receipt'[t] = row /\ \A u \in Tap \ {t} : receipt'[u] = receipt[u]
    BY <1>5 DEF ReceiptInv, ReceiptTypeOK
<1>9. ReceiptTypeOK'
    BY <1>1, <1>5, <1>7 DEF ReceiptInv, ReceiptTypeOK
<1>10. \A u \in Tap : RowOK(u)'
    BY <1>5, <1>7, <1>8 DEF ReceiptInv, RowOK
<1>11. ASSUME NEW u \in told'
       PROVE  Started(u)' /\ (Backed(u)' \/ u \in Unsynced')
    <2>1. CASE u = t
        BY <1>5, <1>7, <1>8, <2>1 DEF Unsynced
    <2>2. CASE u # t
        <3>1. u \in Tap /\ Started(u) /\ (Backed(u) \/ u \in Unsynced)
            BY <1>1, <1>11, <2>2 DEF ReceiptInv, ReceiptTypeOK
        <3>2. QED
            BY <1>7, <1>8, <2>2, <3>1 DEF Unsynced
    <2>3. QED
        BY <2>1, <2>2
<1>12. QED
    BY <1>7, <1>9, <1>10, <1>11 DEF ReceiptInv

\* The syncs: sweep s goes on as x, rows are marked or removed.
LEMMA SweepStep ==
    ASSUME ReceiptInv, NEW s \in Sweep, NEW x \in SweepRow \cup {None},
           sweep' = [sweep EXCEPT ![s] = x],
           UNCHANGED <<tap, told>>,
           receipt' \in [Tap -> ReceiptRow \cup {None}],
           taken \subseteq taken', taken' \subseteq Goods,
           x # None =>
               /\ \A t \in x.todo : Started(t)
               /\ x.pc = "synced" => x.now \in Tap /\ Backed(x.now)',
           \A t \in Tap : receipt'[t] # receipt[t] => Backed(t)
    PROVE  ReceiptInv'
<1>1. /\ \A t \in Tap : Started(t)' <=> Started(t)
      /\ \A t : Backed(t) => Backed(t)'
    BY DEF Started, Backed
<1>2. /\ sweep'[s] = x
      /\ \A r \in Sweep \ {s} : sweep'[r] = sweep[r]
    BY DEF ReceiptInv, ReceiptTypeOK
<1>3. ReceiptTypeOK'
    BY DEF ReceiptInv, ReceiptTypeOK
<1>4. ASSUME NEW t \in Tap PROVE RowOK(t)'
    <2>1. CASE receipt'[t] = receipt[t]
        BY <1>1, <2>1 DEF ReceiptInv, RowOK
    <2>2. CASE receipt'[t] # receipt[t]
        BY <1>1, <2>2 DEF RowOK, Backed
    <2>3. QED
        BY <2>1, <2>2
<1>5. ASSUME NEW r \in Sweep PROVE SweepOK(r)'
    <2>1. CASE r = s
        <3>1. x # None => x.todo \subseteq Tap
            BY DEF SweepRow
        <3>2. QED
            BY <1>1, <1>2, <2>1, <3>1 DEF SweepOK
    <2>2. CASE r # s
        <3>1. PICK row : row = sweep[r] /\ sweep'[r] = row
            BY <1>2, <2>2
        <3>2. SweepOK(r) /\ (row # None => row.todo \subseteq Tap)
            BY <3>1 DEF ReceiptInv, ReceiptTypeOK, SweepRow
        <3>3. QED
            BY <1>1, <3>1, <3>2 DEF SweepOK
    <2>3. QED
        BY <2>1, <2>2
<1>6. ASSUME NEW t \in told'
      PROVE  Started(t)' /\ (Backed(t)' \/ t \in Unsynced')
    <2>1. t \in Tap /\ Started(t) /\ (Backed(t) \/ t \in Unsynced)
        BY DEF ReceiptInv, ReceiptTypeOK
    <2>2. t \in Unsynced /\ ~ Backed(t) => t \in Unsynced'
        BY DEF Unsynced
    <2>3. QED
        BY <1>1, <2>1, <2>2
<1>7. QED
    BY <1>3, <1>4, <1>5, <1>6 DEF ReceiptInv

LEMMA StartSweepInv ==
    ASSUME ReceiptInv, NEW s \in Sweep, StartSweep(s)
    PROVE  ReceiptInv'
<1>1. PICK x : x = [pc |-> "send", todo |-> Unsynced, now |-> None]
    OBVIOUS
<1>2. /\ sweep' = [sweep EXCEPT ![s] = x]
      /\ UNCHANGED <<tap, receipt, taken, told>>
    BY <1>1 DEF StartSweep
<1>3. Unsynced \subseteq Tap /\ \A t \in Unsynced : Started(t)
    BY DEF Unsynced, ReceiptInv, RowOK
<1>4. x \in SweepRow /\ x.pc = "send" /\ \A t \in x.todo : Started(t)
    BY <1>1, <1>3 DEF SweepRow
<1>5. /\ receipt' \in [Tap -> ReceiptRow \cup {None}]
      /\ taken \subseteq taken'
      /\ taken' \subseteq Goods
    BY <1>2 DEF ReceiptInv, ReceiptTypeOK
<1>6. QED
    BY <1>2, <1>4, <1>5, SweepStep

LEMMA SendReceiptInv ==
    ASSUME ReceiptInv, NEW s \in Sweep, NEW t \in Tap, SendReceipt(s, t)
    PROVE  ReceiptInv'
<1>1. /\ sweep[s] \in SweepRow
      /\ t \in sweep[s].todo
      /\ sweep[s] # None
      /\ UNCHANGED <<tap, receipt, told>>
    BY DEF SendReceipt, SweepAt, ReceiptInv, ReceiptTypeOK
<1>2. PICK pc \in {"synced", "failed"} :
          /\ sweep' = [sweep EXCEPT ![s].pc = pc, ![s].now = t,
                                    ![s].todo = @ \ {t}]
          /\ \/ Take(tap[t].goods)
             \/ pc = "failed" /\ UNCHANGED taken
    BY DEF SendReceipt
<1>3. PICK x : x = [sweep[s] EXCEPT !.pc = pc, !.now = t, !.todo = @ \ {t}]
    OBVIOUS
<1>4. sweep' = [sweep EXCEPT ![s] = x]
    BY <1>2, <1>3 DEF ReceiptInv, ReceiptTypeOK
<1>5. /\ x \in SweepRow
      /\ x.pc = pc
      /\ x.now = t
      /\ x.todo = sweep[s].todo \ {t}
    BY <1>1, <1>3 DEF SweepRow
<1>6. Started(t) /\ \A u \in x.todo : Started(u)
    BY <1>1, <1>5 DEF ReceiptInv, SweepOK
<1>7. tap[t].goods \in Goods
    BY <1>6 DEF Started, ReceiptInv, ReceiptTypeOK, TapRow
<1>8. /\ taken \subseteq taken'
      /\ taken' \subseteq Goods
      /\ x.pc = "synced" => x.now \in Tap /\ Backed(x.now)'
    BY <1>1, <1>2, <1>5, <1>6, <1>7
       DEF Take, Backed, Started, ReceiptInv, ReceiptTypeOK
<1>9. receipt' \in [Tap -> ReceiptRow \cup {None}]
    BY <1>1 DEF ReceiptInv, ReceiptTypeOK
<1>10. QED
    BY <1>1, <1>4, <1>5, <1>6, <1>8, <1>9, SweepStep

\* Only the row of a tap that the server has is marked.
LEMMA MarkSyncedInv ==
    ASSUME ReceiptInv, NEW s \in Sweep, MarkSynced(s) \/ UpdateRetryInfo(s)
    PROVE  ReceiptInv'
<1>1. /\ sweep[s] \in SweepRow
      /\ sweep[s] # None
      /\ SweepOn(s)
      /\ UNCHANGED <<tap, taken, told>>
    BY DEF MarkSynced, UpdateRetryInfo, SweepAt, ReceiptInv, ReceiptTypeOK
<1>2. PICK x : x = [sweep[s] EXCEPT !.pc = "send", !.now = None]
    OBVIOUS
<1>3. sweep' = [sweep EXCEPT ![s] = x]
    BY <1>1, <1>2 DEF SweepOn, ReceiptInv, ReceiptTypeOK
<1>4. x \in SweepRow /\ x.pc = "send" /\ x.todo = sweep[s].todo
    BY <1>1, <1>2 DEF SweepRow
<1>5. \A t \in x.todo : Started(t)
    BY <1>1, <1>4 DEF ReceiptInv, SweepOK
<1>6. taken \subseteq taken' /\ taken' \subseteq Goods
    BY <1>1 DEF ReceiptInv, ReceiptTypeOK
<1>7. receipt \in [Tap -> ReceiptRow \cup {None}]
    BY DEF ReceiptInv, ReceiptTypeOK
<1>8. CASE UNCHANGED receipt
    BY <1>1, <1>3, <1>4, <1>5, <1>6, <1>7, <1>8, SweepStep
<1>9. CASE MarkSynced(s) /\ receipt' # receipt
    <2>1. PICK t : t = sweep[s].now
        OBVIOUS
    <2>2. t \in Tap /\ Backed(t)
        BY <1>9, <2>1 DEF MarkSynced, SweepAt, ReceiptInv, SweepOK
    <2>3. PICK row : row = [receipt[t] EXCEPT !.synced = TRUE]
        OBVIOUS
    <2>4. receipt[t] # None /\ receipt' = [receipt EXCEPT ![t] = row]
        BY <1>9, <2>1, <2>3 DEF MarkSynced
    <2>5. row \in ReceiptRow
        <3>1. receipt[t] \in ReceiptRow
            BY <1>7, <2>2, <2>4
        <3>2. QED
            BY <2>3, <3>1 DEF ReceiptRow
    <2>6. /\ receipt' \in [Tap -> ReceiptRow \cup {None}]
          /\ \A u \in Tap : receipt'[u] # receipt[u] => Backed(u)
        BY <1>7, <2>2, <2>4, <2>5
    <2>7. QED
        BY <1>1, <1>3, <1>4, <1>5, <1>6, <2>6, SweepStep
<1>10. QED
    BY <1>8, <1>9 DEF UpdateRetryInfo

\* Only rows marked as synced are removed.
LEMMA EndSweepInv ==
    ASSUME ReceiptInv, NEW s \in Sweep, EndSweep(s)
    PROVE  ReceiptInv'
<1>1. PICK old \in SUBSET {t \in Tap : receipt[t] # None /\ receipt[t].synced} :
          receipt' = [t \in Tap |-> IF t \in old THEN None ELSE receipt[t]]
    BY DEF EndSweep
<1>2. /\ sweep' = [sweep EXCEPT ![s] = None]
      /\ UNCHANGED <<tap, taken, told>>
    BY DEF EndSweep
<1>3. \A t \in Tap : receipt'[t] # receipt[t] => Backed(t)
    BY <1>1 DEF ReceiptInv, RowOK
<1>4. /\ receipt' \in [Tap -> ReceiptRow \cup {None}]
      /\ taken \subseteq taken'
      /\ taken' \subseteq Goods
    BY <1>1, <1>2 DEF ReceiptInv, ReceiptTypeOK
<1>5. QED
    BY <1>2, <1>3, <1>4, SweepStep

\* The rows outlive the app, and the taps made stay made.
LEMMA CrashReceiptsInv ==
    ASSUME ReceiptInv, CrashReceipts
    PROVE  ReceiptInv'
<1>1. /\ sweep' = [s \in Sweep |-> None]
      /\ tap' = [t \in Tap |->
            IF tap[t] = None THEN None ELSE [tap[t] EXCEPT !.pc = "over"]]
      /\ UNCHANGED <<receipt, taken, told>>
    BY DEF CrashReceipts, StopSweeps
<1>2. ASSUME NEW t \in Tap
      PROVE  /\ tap'[t] \in TapRow \cup {None}
             /\ Started(t)' <=> Started(t)
             /\ Backed(t)' <=> Backed(t)
    <2>1. CASE tap[t] = None
        BY <1>1, <2>1 DEF Started, Backed
    <2>2. CASE tap[t] # None
        <3>1. PICK x : x = [tap[t] EXCEPT !.pc = "over"]
            OBVIOUS
        <3>2. tap'[t] = x
            BY <1>1, <2>2, <3>1
        <3>3. tap[t] \in TapRow
            BY <2>2 DEF ReceiptInv, ReceiptTypeOK
        <3>4. x \in TapRow /\ x.goods = tap[t].goods
            BY <3>1, <3>3 DEF TapRow
        <3>5. x # None
            BY <3>4, ConfirmationAssumption
        <3>6. QED
            BY <1>1, <2>2, <3>2, <3>4, <3>5 DEF Started, Backed
    <2>3. QED
        BY <2>1, <2>2
<1>3. ReceiptTypeOK'
    <2>1. tap' \in [Tap -> TapRow \cup {None}]
        BY <1>1, <1>2
    <2>2. QED
        BY <1>1, <2>1 DEF ReceiptInv, ReceiptTypeOK
<1>4. \A t \in Tap : RowOK(t)'
    BY <1>1, <1>2 DEF ReceiptInv, RowOK
<1>5. \A s \in Sweep : SweepOK(s)'
    BY <1>1 DEF SweepOK
<1>6. ASSUME NEW t \in told'
      PROVE  Started(t)' /\ (Backed(t)' \/ t \in Unsynced')
    BY <1>1, <1>2 DEF ReceiptInv, ReceiptTypeOK, Unsynced
<1>7. QED
    BY <1>3, <1>4, <1>5, <1>6 DEF ReceiptInv

LEMMA ReceiptStepInv == ReceiptInv /\ [ReceiptNext]_receiptVars => ReceiptInv'
<1> SUFFICES ASSUME ReceiptInv, [ReceiptNext]_receiptVars PROVE ReceiptInv'
    OBVIOUS
<1>1. CASE ReceiptStep
    BY <1>1, ConfirmTapInv, CallConfirmInv, QueueConfirmationInv, StartSweepInv,
       SendReceiptInv, MarkSyncedInv, EndSweepInv DEF ReceiptStep
<1>2. CASE UNCHANGED receiptVars
    BY <1>2 DEF receiptVars, ReceiptInv, ReceiptTypeOK, RowOK, SweepOK, Started,
                Backed, Unsynced
<1>3. CASE CrashReceipts
    BY <1>3, CrashReceiptsInv
<1>4. QED
    BY <1>1, <1>2, <1>3 DEF ReceiptNext

LEMMA ReceiptsInvariant == ServicesSpec => []ReceiptInv
<1>1. ServicesInit => ReceiptInv
    BY DEF ServicesInit, ReceiptInit, ReceiptInv, ReceiptTypeOK, RowOK, SweepOK
<1>2. ReceiptInv /\ [ServicesNext]_serviceVars => ReceiptInv'
    <2>1. [ServicesNext]_serviceVars => [ReceiptNext]_receiptVars
        BY DEF ServicesNext, serviceVars, partVars
    <2>2. QED
        BY <2>1, ReceiptStepInv
<1>3. QED
    BY <1>1, <1>2, PTL DEF ServicesSpec

\* What the phone has shown as collected the server has confirmed, or it will
\* be sent again: for any number of taps, syncs at once and crashes.
THEOREM ConfirmationsAreBacked == ServicesSpec => []ConfirmedIsBacked
<1>1. ReceiptInv => ConfirmedIsBacked
    BY DEF ReceiptInv, ConfirmedIsBacked, Backed
<1>2. QED
    BY <1>1, ReceiptsInvariant, PTL

-----------------------------------------------------------------------------
(* Memberships, with one caller. *)

\* A row belongs to a group that exists; one that is not active is that of a
\* user who lapsed; a deleted one is not active.
RowsOK ==
    \A g \in Group, u \in Person :
        LET row == member[<<g, u>>] IN
        row # None =>
            /\ group[g] # None
            /\ row.status # "ACTIVE" => u \in lapsed
            /\ row.deleted => row.status # "ACTIVE"

\* OneChairPerUser without a count.
OneChair == \A u \in Person \ lapsed : \A g, h \in Chaired(u) : g = h

\* What the reads of a call have found, and still holds when it writes.
CallOK(call) ==
    /\ call.pc \in {"found", "foundSavings"} =>
          /\ group[call.group] = None
          /\ call.type = "SAVINGS" => Chaired(call.user) = {}
    /\ call.pc = "foundSavings" => call.type = "SAVINGS"
    /\ call.pc = "join" =>
          /\ group[call.group] # None
          /\ call.role = "CHAIRPERSON" /\ group[call.group].type = "SAVINGS"
                => Chaired(call.user) = {}
    /\ call.pc \in {"rejoin", "update", "remove"} =>
          Present(call.group, call.user)
    /\ call.pc = "rejoin" =>
          member[<<call.group, call.user>>].status # "ACTIVE"
    /\ call.pc = "update" =>
          (call.role = "CHAIRPERSON" /\ group[call.group].type = "SAVINGS"
              => Chaired(call.user) \subseteq {call.group})
    /\ call.pc = "dissolve" => group[call.group] # None

MemberInv ==
    /\ MemberTypeOK
    /\ RowsOK
    /\ OneChair
    /\ \A c \in MemberCaller : memberCall[c] # None => CallOK(memberCall[c])

\* A call begins: nothing is written yet.
LEMMA MemberStartInv ==
    ASSUME MemberInv, NEW c \in MemberCaller, MemberCaller = {c},
           NEW call \in MemberCall, CallOK(call), MemberStart(c, call)
    PROVE  MemberInv'
<1>1. /\ memberCall' = [memberCall EXCEPT ![c] = call]
      /\ UNCHANGED <<group, member, lapsed>>
    BY DEF MemberStart
<1>2. memberCall'[c] = call
    BY <1>1 DEF MemberInv, MemberTypeOK
<1>3. CallOK(call)'
    BY <1>1 DEF CallOK, Chaired, Chairs, GuardAllows, Present
<1>4. \A d \in MemberCaller : memberCall'[d] # None => CallOK(memberCall[d])'
    BY <1>2, <1>3 DEF CallOK
<1>5. MemberTypeOK'
    BY <1>1 DEF MemberInv, MemberTypeOK
<1>6. RowsOK'
    BY <1>1 DEF MemberInv, RowsOK
<1>7. OneChair'
    BY <1>1 DEF MemberInv, OneChair, Chaired, Chairs, GuardAllows, Present
<1>8. QED
    BY <1>4, <1>5, <1>6, <1>7 DEF MemberInv

\* A call writes the row of one user in one group, which it may just have
\* founded, and returns.  If the row makes a chairperson of somebody who never
\* lapsed, it is the only savings group that the user chairs.
LEMMA MemberWriteInv ==
    ASSUME MemberInv, NEW c \in MemberCaller, MemberCaller = {c},
           MemberReturn(c), NEW g \in Group, NEW u \in Person,
           NEW row \in MemberRow,
           member' = [member EXCEPT ![<<g, u>>] = row],
           group' \in [Group -> GroupRow \cup {None}],
           \A h \in Group : h # g => group'[h] = group[h],
           group'[g] # None, group[g] # None => group'[g] = group[g],
           lapsed \subseteq lapsed', lapsed' \subseteq Person,
           row.status # "ACTIVE" => u \in lapsed',
           row.deleted => row.status # "ACTIVE",
           /\ row.status = "ACTIVE" /\ row.role = "CHAIRPERSON"
           /\ group'[g].type = "SAVINGS" /\ ~ group'[g].deleted
           /\ u \notin lapsed'
           => Chaired(u) \subseteq {g}
    PROVE  MemberInv'
<1>1. /\ memberCall'[c] = None
      /\ memberCall' \in [MemberCaller -> MemberCall \cup {None}]
    BY DEF MemberReturn, MemberInv, MemberTypeOK
<1>2. row # None
    BY MembershipAssumption
<1>3. member \in [Group \X Person -> MemberRow \cup {None}]
    BY DEF MemberInv, MemberTypeOK
<1>4. /\ member' \in [Group \X Person -> MemberRow \cup {None}]
      /\ member'[<<g, u>>] = row
      /\ \A h \in Group, v \in Person :
            h # g \/ v # u => member'[<<h, v>>] = member[<<h, v>>]
    <2>1. <<g, u>> \in Group \X Person
        OBVIOUS
    <2>2. \A h \in Group, v \in Person :
              h # g \/ v # u => <<h, v>> \in Group \X Person /\ <<h, v>> # <<g, u>>
        OBVIOUS
    <2>3. QED
        BY <1>3, <2>1, <2>2
<1>5. MemberTypeOK'
    BY <1>1, <1>4 DEF MemberTypeOK
<1>6. RowsOK'
    <2>1. SUFFICES ASSUME NEW h \in Group, NEW v \in Person,
                          member'[<<h, v>>] # None
                   PROVE  /\ group'[h] # None
                          /\ member'[<<h, v>>].status # "ACTIVE" => v \in lapsed'
                          /\ member'[<<h, v>>].deleted
                                => member'[<<h, v>>].status # "ACTIVE"
        BY DEF RowsOK
    <2>2. CASE h = g /\ v = u
        BY <1>4, <2>2
    <2>3. CASE h # g \/ v # u
        BY <1>4, <2>1, <2>3 DEF MemberInv, RowsOK
    <2>4. QED
        BY <2>2, <2>3
<1>7. ASSUME NEW v \in Person, NEW h \in Chaired(v)', h # g \/ v # u
      PROVE  h \in Chaired(v)
    <2>1. h \in Group /\ member'[<<h, v>>] = member[<<h, v>>]
        BY <1>4, <1>7 DEF Chaired
    <2>2. member[<<h, v>>] # None
        BY <1>7, <2>1 DEF Chaired, Chairs, GuardAllows, Present
    <2>3. group'[h] = group[h]
        BY <2>1, <2>2 DEF MemberInv, RowsOK
    <2>4. QED
        BY <1>7, <2>1, <2>3 DEF Chaired, Chairs, GuardAllows, Present
<1>8. g \in Chaired(u)' =>
          /\ row.status = "ACTIVE" /\ row.role = "CHAIRPERSON"
          /\ group'[g].type = "SAVINGS" /\ ~ group'[g].deleted
    BY <1>4 DEF Chaired, Chairs, GuardAllows, Present
<1>9. OneChair'
    <2>1. SUFFICES ASSUME NEW v \in Person, v \notin lapsed',
                          NEW h \in Chaired(v)', NEW k \in Chaired(v)'
                   PROVE  h = k
        BY DEF OneChair
    <2>2. CASE v = u /\ (h = g \/ k = g)
        <3>1. Chaired(u) \subseteq {g}
            BY <1>8, <2>1, <2>2
        <3>2. QED
            BY <1>7, <2>1, <2>2, <3>1
    <2>3. CASE ~ (v = u /\ (h = g \/ k = g))
        <3>1. h \in Chaired(v) /\ k \in Chaired(v)
            BY <1>7, <2>3
        <3>2. QED
            BY <2>1, <3>1 DEF MemberInv, OneChair
    <2>4. QED
        BY <2>2, <2>3
<1>10. QED
    BY <1>1, <1>5, <1>6, <1>9 DEF MemberInv

\* A call returns and has written nothing.
LEMMA MemberReturnInv ==
    ASSUME MemberInv, NEW c \in MemberCaller, MemberCaller = {c},
           MemberReturn(c), UNCHANGED <<group, member, lapsed>>
    PROVE  MemberInv'
<1>1. /\ memberCall'[c] = None
      /\ memberCall' \in [MemberCaller -> MemberCall \cup {None}]
    BY DEF MemberReturn, MemberInv, MemberTypeOK
<1>2. MemberTypeOK' /\ RowsOK'
    BY <1>1 DEF MemberInv, MemberTypeOK, RowsOK
<1>3. OneChair'
    BY DEF MemberInv, OneChair, Chaired, Chairs, GuardAllows, Present
<1>4. QED
    BY <1>1, <1>2, <1>3 DEF MemberInv

\* Each read leads to a call of which CallOK holds.
LEMMA MemberReadsInv ==
    ASSUME MemberInv, NEW c \in MemberCaller, MemberCaller = {c},
           NEW g \in Group, NEW u \in Person, NEW by \in Person,
           NEW type \in GroupType, NEW role \in Role,
           NEW newRole \in Role \cup {None},
           NEW newStatus \in MemberStatus \cup {None},
           \/ ReadForGroup(c, g, type, u)
           \/ ReadForSavingsGroup(c, g, u)
           \/ ReadForDissolve(c, g, by)
           \/ ReadForJoin(c, g, u, role, by)
           \/ ReadForUpdateMember(c, g, u, newRole, newStatus, by)
           \/ ReadForRemove(c, g, u, by)
    PROVE  MemberInv'
<1>1. CASE ReadForGroup(c, g, type, u)
    <2>1. PICK call : call = [pc |-> "found", group |-> g, user |-> u, type |-> type]
        OBVIOUS
    <2>2. call \in MemberCall /\ CallOK(call) /\ MemberStart(c, call)
        BY <1>1, <2>1 DEF ReadForGroup, FreshGroup, MemberCall, CallOK
    <2>3. QED
        BY <2>2, MemberStartInv
<1>2. CASE ReadForSavingsGroup(c, g, u)
    <2>1. PICK call : call = [pc |-> "foundSavings", group |-> g, user |-> u,
                              type |-> "SAVINGS"]
        OBVIOUS
    <2>2. call \in MemberCall /\ CallOK(call) /\ MemberStart(c, call)
        BY <1>2, <2>1 DEF ReadForSavingsGroup, FreshGroup, MemberCall, CallOK,
                          GroupType
    <2>3. QED
        BY <2>2, MemberStartInv
<1>3. CASE ReadForDissolve(c, g, by)
    <2>1. PICK call : call = [pc |-> "dissolve", group |-> g]
        OBVIOUS
    <2>2. call \in MemberCall /\ CallOK(call) /\ MemberStart(c, call)
        BY <1>3, <2>1 DEF ReadForDissolve, MemberCall, CallOK
    <2>3. QED
        BY <2>2, MemberStartInv
<1>4. CASE ReadForJoin(c, g, u, role, by)
    <2>1. PICK call : call = [pc |-> IF Present(g, u) THEN "rejoin" ELSE "join",
                              group |-> g, user |-> u, role |-> role]
        OBVIOUS
    <2>2. group[g] # None
        BY <1>4 DEF ReadForJoin, GuardAllows, Present, MemberInv, RowsOK
    <2>3. /\ call \in MemberCall
          /\ call.pc = IF Present(g, u) THEN "rejoin" ELSE "join"
          /\ call.group = g /\ call.user = u /\ call.role = role
        BY <2>1 DEF MemberCall
    <2>4. CallOK(call)
        BY <1>4, <2>2, <2>3 DEF ReadForJoin, CallOK
    <2>5. QED
        BY <1>4, <2>1, <2>3, <2>4, MemberStartInv DEF ReadForJoin
<1>5. CASE ReadForUpdateMember(c, g, u, newRole, newStatus, by)
    <2>1. PICK call : call = [pc |-> "update", group |-> g, user |-> u,
                              role |-> newRole, status |-> newStatus]
        OBVIOUS
    <2>2. call \in MemberCall /\ CallOK(call) /\ MemberStart(c, call)
        BY <1>5, <2>1 DEF ReadForUpdateMember, MayChair, MemberCall, CallOK
    <2>3. QED
        BY <2>2, MemberStartInv
<1>6. CASE ReadForRemove(c, g, u, by)
    <2>1. PICK call : call = [pc |-> "remove", group |-> g, user |-> u]
        OBVIOUS
    <2>2. call \in MemberCall /\ CallOK(call) /\ MemberStart(c, call)
        BY <1>6, <2>1 DEF ReadForRemove, MemberCall, CallOK
    <2>3. QED
        BY <2>2, MemberStartInv
<1>7. QED
    BY <1>1, <1>2, <1>3, <1>4, <1>5, <1>6

\* The founder of a savings group chairs no other.
LEMMA FoundInv ==
    ASSUME MemberInv, NEW c \in MemberCaller, MemberCaller = {c},
           InsertGroup(c) \/ InsertSavingsGroup(c)
    PROVE  MemberInv'
<1>1. PICK call : call = memberCall[c]
    OBVIOUS
<1>2. /\ call \in MemberCall /\ CallOK(call)
      /\ call.pc \in {"found", "foundSavings"}
      /\ MemberReturn(c)
      /\ Found(call.group, call.type, call.user)
    BY <1>1 DEF InsertGroup, InsertSavingsGroup, MemberAt, MemberInv,
                MemberTypeOK, CallOK
<1>3. PICK g \in Group, u \in Person, type \in GroupType :
          g = call.group /\ u = call.user /\ type = call.type
    BY <1>2 DEF MemberCall
<1>4. group[g] = None /\ (type = "SAVINGS" => Chaired(u) = {})
    BY <1>2, <1>3 DEF CallOK
<1>5. PICK row : row = [role |-> "CHAIRPERSON", status |-> "ACTIVE",
                        deleted |-> FALSE]
    OBVIOUS
<1>6. /\ member' = [member EXCEPT ![<<g, u>>] = row]
      /\ group' = [group EXCEPT ![g] = [type |-> type, deleted |-> FALSE]]
      /\ lapsed' = lapsed
    BY <1>2, <1>3, <1>5 DEF Found
<1>7. /\ row \in MemberRow
      /\ row.status = "ACTIVE"
    BY <1>5, MembershipAssumption DEF MemberRow, MemberStatus
<1>8. row.deleted = FALSE
    BY <1>5
<1>9. PICK new : new = [type |-> type, deleted |-> FALSE]
    OBVIOUS
<1>10. new \in GroupRow /\ new.type = type
    BY <1>9 DEF GroupRow
<1>11. new # None
    BY <1>10, MembershipAssumption
<1>12. /\ group' \in [Group -> GroupRow \cup {None}]
       /\ group'[g] = new
       /\ \A h \in Group : h # g => group'[h] = group[h]
    BY <1>6, <1>9, <1>10 DEF MemberInv, MemberTypeOK
<1>13. lapsed \subseteq lapsed' /\ lapsed' \subseteq Person
    BY <1>6 DEF MemberInv, MemberTypeOK
<1>14. group'[g].type = "SAVINGS" => Chaired(u) \subseteq {g}
    BY <1>4, <1>10, <1>12
<1>15. row.status # "ACTIVE" => u \in lapsed'
    BY <1>7
<1>16. row.deleted => row.status # "ACTIVE"
    BY <1>8
<1>17. group'[g] # None /\ (group[g] # None => group'[g] = group[g])
    BY <1>4, <1>11, <1>12
<1>18. QED
    BY <1>2, <1>6, <1>7, <1>12, <1>13, <1>14, <1>15, <1>16, <1>17,
       MemberWriteInv

\* The row that takes a user in is written unless one was there before.
LEMMA JoinInv ==
    ASSUME MemberInv, NEW c \in MemberCaller, MemberCaller = {c}, Join(c)
    PROVE  MemberInv'
<1>1. PICK call : call = memberCall[c]
    OBVIOUS
<1>2. call \in MemberCall /\ CallOK(call) /\ call.pc = "join"
    BY <1>1 DEF Join, MemberAt, MemberInv, MemberTypeOK
<1>3. PICK g \in Group, u \in Person, role \in Role :
          g = call.group /\ u = call.user /\ role = call.role
    BY <1>2 DEF MemberCall
<1>4. /\ group[g] # None
      /\ role = "CHAIRPERSON" /\ group[g].type = "SAVINGS" => Chaired(u) = {}
    BY <1>2, <1>3 DEF CallOK
<1>5. MemberReturn(c) /\ group' = group /\ lapsed' = lapsed
    BY DEF Join
<1>6. CASE member[<<g, u>>] # None
    <2>1. member' = member
        BY <1>1, <1>3, <1>6 DEF Join
    <2>2. QED
        BY <1>5, <2>1, MemberReturnInv
<1>7. CASE member[<<g, u>>] = None
    <2>1. PICK row : row = [role |-> role, status |-> "ACTIVE", deleted |-> FALSE]
        OBVIOUS
    <2>2. member' = [member EXCEPT ![<<g, u>>] = row]
        BY <1>1, <1>3, <1>7, <2>1 DEF Join
    <2>3. row \in MemberRow /\ row.status = "ACTIVE" /\ row.role = role
        BY <2>1 DEF MemberRow, MemberStatus
    <2>4. row.deleted = FALSE
        BY <2>1
    <2>5. row.deleted => row.status # "ACTIVE"
        BY <2>4
    <2>6. /\ group' \in [Group -> GroupRow \cup {None}]
          /\ \A h \in Group : h # g => group'[h] = group[h]
          /\ group'[g] # None /\ group'[g] = group[g]
          /\ lapsed \subseteq lapsed' /\ lapsed' \subseteq Person
        BY <1>4, <1>5 DEF MemberInv, MemberTypeOK
    <2>7. QED
        BY <1>4, <1>5, <2>2, <2>3, <2>5, <2>6, MemberWriteInv
<1>8. QED
    BY <1>6, <1>7

\* Who takes a membership up again has lapsed.
LEMMA RejoinInv ==
    ASSUME MemberInv, NEW c \in MemberCaller, MemberCaller = {c}, Rejoin(c)
    PROVE  MemberInv'
<1>1. PICK call : call = memberCall[c]
    OBVIOUS
<1>2. call \in MemberCall /\ CallOK(call) /\ call.pc = "rejoin"
    BY <1>1 DEF Rejoin, MemberAt, MemberInv, MemberTypeOK
<1>3. PICK g \in Group, u \in Person, role \in Role :
          g = call.group /\ u = call.user /\ role = call.role
    BY <1>2 DEF MemberCall
<1>4. PICK old : old = member[<<g, u>>]
    OBVIOUS
<1>5. /\ old # None /\ old.status # "ACTIVE" /\ ~ old.deleted
    BY <1>2, <1>3, <1>4 DEF CallOK, Present
<1>6. old \in MemberRow
    BY <1>4, <1>5 DEF MemberInv, MemberTypeOK
<1>7. u \in lapsed /\ group[g] # None
    BY <1>4, <1>5 DEF MemberInv, RowsOK
<1>8. PICK row : row = [old EXCEPT !.status = "ACTIVE", !.role = role]
    OBVIOUS
<1>9. /\ row \in MemberRow
      /\ row.status = "ACTIVE"
    BY <1>6, <1>8 DEF MemberRow, MemberStatus
<1>10. row.deleted = old.deleted
    BY <1>6, <1>8 DEF MemberRow
<1>11. row.deleted => row.status # "ACTIVE"
    BY <1>5, <1>10
<1>12. member' = [member EXCEPT ![<<g, u>>] = row]
    <2>1. member' = [member EXCEPT ![<<g, u>>].status = "ACTIVE",
                                   ![<<g, u>>].role = role]
        BY <1>1, <1>3 DEF Rejoin
    <2>2. member \in [Group \X Person -> MemberRow \cup {None}]
        BY DEF MemberInv, MemberTypeOK
    <2>3. QED
        BY <1>4, <1>6, <1>8, <2>1, <2>2 DEF MemberRow
<1>13. MemberReturn(c) /\ group' = group /\ lapsed' = lapsed
    BY DEF Rejoin
<1>14. /\ group' \in [Group -> GroupRow \cup {None}]
       /\ \A h \in Group : h # g => group'[h] = group[h]
       /\ group'[g] # None /\ group'[g] = group[g]
       /\ lapsed \subseteq lapsed' /\ lapsed' \subseteq Person
    BY <1>7, <1>13 DEF MemberInv, MemberTypeOK
<1>15. QED
    BY <1>7, <1>9, <1>11, <1>12, <1>13, <1>14, MemberWriteInv

\* An update makes a chairperson only of who chairs no other savings group, or
\* lets a chairperson be one; whoever it takes out of ACTIVE has lapsed.
LEMMA UpdateMemberInv ==
    ASSUME MemberInv, NEW c \in MemberCaller, MemberCaller = {c}, UpdateMember(c)
    PROVE  MemberInv'
<1>1. PICK call : call = memberCall[c]
    OBVIOUS
<1>2. call \in MemberCall /\ CallOK(call) /\ call.pc = "update"
    BY <1>1 DEF UpdateMember, MemberAt, MemberInv, MemberTypeOK
<1>3. PICK g \in Group, u \in Person,
           newRole \in Role \cup {None}, newStatus \in MemberStatus \cup {None} :
          /\ g = call.group /\ u = call.user
          /\ newRole = call.role /\ newStatus = call.status
    BY <1>2 DEF MemberCall
<1>4. PICK old : old = member[<<g, u>>]
    OBVIOUS
<1>5. old # None /\ ~ old.deleted
    BY <1>2, <1>3, <1>4 DEF CallOK, Present
<1>6. old \in MemberRow
    BY <1>4, <1>5 DEF MemberInv, MemberTypeOK
<1>7. group[g] # None /\ (old.status # "ACTIVE" => u \in lapsed)
    BY <1>4, <1>5 DEF MemberInv, RowsOK
<1>8. PICK row : row = [old EXCEPT !.role = Given(newRole, @),
                                   !.status = Given(newStatus, @)]
    OBVIOUS
<1>9. /\ row \in MemberRow
      /\ row.role = Given(newRole, old.role)
      /\ row.status = Given(newStatus, old.status)
    BY <1>6, <1>8 DEF MemberRow, Given
<1>10. row.deleted = old.deleted
    BY <1>6, <1>8 DEF MemberRow
<1>11. row.deleted => row.status # "ACTIVE"
    BY <1>5, <1>10
<1>12. member' = [member EXCEPT ![<<g, u>>] = row]
    <2>1. member' = [member EXCEPT ![<<g, u>>].role = Given(newRole, @),
                                   ![<<g, u>>].status = Given(newStatus, @)]
        BY <1>1, <1>3 DEF UpdateMember
    <2>2. member \in [Group \X Person -> MemberRow \cup {None}]
        BY DEF MemberInv, MemberTypeOK
    <2>3. QED
        BY <1>4, <1>6, <1>8, <2>1, <2>2 DEF MemberRow, Given
<1>13. /\ MemberReturn(c) /\ group' = group
       /\ lapsed' = IF newStatus = "LEFT" THEN lapsed \cup {u} ELSE lapsed
    BY <1>1, <1>3 DEF UpdateMember
<1>14. /\ group' \in [Group -> GroupRow \cup {None}]
       /\ \A h \in Group : h # g => group'[h] = group[h]
       /\ group'[g] # None /\ group'[g] = group[g]
       /\ lapsed \subseteq lapsed' /\ lapsed' \subseteq Person
    BY <1>7, <1>13 DEF MemberInv, MemberTypeOK
<1>15. row.status # "ACTIVE" => u \in lapsed'
    BY <1>3, <1>7, <1>9, <1>13 DEF Given, MemberStatus
<1>16. ASSUME row.role = "CHAIRPERSON", group[g].type = "SAVINGS",
              ~ group[g].deleted, u \notin lapsed'
       PROVE  Chaired(u) \subseteq {g}
    <2>1. CASE newRole = "CHAIRPERSON"
        BY <1>2, <1>3, <1>16, <2>1 DEF CallOK
    <2>2. CASE newRole # "CHAIRPERSON"
        <3>1. old.role = "CHAIRPERSON" /\ old.status = "ACTIVE"
            BY <1>7, <1>9, <1>14, <1>16, <2>2 DEF Given
        <3>2. g \in Chaired(u)
            BY <1>4, <1>5, <1>7, <1>16, <3>1
               DEF Chaired, Chairs, GuardAllows, Present
        <3>3. QED
            BY <1>14, <1>16, <3>2 DEF MemberInv, OneChair
    <2>3. QED
        BY <2>1, <2>2
<1>17. QED
    BY <1>9, <1>11, <1>12, <1>13, <1>14, <1>15, <1>16, MemberWriteInv

\* Who is removed has lapsed, and the row is no longer active.
LEMMA RemoveMemberInv ==
    ASSUME MemberInv, NEW c \in MemberCaller, MemberCaller = {c}, RemoveMember(c)
    PROVE  MemberInv'
<1>1. PICK call : call = memberCall[c]
    OBVIOUS
<1>2. call \in MemberCall /\ CallOK(call) /\ call.pc = "remove"
    BY <1>1 DEF RemoveMember, MemberAt, MemberInv, MemberTypeOK
<1>3. PICK g \in Group, u \in Person : g = call.group /\ u = call.user
    BY <1>2 DEF MemberCall
<1>4. PICK old : old = member[<<g, u>>]
    OBVIOUS
<1>5. old # None
    BY <1>2, <1>3, <1>4 DEF CallOK, Present
<1>6. old \in MemberRow /\ group[g] # None
    BY <1>4, <1>5 DEF MemberInv, MemberTypeOK, RowsOK
<1>7. PICK row : row = [old EXCEPT !.status = "LEFT", !.deleted = TRUE]
    OBVIOUS
<1>8. row \in MemberRow /\ row.status = "LEFT"
    BY <1>6, <1>7 DEF MemberRow, MemberStatus
<1>9. member' = [member EXCEPT ![<<g, u>>] = row]
    <2>1. member' = [member EXCEPT ![<<g, u>>].status = "LEFT",
                                   ![<<g, u>>].deleted = TRUE]
        BY <1>1, <1>3 DEF RemoveMember
    <2>2. member \in [Group \X Person -> MemberRow \cup {None}]
        BY DEF MemberInv, MemberTypeOK
    <2>3. QED
        BY <1>4, <1>6, <1>7, <2>1, <2>2 DEF MemberRow
<1>10. MemberReturn(c) /\ group' = group /\ lapsed' = lapsed \cup {u}
    BY <1>1, <1>3 DEF RemoveMember
<1>11. /\ group' \in [Group -> GroupRow \cup {None}]
       /\ \A h \in Group : h # g => group'[h] = group[h]
       /\ group'[g] # None /\ group'[g] = group[g]
       /\ lapsed \subseteq lapsed' /\ lapsed' \subseteq Person
       /\ u \in lapsed'
    BY <1>6, <1>10 DEF MemberInv, MemberTypeOK
<1>12. QED
    BY <1>8, <1>9, <1>10, <1>11, MemberWriteInv

\* A group that is dissolved is chaired by nobody.
LEMMA DissolveInv ==
    ASSUME MemberInv, NEW c \in MemberCaller, MemberCaller = {c}, Dissolve(c)
    PROVE  MemberInv'
<1>1. PICK call : call = memberCall[c]
    OBVIOUS
<1>2. call \in MemberCall /\ CallOK(call) /\ call.pc = "dissolve"
    BY <1>1 DEF Dissolve, MemberAt, MemberInv, MemberTypeOK
<1>3. PICK g \in Group : g = call.group
    BY <1>2 DEF MemberCall
<1>4. group[g] # None
    BY <1>2, <1>3 DEF CallOK
<1>5. PICK new : new = [group[g] EXCEPT !.deleted = TRUE]
    OBVIOUS
<1>6. group[g] \in GroupRow
    BY <1>4 DEF MemberInv, MemberTypeOK
<1>7. new \in GroupRow
    BY <1>5, <1>6 DEF GroupRow
<1>8. new.deleted
    BY <1>5, <1>6 DEF GroupRow
<1>9. new # None
    BY <1>7, MembershipAssumption
<1>10. /\ group' = [group EXCEPT ![g] = new]
       /\ UNCHANGED <<member, lapsed>>
       /\ MemberReturn(c)
    BY <1>1, <1>3, <1>5, <1>6 DEF Dissolve, GroupRow
<1>11. /\ group' \in [Group -> GroupRow \cup {None}]
       /\ group'[g] = new
       /\ \A h \in Group : h # g => group'[h] = group[h]
    BY <1>7, <1>10 DEF MemberInv, MemberTypeOK
<1>12. /\ memberCall'[c] = None
       /\ memberCall' \in [MemberCaller -> MemberCall \cup {None}]
    BY <1>10 DEF MemberReturn, MemberInv, MemberTypeOK
<1>13. MemberTypeOK'
    BY <1>10, <1>11, <1>12 DEF MemberInv, MemberTypeOK
<1>14. RowsOK'
    <2>1. \A h \in Group : group[h] # None => group'[h] # None
        BY <1>9, <1>11
    <2>2. QED
        BY <1>10, <2>1 DEF MemberInv, RowsOK
<1>15. \A u \in Person : Chaired(u)' \subseteq Chaired(u)
    BY <1>8, <1>10, <1>11 DEF Chaired, Chairs, GuardAllows, Present
<1>16. OneChair'
    BY <1>10, <1>15 DEF MemberInv, OneChair
<1>17. QED
    BY <1>12, <1>13, <1>14, <1>16 DEF MemberInv

\* Nobody has founded anything yet.
LEMMA MemberInitInv == MemberInit => MemberInv
<1>1. SUFFICES ASSUME MemberInit PROVE MemberInv
    OBVIOUS
<1>2. MemberTypeOK
    BY <1>1 DEF MemberInit, MemberTypeOK
<1>3. RowsOK
    BY <1>1 DEF MemberInit, RowsOK
<1>4. OneChair
    BY <1>1 DEF MemberInit, OneChair, Chaired
<1>5. QED
    BY <1>1, <1>2, <1>3, <1>4 DEF MemberInit, MemberInv

\* Every step of the memberships keeps the invariant, as long as one request
\* is served at a time.
LEMMA MemberStepInv ==
    ASSUME NEW c, MemberCaller = {c}
    PROVE  MemberInv /\ [MemberNext]_memberVars => MemberInv'
<1>1. SUFFICES ASSUME MemberInv, [MemberNext]_memberVars PROVE MemberInv'
    OBVIOUS
<1>2. CASE UNCHANGED memberVars
    BY <1>1, <1>2 DEF memberVars, MemberInv, MemberTypeOK, RowsOK, OneChair,
                      CallOK, Chaired, Chairs, GuardAllows, Present
<1>3. CASE MemberNext
    <2>1. CASE \E g \in Group, u \in Person :
                  \/ \E type \in GroupType : ReadForGroup(c, g, type, u)
                  \/ ReadForSavingsGroup(c, g, u)
                  \/ ReadForDissolve(c, g, u)
                  \/ \E by \in Person :
                        \/ \E role \in Role : ReadForJoin(c, g, u, role, by)
                        \/ \E role \in Role \cup {None},
                             status \in MemberStatus \cup {None} :
                              ReadForUpdateMember(c, g, u, role, status, by)
                        \/ ReadForRemove(c, g, u, by)
        <3>1. \A g \in Group, u, by \in Person, type \in GroupType,
                 role \in Role, newRole \in Role \cup {None},
                 newStatus \in MemberStatus \cup {None} :
                  \/ ReadForGroup(c, g, type, u)
                  \/ ReadForSavingsGroup(c, g, u)
                  \/ ReadForDissolve(c, g, by)
                  \/ ReadForJoin(c, g, u, role, by)
                  \/ ReadForUpdateMember(c, g, u, newRole, newStatus, by)
                  \/ ReadForRemove(c, g, u, by)
                  => MemberInv'
            BY <1>1, MemberReadsInv
        <3>2. "SAVINGS" \in GroupType /\ "CHAIRPERSON" \in Role
            BY MembershipAssumption DEF GroupType
        <3>3. QED
            BY <2>1, <3>1, <3>2
    <2>2. CASE InsertGroup(c) \/ InsertSavingsGroup(c)
        BY <1>1, <2>2, FoundInv
    <2>3. CASE Dissolve(c)
        BY <1>1, <2>3, DissolveInv
    <2>4. CASE Join(c)
        BY <1>1, <2>4, JoinInv
    <2>5. CASE Rejoin(c)
        BY <1>1, <2>5, RejoinInv
    <2>6. CASE UpdateMember(c)
        BY <1>1, <2>6, UpdateMemberInv
    <2>7. CASE RemoveMember(c)
        BY <1>1, <2>7, RemoveMemberInv
    <2>8. QED
        BY <1>3, <2>1, <2>2, <2>3, <2>4, <2>5, <2>6, <2>7 DEF MemberNext
<1>4. QED
    BY <1>1, <1>2, <1>3

\* The invariant holds of the services while requests about memberships are
\* served one at a time.
LEMMA MembersInvariant ==
    ASSUME NEW c, MemberCaller = {c}
    PROVE  ServicesSpec => []MemberInv
<1>1. ServicesInit => MemberInv
    BY MemberInitInv DEF ServicesInit
<1>2. MemberInv /\ [ServicesNext]_serviceVars => MemberInv'
    <2>1. [ServicesNext]_serviceVars => [MemberNext]_memberVars
        BY DEF ServicesNext, serviceVars, partVars
    <2>2. QED
        BY <2>1, MemberStepInv
<1>3. QED
    BY <1>1, <1>2, PTL DEF ServicesSpec

\* Requests that do not overlap leave nobody who never lapsed with two savings
\* groups to chair: for any number of users, groups and roles.
THEOREM OneChairEach ==
    ASSUME NEW c, MemberCaller = {c}
    PROVE  ServicesSpec => []OneChairPerUser
<1>1. ASSUME MemberInv PROVE OneChairPerUser
    <2>1. SUFFICES ASSUME NEW u \in Person \ lapsed
                   PROVE  Cardinality(Chaired(u)) <= 1
        BY DEF OneChairPerUser
    <2>2. CASE Chaired(u) = {}
        BY <2>2, FS_EmptySet
    <2>3. CASE Chaired(u) # {}
        <3>1. PICK g : g \in Chaired(u)
            BY <2>3
        <3>2. Chaired(u) = {g}
            BY <1>1, <3>1 DEF MemberInv, OneChair
        <3>3. Cardinality(Chaired(u)) = 1
            BY <3>2, FS_Singleton
        <3>4. QED
            BY <3>3
    <2>4. QED
        BY <2>2, <2>3
<1>2. QED
    BY <1>1, MembersInvariant, PTL

\* Requests that do not overlap leave the two guards with the same answer.
THEOREM GuardsAnswerAlike ==
    ASSUME NEW c, MemberCaller = {c}
    PROVE  ServicesSpec => []GuardsAgree
<1>1. ASSUME MemberInv PROVE GuardsAgree
    <2>1. SUFFICES ASSUME NEW g \in Group, NEW u \in Person
                   PROVE  GroceryAllows(g, u, Role) <=> GuardAllows(g, u, Role)
        BY DEF GuardsAgree, GroceryAllows, GuardAllows
    <2>2. GroceryAllows(g, u, Role) => Present(g, u)
        BY <1>1 DEF MemberInv, RowsOK, GroceryAllows, Present
    <2>3. QED
        BY <2>2 DEF GroceryAllows, GuardAllows, Present
<1>2. QED
    BY <1>1, MembersInvariant, PTL

-----------------------------------------------------------------------------
(* Sessions: what a sign-in has live is due to one rotation at a time, or to   *)
(* refreshes that were forestalled.                                            *)

\* The live sessions of a sign-in.
LiveOf(o) == {s \in Second : LiveSession(s) /\ session[s].origin = o}

\* A refresh that is to open a session, and what it found is live no more.
Working(call) ==
    /\ call # None
    /\ \/ call.pc \in {"sign", "insert"}
       \/ call.pc = "revoke" /\ ~ LiveSession(call.token)

Work(o) ==
    {c \in SessionCaller :
        Working(sessionCall[c]) /\ sessionCall[c].origin = o}

\* A refresh goes on with the row it found, of a sign-in that has a row.
SessionCallOK(call) ==
    call # None =>
        /\ call.origin # None => session[call.origin] # None
        /\ call.pc \in {"revoke", "answer"} => session[call.token] # None
        /\ call.pc = "revoke" => session[call.token].origin = call.origin

SessionInv ==
    /\ SessionTypeOK
    /\ \A s \in Second : session[s] # None => session[session[s].origin] # None
    /\ \A c \in SessionCaller : SessionCallOK(sessionCall[c])
    /\ \A o \in Second :
          Cardinality(LiveOf(o)) + Cardinality(Work(o)) <= 1 + forestalled[o]

-----------------------------------------------------------------------------

\* All of these sets are finite.
LEMMA SessionSets ==
    ASSUME NEW S, S \subseteq Second \/ S \subseteq SessionCaller
    PROVE  IsFiniteSet(S) /\ Cardinality(S) \in Nat
<1>1. IsFiniteSet(Second)
    BY SessionAssumption, FS_Interval DEF Second
<1>2. IsFiniteSet(SessionCaller)
    BY SessionAssumption
<1>3. IsFiniteSet(S)
    BY <1>1, <1>2, FS_Subset
<1>4. QED
    BY <1>3, FS_CardinalityType

\* With no more live sessions and no more work a sign-in keeps its bound.
LEMMA NoMore ==
    ASSUME NEW L, NEW M, NEW V, NEW W, NEW f \in Nat, NEW g \in Nat,
           L \subseteq Second, V \subseteq SessionCaller, M \subseteq L,
           W \subseteq V, g >= f,
           Cardinality(L) + Cardinality(V) <= 1 + f
    PROVE  Cardinality(M) + Cardinality(W) <= 1 + g
<1>1. /\ IsFiniteSet(L) /\ IsFiniteSet(V)
      /\ Cardinality(L) \in Nat /\ Cardinality(V) \in Nat
      /\ Cardinality(M) \in Nat /\ Cardinality(W) \in Nat
    BY SessionSets
<1>2. Cardinality(M) <= Cardinality(L) /\ Cardinality(W) <= Cardinality(V)
    BY <1>1, FS_Subset
<1>3. QED
    BY <1>1, <1>2

\* One handler goes from one call to the next and no row changes.
LEMMA SessionCallStep ==
    ASSUME SessionInv, NEW c \in SessionCaller, NEW x \in SessionCall \cup {None},
           sessionCall' = [sessionCall EXCEPT ![c] = x],
           UNCHANGED <<clock, session, forestalled>>,
           handed' \subseteq {s \in Second : session[s] # None},
           SessionCallOK(x),
           Working(x) => x.origin = None \/ c \in Work(x.origin)
    PROVE  SessionInv'
<1>1. /\ sessionCall'[c] = x
      /\ \A d \in SessionCaller \ {c} : sessionCall'[d] = sessionCall[d]
    BY DEF SessionInv, SessionTypeOK
<1>2. SessionTypeOK'
    BY DEF SessionInv, SessionTypeOK
<1>3. \A call : /\ Working(call)' <=> Working(call)
                /\ SessionCallOK(call)' <=> SessionCallOK(call)
    BY DEF Working, SessionCallOK, LiveSession
<1>4. \A d \in SessionCaller : SessionCallOK(sessionCall[d])'
    BY <1>1 DEF SessionInv, SessionCallOK
<1>5. ASSUME NEW o \in Second
      PROVE  Cardinality(LiveOf(o)') + Cardinality(Work(o)') <= 1 + forestalled'[o]
    <2>1. LiveOf(o)' = LiveOf(o)
        BY DEF LiveOf, LiveSession
    <2>2. Work(o)' \subseteq Work(o)
        <3>1. SUFFICES ASSUME NEW d \in Work(o)' PROVE d \in Work(o)
            OBVIOUS
        <3>2. d \in SessionCaller /\ Working(sessionCall'[d])
              /\ sessionCall'[d].origin = o
            BY <3>1 DEF Work, Working, LiveSession
        <3>3. o # None
            BY SessionAssumption
        <3>4. QED
            BY <1>1, <3>2, <3>3 DEF Work
    <2>3. /\ LiveOf(o) \subseteq Second /\ Work(o) \subseteq SessionCaller
          /\ forestalled[o] \in Nat
          /\ Cardinality(LiveOf(o)) + Cardinality(Work(o)) <= 1 + forestalled[o]
        BY DEF LiveOf, Work, SessionInv, SessionTypeOK
    <2>4. QED
        BY <2>1, <2>2, <2>3, NoMore
<1>6. QED
    BY <1>2, <1>4, <1>5 DEF SessionInv

\* A live session is revoked; of the refreshes that had found it n or one more
\* go on, the one more being the one that revokes.
LEMMA RevokeStep ==
    ASSUME SessionInv, NEW s \in Second, LiveSession(s), Revoke(s), NEW n \in Nat,
           forestalled' = [forestalled EXCEPT ![session[s].origin] = @ + n],
           Cardinality(Finders(s)) <= n + 1,
           UNCHANGED <<clock, handed>>,
           sessionCall' \in [SessionCaller -> SessionCall \cup {None}],
           \A d \in SessionCaller :
               \/ sessionCall'[d] = sessionCall[d]
               \/ /\ d \in Finders(s)
                  /\ sessionCall'[d] # None
                  /\ sessionCall'[d].pc = "sign"
                  /\ sessionCall'[d].origin = sessionCall[d].origin
    PROVE  SessionInv'
<1>1. PICK row \in SessionRow : row = session[s]
    BY DEF SessionInv, SessionTypeOK, LiveSession
<1>2. PICK o \in Second : o = row.origin
    BY <1>1 DEF SessionRow
<1>3. PICK new : new = [row EXCEPT !.revoked = TRUE]
    OBVIOUS
<1>4. new \in SessionRow /\ new.origin = o /\ new.revoked
    BY <1>1, <1>2, <1>3 DEF SessionRow
<1>5. new # None /\ row # None /\ ~ row.revoked
    BY <1>1, <1>4, SessionAssumption DEF LiveSession
<1>6. /\ session' = [session EXCEPT ![s] = new]
      /\ session' \in [Second -> SessionRow \cup {None}]
    BY <1>1, <1>3, <1>4 DEF Revoke, SessionInv, SessionTypeOK
<1>7. /\ session'[s] = new
      /\ \A t \in Second \ {s} : session'[t] = session[t]
    BY <1>6 DEF SessionInv, SessionTypeOK
<1>8. \A t \in Second : /\ session'[t] # None <=> session[t] # None
                        /\ session[t] # None =>
                              session'[t].origin = session[t].origin
                        /\ LiveSession(t)' <=> LiveSession(t) /\ t # s
    BY <1>1, <1>2, <1>4, <1>5, <1>7 DEF LiveSession
<1>9. /\ forestalled' \in [Second -> Nat]
      /\ forestalled'[o] = forestalled[o] + n
      /\ \A p \in Second \ {o} : forestalled'[p] = forestalled[p]
      /\ \A p \in Second : forestalled[p] \in Nat
    BY <1>1, <1>2 DEF SessionInv, SessionTypeOK
<1>10. SessionTypeOK'
    BY <1>6, <1>8, <1>9 DEF SessionInv, SessionTypeOK
<1>11. \A t \in Second : session'[t] # None => session'[session'[t].origin] # None
    BY <1>6, <1>8 DEF SessionInv, SessionTypeOK, SessionRow
<1>12. ASSUME NEW d \in SessionCaller
       PROVE  SessionCallOK(sessionCall[d]) /\ SessionCallOK(sessionCall[d])'
    <2>1. /\ SessionCallOK(sessionCall[d])
          /\ sessionCall[d] \in SessionCall \cup {None}
          /\ sessionCall'[d] \in SessionCall \cup {None}
        BY DEF SessionInv, SessionTypeOK
    <2>2. sessionCall[d] # None =>
              /\ sessionCall[d].origin \in Second \cup {None}
              /\ sessionCall[d].pc \in {"revoke", "answer"} =>
                    sessionCall[d].token \in Second
        BY <2>1 DEF SessionCall
    <2>3. CASE sessionCall'[d] = sessionCall[d]
        BY <1>8, <2>1, <2>2, <2>3 DEF SessionCallOK
    <2>4. CASE /\ d \in Finders(s) /\ sessionCall'[d].pc = "sign"
               /\ sessionCall'[d].origin = sessionCall[d].origin
        BY <1>8, <2>1, <2>2, <2>4 DEF SessionCallOK, Finders, SessionAt
    <2>5. QED
        BY <2>1, <2>3, <2>4
<1>13. ASSUME NEW d \in Finders(s)
       PROVE  /\ d \in SessionCaller /\ sessionCall[d] # None
              /\ sessionCall[d].pc = "revoke" /\ sessionCall[d].token = s
              /\ sessionCall[d].origin = o
    BY <1>1, <1>2, <1>12, <1>13 DEF Finders, SessionAt, SessionCallOK
<1>14. ASSUME NEW p \in Second, NEW d \in Work(p)'
       PROVE  d \in Work(p) \/ (d \in Finders(s) /\ p = o)
    <2>1. /\ d \in SessionCaller /\ sessionCall'[d] # None
          /\ sessionCall'[d].origin = p
          /\ \/ sessionCall'[d].pc \in {"sign", "insert"}
             \/ sessionCall'[d].pc = "revoke"
                  /\ ~ LiveSession(sessionCall[d].token)'
        BY <1>14 DEF Work, Working, LiveSession
    <2>2. CASE d \in Finders(s)
        BY <1>13, <2>1, <2>2
    <2>3. CASE d \notin Finders(s)
        <3>1. /\ sessionCall'[d] = sessionCall[d]
              /\ sessionCall[d] # None /\ sessionCall[d].origin = p
            BY <2>1, <2>3
        <3>2. CASE sessionCall[d].pc \in {"sign", "insert"}
            BY <2>1, <3>1, <3>2 DEF Work, Working
        <3>3. CASE sessionCall[d].pc = "revoke"
            <4>1. sessionCall[d].token \in Second /\ sessionCall[d].token # s
                BY <2>1, <2>3, <3>1, <3>3
                   DEF SessionInv, SessionTypeOK, SessionCall, Finders, SessionAt
            <4>2. ~ LiveSession(sessionCall[d].token)
                BY <1>8, <2>1, <3>1, <3>3, <4>1
            <4>3. QED
                BY <2>1, <3>1, <3>3, <4>2 DEF Work, Working
        <3>4. QED
            BY <2>1, <3>1, <3>2, <3>3
    <2>4. QED
        BY <2>2, <2>3
<1>15. ASSUME NEW p \in Second
       PROVE  Cardinality(LiveOf(p)') + Cardinality(Work(p)') <= 1 + forestalled'[p]
    <2>1. /\ LiveOf(p) \subseteq Second /\ Work(p) \subseteq SessionCaller
          /\ Cardinality(LiveOf(p)) + Cardinality(Work(p)) <= 1 + forestalled[p]
        BY DEF LiveOf, Work, SessionInv
    <2>2. LiveOf(p)' = LiveOf(p) \ {s}
        BY <1>8 DEF LiveOf, LiveSession
    <2>3. CASE p # o
        <3>1. Work(p)' \subseteq Work(p) /\ LiveOf(p)' \subseteq LiveOf(p)
            BY <1>14, <2>2, <2>3
        <3>2. QED
            BY <1>9, <2>1, <2>3, <3>1, NoMore
    <2>4. CASE p = o
        <3>1. /\ IsFiniteSet(LiveOf(o)) /\ IsFiniteSet(Work(o))
              /\ IsFiniteSet(Finders(s))
              /\ Cardinality(LiveOf(o)) \in Nat /\ Cardinality(Work(o)) \in Nat
              /\ Cardinality(Finders(s)) \in Nat
            BY <2>1, <2>4, SessionSets DEF Finders
        <3>2. Cardinality(LiveOf(o)') = Cardinality(LiveOf(o)) - 1
            <4>1. s \in LiveOf(o)
                BY <1>1, <1>2 DEF LiveOf
            <4>2. QED
                BY <2>2, <2>4, <3>1, <4>1, FS_RemoveElement
        <3>3. /\ Cardinality(Work(o)') <= Cardinality(Work(o)) + Cardinality(Finders(s))
              /\ Cardinality(Work(o)') \in Nat
            <4>1. /\ IsFiniteSet(Work(o) \cup Finders(s))
                  /\ Cardinality(Work(o) \cup Finders(s)) =
                        Cardinality(Work(o)) + Cardinality(Finders(s))
                            - Cardinality(Work(o) \cap Finders(s))
                BY <3>1, FS_Union
            <4>2. Work(o)' \subseteq Work(o) \cup Finders(s)
                BY <1>14, <2>4
            <4>3. Cardinality(Work(o)') <= Cardinality(Work(o) \cup Finders(s))
                BY <4>1, <4>2, FS_Subset
            <4>4. /\ Cardinality(Work(o) \cap Finders(s)) \in Nat
                  /\ Cardinality(Work(o)') \in Nat
                BY SessionSets DEF Finders, Work
            <4>5. QED
                BY <3>1, <4>1, <4>3, <4>4
        <3>4. QED
            BY <1>9, <2>1, <2>4, <3>1, <3>2, <3>3
    <2>5. QED
        BY <2>3, <2>4
<1>16. QED
    BY <1>10, <1>11, <1>12, <1>15 DEF SessionInv

-----------------------------------------------------------------------------

\* A handler that returns or breaks off works no more.
LEMMA SessionReturnInv ==
    ASSUME SessionInv, NEW c \in SessionCaller, SessionReturn(c),
           UNCHANGED <<clock, session, forestalled>>,
           handed' \subseteq {s \in Second : session[s] # None}
    PROVE  SessionInv'
<1>1. SessionCallOK(None) /\ ~ Working(None)
    BY DEF SessionCallOK, Working
<1>2. QED
    BY <1>1, SessionCallStep DEF SessionReturn

\* A sign-in has no session yet, and a refresh finds one that is live.
LEMMA SessionStartInv ==
    ASSUME SessionInv, NEW c \in SessionCaller, NEW s \in Second,
           StartSignIn(c) \/ FindSession(c, s)
    PROVE  SessionInv'
<1>1. handed \subseteq {t \in Second : session[t] # None}
    BY DEF SessionInv, SessionTypeOK
<1>2. CASE StartSignIn(c)
    <2>1. PICK x : x = [pc |-> "sign", token |-> None, origin |-> None]
        OBVIOUS
    <2>2. x \in SessionCall /\ x.pc = "sign" /\ x.origin = None
        BY <2>1 DEF SessionCall
    <2>3. SessionCallOK(x)
        BY <2>2 DEF SessionCallOK
    <2>4. QED
        BY <1>1, <1>2, <2>1, <2>2, <2>3, SessionCallStep DEF StartSignIn
<1>3. CASE FindSession(c, s)
    <2>1. PICK x : x = [pc |-> "revoke", token |-> s, origin |-> session[s].origin]
        OBVIOUS
    <2>2. session[s] \in SessionRow /\ session[s] # None /\ LiveSession(s)
        BY <1>3 DEF FindSession, LiveSession, SessionInv, SessionTypeOK
    <2>3. /\ x \in SessionCall /\ x.pc = "revoke" /\ x.token = s
          /\ x.origin = session[s].origin
        BY <2>1, <2>2 DEF SessionCall, SessionRow
    <2>4. SessionCallOK(x) /\ ~ Working(x)
        BY <2>2, <2>3 DEF SessionCallOK, Working, SessionInv
    <2>5. QED
        BY <1>1, <1>3, <2>1, <2>3, <2>4, SessionCallStep DEF FindSession
<1>4. QED
    BY <1>2, <1>3

\* The call that SessionGoto leaves.
LEMMA SessionGotoCall ==
    ASSUME SessionInv, NEW c \in SessionCaller, sessionCall[c] # None,
           NEW pc, NEW token, SessionGoto(c, pc, token),
           \/ pc = "sign" /\ token = None
           \/ pc \in {"insert", "answer"} /\ token \in Second
    PROVE  \E x \in SessionCall :
              /\ sessionCall' = [sessionCall EXCEPT ![c] = x]
              /\ x.pc = pc /\ x.token = token /\ x # None
              /\ x.origin = sessionCall[c].origin
<1>1. PICK old \in SessionCall : old = sessionCall[c]
    BY DEF SessionInv, SessionTypeOK
<1>2. PICK x : x = [old EXCEPT !.pc = pc, !.token = token]
    OBVIOUS
<1>3. x.pc = pc /\ x.token = token /\ x.origin = old.origin
    BY <1>1, <1>2 DEF SessionCall
<1>4. x \in SessionCall
    BY <1>1, <1>2 DEF SessionCall
<1>5. sessionCall' = [sessionCall EXCEPT ![c] = x]
    BY <1>1, <1>2 DEF SessionGoto, SessionInv, SessionTypeOK, SessionCall
<1>6. x # None
    BY <1>4, SessionAssumption
<1>7. QED
    BY <1>1, <1>3, <1>4, <1>5, <1>6

\* The session found was live, or this refresh was forestalled.
LEMMA RevokeSessionInv ==
    ASSUME SessionInv, NEW c \in SessionCaller, RevokeSession(c)
    PROVE  SessionInv'
<1>1. PICK call \in SessionCall : /\ call = sessionCall[c] /\ call # None
                                  /\ call.pc = "revoke"
    BY DEF RevokeSession, SessionAt, SessionInv, SessionTypeOK
<1>2. PICK s \in Second : s = call.token
    BY <1>1 DEF SessionCall
<1>3. /\ Revoke(s) /\ Forestall(s, Finders(s) \ {c})
      /\ SessionGoto(c, "sign", None)
      /\ UNCHANGED <<clock, handed>>
    BY <1>1, <1>2 DEF RevokeSession
<1>4. PICK x \in SessionCall :
          /\ sessionCall' = [sessionCall EXCEPT ![c] = x]
          /\ x.pc = "sign" /\ x.token = None /\ x # None
          /\ x.origin = call.origin
    BY <1>1, <1>3, SessionGotoCall
<1>5. /\ sessionCall'[c] = x
      /\ \A d \in SessionCaller \ {c} : sessionCall'[d] = sessionCall[d]
      /\ sessionCall' \in [SessionCaller -> SessionCall \cup {None}]
    BY <1>4 DEF SessionInv, SessionTypeOK
<1>6. SessionCallOK(call)
    BY <1>1 DEF SessionInv
<1>7. CASE LiveSession(s)
    <2>1. c \in Finders(s)
        BY <1>1, <1>2 DEF Finders, SessionAt
    <2>2. PICK n : n = Cardinality(Finders(s) \ {c})
        OBVIOUS
    <2>3. n \in Nat /\ Cardinality(Finders(s)) = n + 1
        <3>1. IsFiniteSet(Finders(s)) /\ Cardinality(Finders(s)) \in Nat
            BY SessionSets DEF Finders
        <3>2. n = Cardinality(Finders(s)) - 1
            BY <2>1, <2>2, <3>1, FS_RemoveElement
        <3>3. n \in Nat
            BY <2>2, SessionSets DEF Finders
        <3>4. QED
            BY <3>1, <3>2, <3>3
    <2>4. forestalled' = [forestalled EXCEPT ![session[s].origin] = @ + n]
        BY <1>3, <1>7, <2>2 DEF Forestall
    <2>5. \A d \in SessionCaller :
              \/ sessionCall'[d] = sessionCall[d]
              \/ /\ d \in Finders(s)
                 /\ sessionCall'[d] # None
                 /\ sessionCall'[d].pc = "sign"
                 /\ sessionCall'[d].origin = sessionCall[d].origin
        BY <1>1, <1>4, <1>5, <2>1
    <2>6. Cardinality(Finders(s)) <= n + 1
        BY <2>3
    <2>7. QED
        BY <1>3, <1>5, <1>7, <2>3, <2>4, <2>5, <2>6, RevokeStep
<1>8. CASE ~ LiveSession(s)
    <2>1. session[s] \in SessionRow /\ session[s].revoked
        BY <1>1, <1>2, <1>6, <1>8
           DEF SessionCallOK, LiveSession, SessionInv, SessionTypeOK
    <2>2. session[s] = [session[s] EXCEPT !.revoked = TRUE]
        BY <2>1 DEF SessionRow
    <2>3. session' = session
        BY <1>3, <2>2 DEF Revoke, SessionInv, SessionTypeOK
    <2>4. forestalled' = forestalled
        BY <1>3, <1>8 DEF Forestall
    <2>5. SessionCallOK(x)
        BY <1>1, <1>4, <1>6 DEF SessionCallOK
    <2>6. c \in Work(call.origin)
        BY <1>1, <1>2, <1>8 DEF Work, Working
    <2>7. QED
        BY <1>3, <1>4, <2>3, <2>4, <2>5, <2>6, SessionCallStep
           DEF SessionInv, SessionTypeOK
<1>9. QED
    BY <1>7, <1>8

LEMMA SignTokensInv ==
    ASSUME SessionInv, NEW c \in SessionCaller, SignTokens(c)
    PROVE  SessionInv'
<1>1. /\ sessionCall[c] # None /\ sessionCall[c].pc = "sign"
      /\ SessionGoto(c, "insert", clock) /\ clock \in Second
      /\ UNCHANGED <<clock, session, handed, forestalled>>
    BY DEF SignTokens, SessionAt, SessionInv, SessionTypeOK
<1>2. PICK x \in SessionCall :
          /\ sessionCall' = [sessionCall EXCEPT ![c] = x]
          /\ x.pc = "insert" /\ x.token = clock /\ x # None
          /\ x.origin = sessionCall[c].origin
    BY <1>1, SessionGotoCall
<1>3. SessionCallOK(x)
    BY <1>1, <1>2 DEF SessionInv, SessionCallOK
<1>4. c \in Work(x.origin)
    BY <1>1, <1>2 DEF Work, Working
<1>5. QED
    BY <1>1, <1>2, <1>3, <1>4, SessionCallStep DEF SessionInv, SessionTypeOK

\* The new session takes the place of the work that opens it, or is the first
\* of its sign-in.
LEMMA CreateSessionInv ==
    ASSUME SessionInv, NEW c \in SessionCaller, CreateSession(c)
    PROVE  SessionInv'
<1>1. PICK call \in SessionCall : /\ call = sessionCall[c] /\ call # None
                                  /\ call.pc = "insert"
    BY DEF CreateSession, SessionAt, SessionInv, SessionTypeOK
<1>2. PICK t \in Second : t = call.token
    BY <1>1 DEF SessionCall
<1>3. UNCHANGED <<clock, handed, forestalled>>
    BY DEF CreateSession
<1>4. CASE session[t] # None
    <2>1. SessionReturn(c) /\ session' = session
        BY <1>1, <1>2, <1>4 DEF CreateSession
    <2>2. QED
        BY <1>3, <2>1, SessionReturnInv DEF SessionInv, SessionTypeOK
<1>5. CASE session[t] = None
    <2>1. PICK o \in Second :
              o = IF call.origin = None THEN t ELSE call.origin
        BY <1>1 DEF SessionCall
    <2>2. PICK row : row = [origin |-> o, revoked |-> FALSE]
        OBVIOUS
    <2>3. row \in SessionRow /\ row.origin = o /\ ~ row.revoked
        BY <2>2 DEF SessionRow
    <2>4. row # None
        BY <2>3, SessionAssumption
    <2>5. /\ session' = [session EXCEPT ![t] = row]
          /\ SessionGoto(c, "answer", t)
        BY <1>1, <1>2, <1>5, <2>1, <2>2 DEF CreateSession
    <2>6. /\ session' \in [Second -> SessionRow \cup {None}]
          /\ session'[t] = row
          /\ \A s \in Second \ {t} : session'[s] = session[s]
        BY <2>3, <2>5 DEF SessionInv, SessionTypeOK
    <2>7. PICK x \in SessionCall :
              /\ sessionCall' = [sessionCall EXCEPT ![c] = x]
              /\ x.pc = "answer" /\ x.token = t /\ x # None
              /\ x.origin = call.origin
        BY <1>1, <2>5, SessionGotoCall
    <2>8. /\ sessionCall'[c] = x
          /\ \A d \in SessionCaller \ {c} : sessionCall'[d] = sessionCall[d]
          /\ sessionCall' \in [SessionCaller -> SessionCall \cup {None}]
        BY <2>7 DEF SessionInv, SessionTypeOK
    <2>9. \A s \in Second : session[s] # None =>
              s # t /\ session'[s] = session[s] /\ session'[s] # None
        BY <1>5, <2>6
    <2>10. SessionTypeOK'
        BY <1>3, <2>6, <2>8, <2>9 DEF SessionInv, SessionTypeOK
    <2>11. call.origin # None => session[call.origin] # None /\ o = call.origin
        BY <1>1, <2>1 DEF SessionInv, SessionCallOK
    <2>12. session'[o] # None
        BY <2>1, <2>4, <2>6, <2>9, <2>11
    <2>13. \A s \in Second : session'[s] # None => session'[session'[s].origin] # None
        <3>1. SUFFICES ASSUME NEW s \in Second, session'[s] # None
                       PROVE  session'[session'[s].origin] # None
            OBVIOUS
        <3>2. CASE s = t
            BY <2>3, <2>6, <2>12, <3>2
        <3>3. CASE s # t
            <4>1. session[s] # None /\ session'[s] = session[s]
                BY <2>6, <3>1, <3>3
            <4>2. session[s].origin \in Second
                BY <4>1 DEF SessionInv, SessionTypeOK, SessionRow
            <4>3. QED
                BY <2>9, <4>1, <4>2 DEF SessionInv
        <3>4. QED
            BY <3>2, <3>3
    <2>14. ASSUME NEW d \in SessionCaller, d # c, sessionCall[d] # None
           PROVE  /\ sessionCall[d].origin \in Second \cup {None}
                  /\ sessionCall[d].pc \in {"revoke", "answer"} =>
                        /\ sessionCall[d].token \in Second
                        /\ session[sessionCall[d].token] # None
                        /\ session'[sessionCall[d].token]
                              = session[sessionCall[d].token]
                  /\ sessionCall[d].pc = "revoke" =>
                        session[sessionCall[d].token].origin
                            = sessionCall[d].origin
                  /\ sessionCall[d].origin # None =>
                        /\ session[sessionCall[d].origin] # None
                        /\ session'[sessionCall[d].origin] # None
        <3>1. sessionCall[d] \in SessionCall /\ SessionCallOK(sessionCall[d])
            BY <2>14 DEF SessionInv, SessionTypeOK
        <3>2. /\ sessionCall[d].origin \in Second \cup {None}
              /\ sessionCall[d].pc \in {"revoke", "answer"} =>
                    sessionCall[d].token \in Second
            BY <3>1 DEF SessionCall
        <3>3. QED
            BY <2>9, <2>14, <3>1, <3>2 DEF SessionCallOK
    <2>15. ASSUME NEW d \in SessionCaller PROVE SessionCallOK(sessionCall[d])'
        <3>1. CASE d = c
            <4>1. session'[t] # None
                BY <2>4, <2>6
            <4>2. QED
                BY <2>7, <2>8, <2>11, <2>12, <3>1, <4>1 DEF SessionCallOK
        <3>2. CASE d # c
            BY <2>8, <2>14, <3>2 DEF SessionCallOK
        <3>3. QED
            BY <3>1, <3>2
    <2>16. ASSUME NEW p \in Second PROVE Work(p)' \subseteq Work(p) \ {c}
        <3>1. SUFFICES ASSUME NEW d \in Work(p)' PROVE d \in Work(p) /\ d # c
            OBVIOUS
        <3>2. /\ d \in SessionCaller /\ sessionCall'[d] # None
              /\ sessionCall'[d].origin = p
              /\ \/ sessionCall'[d].pc \in {"sign", "insert"}
                 \/ sessionCall'[d].pc = "revoke"
                      /\ ~ LiveSession(sessionCall[d].token)'
            BY <3>1 DEF Work, Working, LiveSession
        <3>3. d # c /\ sessionCall'[d] = sessionCall[d]
            BY <2>7, <2>8, <3>2
        <3>4. sessionCall[d].pc = "revoke" => ~ LiveSession(sessionCall[d].token)
            BY <2>14, <3>2, <3>3 DEF LiveSession
        <3>5. QED
            BY <3>2, <3>3, <3>4 DEF Work, Working
    <2>17. ASSUME NEW p \in Second
           PROVE  Cardinality(LiveOf(p)') + Cardinality(Work(p)')
                      <= 1 + forestalled'[p]
        <3>1. /\ LiveOf(p) \subseteq Second /\ Work(p) \subseteq SessionCaller
              /\ Cardinality(LiveOf(p)) + Cardinality(Work(p)) <= 1 + forestalled[p]
              /\ forestalled[p] \in Nat
            BY DEF LiveOf, Work, SessionInv, SessionTypeOK
        <3>2. Work(p)' \subseteq Work(p) \ {c}
            BY <2>16
        <3>3. CASE p # o
            <4>1. LiveOf(p)' \subseteq LiveOf(p)
                BY <2>3, <2>6, <3>3 DEF LiveOf, LiveSession
            <4>2. QED
                BY <1>3, <3>1, <3>2, <4>1, NoMore
        <3>4. CASE p = o
            <4>1. LiveOf(o)' \subseteq LiveOf(o) \cup {t}
                BY <2>6 DEF LiveOf, LiveSession
            <4>2. /\ IsFiniteSet(LiveOf(o)) /\ IsFiniteSet(Work(o))
                  /\ Cardinality(LiveOf(o)) \in Nat
                  /\ Cardinality(Work(o)) \in Nat
                  /\ Cardinality(LiveOf(o)') \in Nat
                  /\ Cardinality(Work(o)') \in Nat
                BY SessionSets DEF LiveOf, Work
            <4>3. Cardinality(LiveOf(o)') <= Cardinality(LiveOf(o)) + 1
                <5>1. /\ IsFiniteSet(LiveOf(o) \cup {t})
                      /\ Cardinality(LiveOf(o) \cup {t}) =
                            IF t \in LiveOf(o) THEN Cardinality(LiveOf(o))
                            ELSE Cardinality(LiveOf(o)) + 1
                    BY <4>2, FS_AddElement
                <5>2. Cardinality(LiveOf(o)') <= Cardinality(LiveOf(o) \cup {t})
                    BY <4>1, <5>1, FS_Subset
                <5>3. QED
                    BY <4>2, <5>1, <5>2
            <4>4. CASE call.origin # None
                <5>1. c \in Work(o)
                    BY <1>1, <2>11, <4>4 DEF Work, Working
                <5>2. /\ IsFiniteSet(Work(o) \ {c})
                      /\ Cardinality(Work(o) \ {c}) = Cardinality(Work(o)) - 1
                    BY <4>2, <5>1, FS_RemoveElement
                <5>3. Cardinality(Work(o)') <= Cardinality(Work(o)) - 1
                    BY <3>2, <3>4, <5>2, FS_Subset
                <5>4. QED
                    BY <1>3, <3>1, <3>4, <4>2, <4>3, <5>3
            <4>5. CASE call.origin = None
                <5>1. o = t
                    BY <2>1, <4>5
                <5>2. LiveOf(o) = {}
                    BY <1>5, <5>1 DEF LiveOf, LiveSession, SessionInv
                <5>3. Work(o)' = {}
                    <6>1. SUFFICES ASSUME NEW d \in Work(o), d # c PROVE FALSE
                        BY <3>2, <3>4
                    <6>2. /\ d \in SessionCaller /\ sessionCall[d] # None
                          /\ sessionCall[d].origin = o
                        BY <6>1 DEF Work, Working
                    <6>3. o # None
                        BY SessionAssumption
                    <6>4. QED
                        BY <1>5, <2>14, <5>1, <6>1, <6>2, <6>3
                <5>4. Cardinality(LiveOf(o)) = 0 /\ Cardinality(Work(o)') = 0
                    BY <5>2, <5>3, FS_EmptySet
                <5>5. QED
                    BY <1>3, <3>1, <3>4, <4>2, <4>3, <5>4
            <4>6. QED
                BY <4>4, <4>5
        <3>5. QED
            BY <3>3, <3>4
    <2>18. QED
        BY <2>10, <2>13, <2>15, <2>17 DEF SessionInv
<1>6. QED
    BY <1>4, <1>5

LEMMA AnswerTokensInv ==
    ASSUME SessionInv, NEW c \in SessionCaller, AnswerTokens(c)
    PROVE  SessionInv'
<1>1. PICK call \in SessionCall : /\ call = sessionCall[c] /\ call # None
                                  /\ call.pc = "answer"
    BY DEF AnswerTokens, SessionAt, SessionInv, SessionTypeOK
<1>2. call.token \in Second /\ session[call.token] # None
    BY <1>1 DEF SessionCall, SessionInv, SessionCallOK
<1>3. handed' \subseteq {s \in Second : session[s] # None}
    BY <1>1, <1>2 DEF AnswerTokens, SessionInv, SessionTypeOK
<1>4. QED
    BY <1>3, SessionReturnInv DEF AnswerTokens

LEMMA LogoutInv ==
    ASSUME SessionInv, NEW s \in Second, Logout(s)
    PROVE  SessionInv'
<1>1. /\ LiveSession(s) /\ Revoke(s) /\ Forestall(s, Finders(s))
      /\ UNCHANGED <<clock, handed, sessionCall>>
    BY DEF Logout
<1>2. PICK n : n = Cardinality(Finders(s))
    OBVIOUS
<1>3. n \in Nat
    BY <1>2, SessionSets DEF Finders
<1>4. forestalled' = [forestalled EXCEPT ![session[s].origin] = @ + n]
    BY <1>1, <1>2 DEF Forestall
<1>5. Cardinality(Finders(s)) <= n + 1
    BY <1>2, <1>3
<1>6. sessionCall' \in [SessionCaller -> SessionCall \cup {None}]
    BY <1>1 DEF SessionInv, SessionTypeOK
<1>7. QED
    BY <1>1, <1>3, <1>4, <1>5, <1>6, RevokeStep

-----------------------------------------------------------------------------

\* Nobody is signed in yet.
LEMMA SessionInitInv == SessionInit => SessionInv
<1>1. SUFFICES ASSUME SessionInit PROVE SessionInv
    OBVIOUS
<1>2. SessionTypeOK
    BY <1>1, SessionAssumption DEF SessionInit, SessionTypeOK, Second
<1>3. \A o \in Second : LiveOf(o) = {} /\ Work(o) = {} /\ forestalled[o] = 0
    BY <1>1 DEF SessionInit, LiveOf, Work, Working, LiveSession
<1>4. \A c \in SessionCaller : SessionCallOK(sessionCall[c])
    BY <1>1 DEF SessionInit, SessionCallOK
<1>5. \A o \in Second :
          Cardinality(LiveOf(o)) + Cardinality(Work(o)) <= 1 + forestalled[o]
    BY <1>3, FS_EmptySet
<1>6. QED
    BY <1>1, <1>2, <1>4, <1>5 DEF SessionInv, SessionInit

\* Every request, fault and tick keeps the invariant.
LEMMA SessionStepInv == SessionInv /\ [SessionNext]_sessionVars => SessionInv'
<1>1. SUFFICES ASSUME SessionInv, [SessionNext]_sessionVars PROVE SessionInv'
    OBVIOUS
<1>2. ASSUME NEW c \in SessionCaller,
             StartSignIn(c) \/ \E s \in Second : FindSession(c, s)
      PROVE  SessionInv'
    <2>1. 1 \in Second
        BY SessionAssumption DEF Second
    <2>2. QED
        BY <1>1, <1>2, <2>1, SessionStartInv
<1>3. ASSUME NEW c \in SessionCaller, RevokeSession(c) \/ SignTokens(c)
      PROVE  SessionInv'
    BY <1>1, <1>3, RevokeSessionInv, SignTokensInv
<1>4. ASSUME NEW c \in SessionCaller, CreateSession(c) \/ AnswerTokens(c)
      PROVE  SessionInv'
    BY <1>1, <1>4, CreateSessionInv, AnswerTokensInv
<1>5. ASSUME NEW c \in SessionCaller, AbandonSession(c) PROVE SessionInv'
    BY <1>1, <1>5, SessionReturnInv DEF AbandonSession, SessionInv, SessionTypeOK
<1>6. ASSUME NEW s \in Second, Logout(s) PROVE SessionInv'
    BY <1>1, <1>6, LogoutInv
<1>7. CASE Tick \/ UNCHANGED sessionVars
    <2>1. UNCHANGED <<session, handed, sessionCall, forestalled>>
        BY <1>7 DEF Tick, sessionVars
    <2>2. SessionTypeOK'
        BY <1>1, <1>7, <2>1, SessionAssumption
           DEF SessionInv, SessionTypeOK, Tick, sessionVars, Second
    <2>3. QED
        BY <1>1, <2>1, <2>2 DEF SessionInv, SessionCallOK, LiveOf, Work, Working,
                                LiveSession
<1>8. QED
    BY <1>1, <1>2, <1>3, <1>4, <1>5, <1>6, <1>7 DEF SessionNext

LEMMA SessionsInvariant == ServicesSpec => []SessionInv
<1>1. ServicesInit => SessionInv
    BY SessionInitInv DEF ServicesInit
<1>2. SessionInv /\ [ServicesNext]_serviceVars => SessionInv'
    <2>1. [ServicesNext]_serviceVars => [SessionNext]_sessionVars
        BY DEF ServicesNext, serviceVars, partVars
    <2>2. QED
        BY <2>1, SessionStepInv
<1>3. QED
    BY <1>1, <1>2, PTL DEF ServicesSpec

\* A sign-in has one live session and one more at most for each of its refreshes
\* that was forestalled, for any number of sign-ins, overlapping refreshes,
\* logouts and breaks.
THEOREM SessionsBounded == ServicesSpec => []RotationBounded
<1>1. ASSUME SessionInv PROVE RotationBounded
    <2>1. SUFFICES ASSUME NEW o \in Second
                   PROVE  Cardinality(LiveOf(o)) <= 1 + forestalled[o]
        BY DEF RotationBounded, LiveOf
    <2>2. /\ Cardinality(LiveOf(o)) + Cardinality(Work(o)) <= 1 + forestalled[o]
          /\ forestalled[o] \in Nat
        BY <1>1 DEF SessionInv, SessionTypeOK
    <2>3. Cardinality(LiveOf(o)) \in Nat /\ Cardinality(Work(o)) \in Nat
        BY SessionSets DEF LiveOf, Work
    <2>4. QED
        BY <2>2, <2>3
<1>2. QED
    BY <1>1, SessionsInvariant, PTL

-----------------------------------------------------------------------------
(* The queue of the phone: nothing it promised is lost, and nothing is sent  *)
(* in the name of somebody else.                                             *)

\* The user who is signed in asked for the operation.
Mine(op) == signed # None /\ asked[op] = signed

\* What a sync goes by: the row it is at was read while attempts were left,
\* and one it is about to remove the server has taken.
RunOK(r) ==
    run[r] # None =>
        /\ run[r].pc \in {"done", "failed"} <=> run[r].now # None
        /\ run[r].pc \in {"check", "read"} => run[r].todo = {}
        /\ run[r].pc = "done" => applied[run[r].now.op] # None
        /\ \A row \in run[r].todo : row.retries < MaxRetries
        /\ run[r].now # None => run[r].now.retries < MaxRetries

\* While no sign-out has met anything under way, all that the phone still has
\* to send was asked for by the user who is signed in.
AllMine ==
    /\ \A row \in queue : Mine(row.op)
    /\ \A op \in Op : doing[op] # None => Mine(op)
    /\ \A r \in Run : run[r] # None => \A row \in run[r].todo : Mine(row.op)

QueueInv ==
    /\ PhoneTypeOK /\ QueueTypeOK
    /\ \A row \in queue : row.status = "PENDING" => row.retries < MaxRetries
    /\ \A r \in Run : RunOK(r)
    /\ \A op \in Op : doing[op] = "draft" => op \in Submission
    /\ wiping => signed = None
    /\ ~ overtaken /\ ~ wiping => AllMine
    /\ QueuedNotLost
    /\ ServedAsAuthor

-----------------------------------------------------------------------------

\* What has changed in the run of a sync that has turned to x.
LEMMA RunStep ==
    ASSUME QueueTypeOK, NEW r \in Run, NEW x \in RunRow \cup {None},
           run' = [run EXCEPT ![r] = x]
    PROVE  /\ run' \in [Run -> RunRow \cup {None}]
           /\ run'[r] = x
           /\ \A s \in Run \ {r} : run'[s] = run[s]
BY DEF QueueTypeOK

\* A sync starts or ends, sees what is online, or reads the queue: no row is
\* written, and it has yet to send rows of the queue only.
LEMMA RunOnlyInv ==
    ASSUME QueueInv, NEW r \in Run, NEW x \in RunRow \cup {None},
           run' = [run EXCEPT ![r] = x],
           x # None => /\ x.todo \subseteq Pending
                       /\ x.pc \in {"check", "read", "send"} /\ x.now = None
                       /\ x.pc # "send" => x.todo = {},
           online' \in BOOLEAN, syncing' \in BOOLEAN,
           UNCHANGED <<signed, wiping, overtaken, crashes, asked, doing, draft,
                       queue, applied, promised>>
    PROVE  QueueInv'
<1>1. QueueTypeOK /\ PhoneTypeOK
    BY DEF QueueInv
<1>2. /\ run' \in [Run -> RunRow \cup {None}]
      /\ run'[r] = x
      /\ \A s \in Run \ {r} : run'[s] = run[s]
    BY <1>1, RunStep
<1>3. /\ PhoneTypeOK' /\ QueueTypeOK'
    BY <1>1, <1>2 DEF PhoneTypeOK, QueueTypeOK
<1>4. \A s \in Run \ {r} : RunOK(s)'
    BY <1>2 DEF QueueInv, RunOK
<1>5. RunOK(r)'
    BY <1>2 DEF QueueInv, RunOK, Pending
<1>6. AllMine => AllMine'
    BY <1>2 DEF AllMine, Mine, Pending
<1>7. QED
    BY <1>3, <1>4, <1>5, <1>6 DEF QueueInv, QueuedNotLost, ServedAsAuthor

LEMMA ConnectedInv ==
    ASSUME QueueInv, Connected
    PROVE  QueueInv'
<1>1. CASE syncing
    BY <1>1 DEF Connected, QueueInv, PhoneTypeOK, QueueTypeOK, RunOK, AllMine,
                Mine, QueuedNotLost, ServedAsAuthor
<1>2. CASE ~ syncing
    <2> DEFINE x == [pc |-> "check", todo |-> {}, now |-> None]
    <2>1. PICK r : r = CHOOSE s \in {s \in Run : run[s] = None} : TRUE
        OBVIOUS
    <2>2. r \in Run
        BY <1>2, <2>1 DEF Connected
    <2>3. run' = [run EXCEPT ![r] = x]
        BY <1>2, <2>1 DEF Connected
    <2>4. x \in RunRow
        BY DEF RunRow
    <2>5. syncing' \in BOOLEAN
        BY DEF Connected, QueueInv, QueueTypeOK
    <2>6. QED
        BY <2>2, <2>3, <2>4, <2>5, RunOnlyInv DEF Connected
<1>3. QED
    BY <1>1, <1>2

LEMMA SyncBeginsInv ==
    ASSUME QueueInv, NEW r \in Run, CheckOnline(r) \/ ReadPending(r) \/ EndSync(r)
    PROVE  QueueInv'
<1>1. /\ run[r] \in RunRow /\ RunOK(r)
      /\ Pending \subseteq QueueRow
      /\ UNCHANGED <<signed, wiping, overtaken, crashes, asked, doing, draft,
                     queue, applied, promised>>
    BY DEF QueueInv, QueueTypeOK, CheckOnline, ReadPending, EndSync, RunAt,
           phoneVars, Pending
<1>2. online' \in BOOLEAN /\ syncing' \in BOOLEAN
    BY DEF QueueInv, QueueTypeOK, PhoneTypeOK, CheckOnline, ReadPending, EndSync,
           phoneVars
<1>3. CASE CheckOnline(r) /\ online
    <2> DEFINE x == [run[r] EXCEPT !.pc = "read"]
    <2>1. run' = [run EXCEPT ![r] = x]
        BY <1>3 DEF CheckOnline, RunGoto
    <2>2. x \in RunRow /\ x.todo = {} /\ x.now = None /\ x.pc = "read"
        BY <1>1, <1>3 DEF RunRow, RunOK, CheckOnline, RunAt
    <2>3. QED
        BY <1>1, <1>2, <2>1, <2>2, RunOnlyInv
<1>4. CASE ReadPending(r)
    <2> DEFINE x == [run[r] EXCEPT !.pc = "send", !.todo = Pending]
    <2>1. run' = [run EXCEPT ![r] = x]
        BY <1>4 DEF ReadPending
    <2>2. x \in RunRow /\ x.todo = Pending /\ x.now = None /\ x.pc = "send"
        BY <1>1, <1>4 DEF RunRow, RunOK, ReadPending, RunAt
    <2>3. QED
        BY <1>1, <1>2, <2>1, <2>2, RunOnlyInv
<1>5. CASE EndSync(r) \/ (CheckOnline(r) /\ ~ online)
    <2>1. run' = [run EXCEPT ![r] = None]
        BY <1>5 DEF CheckOnline, EndSync
    <2>2. QED
        BY <1>1, <1>2, <2>1, RunOnlyInv
<1>6. QED
    BY <1>3, <1>4, <1>5

\* A sync sends the next row it read: if the server takes it, it does so as
\* the user who is signed in.
LEMMA SendOperationInv ==
    ASSUME QueueInv, NEW r \in Run, SendOperation(r)
    PROVE  QueueInv'
<1>1. PICK row \in run[r].todo, pc \in {"done", "failed"} :
          /\ run' = [run EXCEPT ![r].pc = pc, ![r].now = row,
                                ![r].todo = @ \ {row}]
          /\ \/ Acceptable(row.op) /\ Apply(row.op)
             \/ pc = "failed" /\ UNCHANGED applied
    BY Zenon DEF SendOperation
<1> DEFINE x == [run[r] EXCEPT !.pc = pc, !.now = row, !.todo = @ \ {row}]
<1>2. /\ run[r] # None /\ run[r] \in RunRow /\ RunOK(r) /\ run[r].pc = "send"
      /\ UNCHANGED <<phoneVars, asked, doing, draft, queue, syncing, promised>>
    BY DEF QueueInv, QueueTypeOK, SendOperation, RunAt
<1>3. /\ x \in RunRow /\ x.pc = pc /\ x.now = row /\ x.todo = run[r].todo \ {row}
      /\ row \in QueueRow
    BY <1>2 DEF RunRow
<1>4. run' = [run EXCEPT ![r] = x]
    BY <1>1
<1> HIDE DEF x
<1>5. QueueTypeOK /\ PhoneTypeOK
    BY DEF QueueInv
<1>6. /\ run' \in [Run -> RunRow \cup {None}]
      /\ run'[r] = x
      /\ \A s \in Run \ {r} : run'[s] = run[s]
    BY <1>3, <1>4, <1>5, RunStep
<1>7. /\ row.op \in Op /\ row # None /\ row.retries < MaxRetries
    BY <1>2, <1>3, QueueRowAssumption DEF RunOK, QueueRow
<1>8. /\ applied' \in [Op -> Person \cup {None}]
      /\ \A op \in Op : applied[op] # None => applied'[op] = applied[op]
      /\ \A op \in Op \ {row.op} : applied'[op] = applied[op]
      /\ pc = "done" => applied'[row.op] # None
      /\ applied'[row.op] # applied[row.op] =>
            signed # None /\ applied'[row.op] = signed
    BY <1>1, <1>5, <1>7 DEF Acceptable, Apply, QueueTypeOK, PhoneTypeOK
<1>9. PhoneTypeOK' /\ QueueTypeOK'
    BY <1>2, <1>5, <1>6, <1>8 DEF PhoneTypeOK, QueueTypeOK, phoneVars
<1>10. \A s \in Run \ {r} : RunOK(s)'
    <2>1. SUFFICES ASSUME NEW s \in Run \ {r} PROVE RunOK(s)'
        OBVIOUS
    <2>2. RunOK(s) /\ run'[s] = run[s] /\ run[s] \in RunRow \cup {None}
        BY <1>5, <1>6 DEF QueueInv, QueueTypeOK
    <2>3. run[s] # None /\ run[s].pc = "done" => run[s].now.op \in Op
        BY <2>2 DEF RunOK, RunRow, QueueRow
    <2>4. QED
        BY <2>2, <2>3, <1>8 DEF RunOK
<1>11. RunOK(r)'
    BY <1>2, <1>3, <1>6, <1>7, <1>8 DEF RunOK
<1>12. AllMine => AllMine'
    BY <1>2, <1>3, <1>6 DEF AllMine, Mine, phoneVars
<1>13. QueuedNotLost'
    BY <1>2, <1>5, <1>8 DEF QueueInv, QueuedNotLost, QueueTypeOK
<1>14. ServedAsAuthor'
    <2>1. SUFFICES ASSUME ~ overtaken, NEW op \in Op, applied'[op] # None
                   PROVE  applied'[op] = asked[op]
        BY <1>2 DEF ServedAsAuthor, phoneVars
    <2>2. CASE applied'[op] = applied[op]
        BY <2>1, <2>2 DEF QueueInv, ServedAsAuthor
    <2>3. CASE applied'[op] # applied[op]
        <3>1. op = row.op /\ signed # None /\ applied'[op] = signed
            BY <2>1, <2>3, <1>8
        <3>2. AllMine
            BY <2>1, <3>1 DEF QueueInv
        <3>3. QED
            BY <1>2, <3>1, <3>2 DEF AllMine, Mine
    <2>4. QED
        BY <2>2, <2>3
<1>15. QED
    BY <1>2, <1>9, <1>10, <1>11, <1>12, <1>13, <1>14 DEF QueueInv, phoneVars

\* A sync takes a row out of the queue, once the server has it, or counts its
\* attempt in it.
LEMMA RowWrittenInv ==
    ASSUME QueueInv, NEW r \in Run, RemoveOperation(r) \/ NoteFailure(r)
    PROVE  QueueInv'
<1> DEFINE x == [run[r] EXCEPT !.pc = "send", !.now = None]
           row == run[r].now
<1>1. /\ run[r] # None /\ run[r] \in RunRow /\ RunOK(r)
      /\ run' = [run EXCEPT ![r] = x]
      /\ UNCHANGED <<phoneVars, asked, doing, draft, syncing, applied, promised>>
    BY DEF QueueInv, QueueTypeOK, RemoveOperation, NoteFailure, RunAt, Advance
<1>2. /\ row \in QueueRow /\ row.retries < MaxRetries
      /\ RemoveOperation(r) => applied[row.op] # None
    BY <1>1 DEF RemoveOperation, NoteFailure, RunAt, RunOK, RunRow
<1>3. /\ x \in RunRow /\ x.pc = "send" /\ x.now = None /\ x.todo = run[r].todo
    BY <1>1 DEF RunRow
<1> HIDE DEF x
<1>4. QueueTypeOK /\ PhoneTypeOK
    BY DEF QueueInv
<1>5. /\ run' \in [Run -> RunRow \cup {None}]
      /\ run'[r] = x
      /\ \A s \in Run \ {r} : run'[s] = run[s]
    BY <1>1, <1>3, <1>4, RunStep
<1>6. /\ \A new \in queue' :
            /\ new \in QueueRow
            /\ new.status = "PENDING" => new.retries < MaxRetries
            /\ \E old \in queue : new.op = old.op
      /\ \A op \in Op : (\E old \in queue : old.op = op) =>
            applied[op] # None \/ \E new \in queue' : new.op = op
    <2>1. CASE RemoveOperation(r)
        BY <1>2, <1>4, <2>1 DEF RemoveOperation, Without, QueueInv, QueueTypeOK
    <2>2. CASE NoteFailure(r)
        <3> DEFINE Kept(old) ==
                IF old.op # row.op THEN old
                ELSE IF Retried(row).status = "FAILED" THEN Retried(row)
                ELSE [old EXCEPT !.retries = Retried(row).retries]
        <3>1. queue' = {Kept(old) : old \in queue}
            BY <2>2 DEF NoteFailure, KeepFailed
        <3>2. /\ Retried(row) \in QueueRow /\ Retried(row).op = row.op
              /\ Retried(row).retries = row.retries + 1
              /\ Retried(row).status # "FAILED" => row.retries + 1 < MaxRetries
              /\ Retried(row).status = "FAILED" \/ Retried(row).status = "PENDING"
            <4>1. row.retries \in Nat /\ row.retries + 1 \in 0..MaxRetries
                BY <1>2, QueueAssumption DEF QueueRow
            <4>2. PICK status \in {"PENDING", "FAILED"} :
                      /\ status = IF row.retries + 1 >= MaxRetries
                                  THEN "FAILED" ELSE "PENDING"
                      /\ Retried(row) = [row EXCEPT !.retries = row.retries + 1,
                                                    !.status = status]
                BY DEF Retried
            <4>3. status # "FAILED" => row.retries + 1 < MaxRetries
                BY <4>1, <4>2, QueueAssumption
            <4> HIDE DEF row
            <4>4. QED
                BY <1>2, <4>1, <4>2, <4>3 DEF QueueRow
        <3>3. \A old \in queue :
                  /\ Kept(old) \in QueueRow
                  /\ Kept(old).op = old.op
                  /\ Kept(old).status = "PENDING" => Kept(old).retries < MaxRetries
            <4>1. SUFFICES ASSUME NEW old \in queue
                           PROVE  /\ Kept(old) \in QueueRow
                                  /\ Kept(old).op = old.op
                                  /\ Kept(old).status = "PENDING" =>
                                         Kept(old).retries < MaxRetries
                OBVIOUS
            <4>2. /\ old \in QueueRow
                  /\ old.status = "PENDING" => old.retries < MaxRetries
                BY <1>4 DEF QueueInv, QueueTypeOK
            <4>3. CASE old.op # row.op
                BY <4>2, <4>3
            <4>4. CASE old.op = row.op /\ Retried(row).status = "FAILED"
                BY <3>2, <4>4
            <4>5. CASE old.op = row.op /\ Retried(row).status # "FAILED"
                <5>1. row.retries + 1 \in 0..MaxRetries
                    BY <3>2, <4>5, <1>2, QueueAssumption DEF QueueRow
                <5>2. Kept(old) = [old EXCEPT !.retries = row.retries + 1]
                    BY <3>2, <4>5
                <5> HIDE DEF Kept
                <5>3. QED
                    BY <3>2, <4>2, <4>5, <5>1, <5>2 DEF QueueRow
            <4>6. QED
                BY <4>3, <4>4, <4>5
        <3> HIDE DEF Kept
        <3>4. QED
            BY <3>1, <3>3
    <2>3. QED
        BY <2>1, <2>2
<1>7. PhoneTypeOK' /\ QueueTypeOK'
    BY <1>1, <1>4, <1>5, <1>6 DEF PhoneTypeOK, QueueTypeOK, phoneVars
<1>8. \A s \in Run \ {r} : RunOK(s)'
    BY <1>1, <1>5 DEF QueueInv, RunOK
<1>9. RunOK(r)'
    BY <1>1, <1>3, <1>5 DEF RunOK
<1>10. AllMine => AllMine'
    BY <1>1, <1>3, <1>5, <1>6 DEF AllMine, Mine, phoneVars
<1>11. QueuedNotLost'
    BY <1>1, <1>4, <1>6 DEF QueueInv, QueuedNotLost, QueueTypeOK
<1>12. QED
    BY <1>1, <1>6, <1>7, <1>8, <1>9, <1>10, <1>11
    DEF QueueInv, ServedAsAuthor, phoneVars

LEMMA SyncStepInv ==
    ASSUME QueueInv, NEW r \in Run, SyncStep(r)
    PROVE  QueueInv'
BY SyncBeginsInv, SendOperationInv, RowWrittenInv DEF SyncStep

-----------------------------------------------------------------------------

\* A user asks for an operation.
LEMMA AskInv ==
    ASSUME QueueInv, NEW op \in Op, Ask(op)
    PROVE  QueueInv'
<1>1. QueueTypeOK /\ PhoneTypeOK
    BY DEF QueueInv
<1>2. PICK step \in {"call", "draft", "enqueue"} :
          doing' = [doing EXCEPT ![op] = step]
    <2> DEFINE step == IF online THEN "call"
                       ELSE IF op \in Submission THEN "draft" ELSE "enqueue"
    <2>1. doing' = [doing EXCEPT ![op] = step] /\ step \in {"call", "draft", "enqueue"}
        BY DEF Ask
    <2>2. QED
        BY <2>1
<1>3. /\ signed \in Person /\ signed # None
      /\ asked[op] = None /\ asked' = [asked EXCEPT ![op] = signed]
      /\ UNCHANGED <<phoneVars, draft, queue, syncing, run, applied, promised>>
    BY <1>1 DEF Ask, PhoneTypeOK
<1>4. /\ asked' \in [Op -> Person \cup {None}]
      /\ doing' \in [Op -> {"call", "draft", "enqueue", None}]
      /\ asked'[op] = signed
      /\ \A o \in Op \ {op} : asked'[o] = asked[o] /\ doing'[o] = doing[o]
    BY <1>1, <1>2, <1>3 DEF QueueTypeOK
<1>5. PhoneTypeOK' /\ QueueTypeOK'
    BY <1>1, <1>3, <1>4 DEF PhoneTypeOK, QueueTypeOK, phoneVars
<1>6. \A o \in Op : Mine(o) => Mine(o)'
    BY <1>3, <1>4 DEF Mine, phoneVars
<1>7. /\ \A row \in queue : row.op \in Op
      /\ \A r \in Run : run[r] # None => \A row \in run[r].todo : row.op \in Op
    BY <1>1 DEF QueueTypeOK, QueueRow, RunRow
<1>8. AllMine => AllMine'
    <2>1. SUFFICES ASSUME AllMine PROVE AllMine'
        OBVIOUS
    <2>2. \A row \in queue' : Mine(row.op)'
        BY <1>3, <1>6, <1>7, <2>1 DEF AllMine
    <2>3. \A o \in Op : doing'[o] # None => Mine(o)'
        BY <1>3, <1>4, <1>6, <2>1 DEF AllMine, Mine, phoneVars
    <2>4. \A r \in Run : run'[r] # None => \A row \in run'[r].todo : Mine(row.op)'
        BY <1>3, <1>6, <1>7, <2>1 DEF AllMine
    <2>5. QED
        BY <2>2, <2>3, <2>4 DEF AllMine
<1>9. ServedAsAuthor'
    BY <1>3, <1>4 DEF QueueInv, ServedAsAuthor, phoneVars
<1>10. \A o \in Op : doing'[o] = "draft" => o \in Submission
    BY <1>4, QueueAssumption DEF QueueInv, Ask
<1>11. QED
    BY <1>3, <1>5, <1>8, <1>9, <1>10 DEF QueueInv, RunOK, QueuedNotLost, phoneVars

\* The repository goes on with an operation, or is done with it.
LEMMA AskedStepInv ==
    ASSUME QueueInv, NEW op \in Op, CallServer(op) \/ SaveDraft(op) \/ Enqueue(op)
    PROVE  QueueInv'
<1>1. QueueTypeOK /\ PhoneTypeOK
    BY DEF QueueInv
<1>2. /\ doing[op] # None
      /\ UNCHANGED <<phoneVars, asked, syncing, run>>
    BY QueueAssumption DEF CallServer, SaveDraft, Enqueue
<1>3. ~ overtaken /\ ~ wiping => AllMine /\ Mine(op)
    BY <1>2 DEF QueueInv, AllMine
<1>4. PICK step \in {"enqueue", None} :
          /\ doing' = [doing EXCEPT ![op] = step]
          /\ step = None \/ doing[op] = "draft"
    BY DEF CallServer, SaveDraft, Enqueue
<1>5. /\ doing' \in [Op -> {"call", "draft", "enqueue", None}]
      /\ doing'[op] = step
      /\ \A o \in Op \ {op} : doing'[o] = doing[o]
    BY <1>1, <1>4 DEF QueueTypeOK
<1>6. \A o \in Op : doing'[o] = "draft" => o \in Submission
    BY <1>5, QueueAssumption DEF QueueInv
<1>7. \A o \in Op : doing'[o] # None => doing[o] # None
    BY <1>2, <1>5
<1>8. CASE CallServer(op)
    <2>1. UNCHANGED <<draft, queue, promised>>
        BY <1>8 DEF CallServer
    <2>2. /\ applied' \in [Op -> Person \cup {None}]
          /\ \A o \in Op : applied[o] # None => applied'[o] = applied[o]
          /\ \A o \in Op \ {op} : applied'[o] = applied[o]
          /\ applied'[op] # applied[op] => signed # None /\ applied'[op] = signed
        BY <1>1, <1>8 DEF CallServer, Acceptable, Apply, QueueTypeOK, PhoneTypeOK
    <2>3. PhoneTypeOK' /\ QueueTypeOK'
        BY <1>1, <1>2, <1>5, <2>1, <2>2 DEF PhoneTypeOK, QueueTypeOK, phoneVars
    <2>4. \A r \in Run : RunOK(r)'
        <3>1. SUFFICES ASSUME NEW r \in Run PROVE RunOK(r)'
            OBVIOUS
        <3>2. RunOK(r) /\ run[r] \in RunRow \cup {None}
            BY <1>1 DEF QueueInv, QueueTypeOK
        <3>3. run[r] # None /\ run[r].pc = "done" => run[r].now.op \in Op
            BY <3>2 DEF RunOK, RunRow, QueueRow
        <3>4. QED
            BY <1>2, <2>2, <3>2, <3>3 DEF RunOK
    <2>5. AllMine => AllMine'
        BY <1>2, <1>7, <2>1 DEF AllMine, Mine, phoneVars
    <2>6. QueuedNotLost'
        BY <1>1, <2>1, <2>2 DEF QueueInv, QueuedNotLost, QueueTypeOK
    <2>7. ServedAsAuthor'
        <3>1. SUFFICES ASSUME ~ overtaken, NEW o \in Op, applied'[o] # None
                       PROVE  applied'[o] = asked[o]
            BY <1>2 DEF ServedAsAuthor, phoneVars
        <3>2. CASE applied'[o] = applied[o]
            BY <3>1, <3>2 DEF QueueInv, ServedAsAuthor
        <3>3. CASE applied'[o] # applied[o]
            <4>1. o = op /\ signed # None /\ applied'[o] = signed
                BY <3>1, <3>3, <2>2
            <4>2. ~ wiping
                BY <4>1 DEF QueueInv
            <4>3. QED
                BY <1>3, <3>1, <4>1, <4>2 DEF Mine
        <3>4. QED
            BY <3>2, <3>3
    <2>8. QED
        BY <1>2, <1>6, <2>1, <2>3, <2>4, <2>5, <2>6, <2>7 DEF QueueInv, phoneVars
<1>9. CASE SaveDraft(op)
    <2>1. /\ UNCHANGED <<queue, applied, promised>>
          /\ draft' \subseteq Submission
        BY <1>1, <1>9 DEF SaveDraft, QueueInv, QueueTypeOK
    <2>2. PhoneTypeOK' /\ QueueTypeOK'
        BY <1>1, <1>2, <1>5, <2>1 DEF PhoneTypeOK, QueueTypeOK, phoneVars
    <2>3. AllMine => AllMine'
        BY <1>2, <1>7, <2>1 DEF AllMine, Mine, phoneVars
    <2>4. QED
        BY <1>2, <1>6, <2>1, <2>2, <2>3
        DEF QueueInv, RunOK, QueuedNotLost, ServedAsAuthor, phoneVars
<1>10. CASE Enqueue(op)
    <2> DEFINE new == [op |-> op, after |-> {row.op : row \in queue},
                       retries |-> 0, status |-> "PENDING"]
    <2>1. /\ queue' = queue \cup {new}
          /\ promised' = promised \cup {op}
          /\ UNCHANGED <<draft, applied>>
        BY <1>10 DEF Enqueue
    <2>2. /\ new \in QueueRow /\ new.op = op /\ new.retries < MaxRetries
        <3>1. {row.op : row \in queue} \in SUBSET Op
            BY <1>1 DEF QueueTypeOK, QueueRow
        <3>2. 0 \in 0..MaxRetries /\ 0 < MaxRetries
            BY QueueAssumption
        <3>3. QED
            BY <3>1, <3>2 DEF QueueRow
    <2> HIDE DEF new
    <2>3. PhoneTypeOK' /\ QueueTypeOK'
        BY <1>1, <1>2, <1>5, <2>1, <2>2 DEF PhoneTypeOK, QueueTypeOK, phoneVars
    <2>4. AllMine /\ Mine(op) => AllMine'
        BY <1>2, <1>7, <2>1, <2>2 DEF AllMine, Mine, phoneVars
    <2>5. QueuedNotLost'
        BY <2>1, <2>2 DEF QueueInv, QueuedNotLost
    <2>6. QED
        BY <1>2, <1>3, <1>6, <2>1, <2>2, <2>3, <2>4, <2>5
        DEF QueueInv, RunOK, ServedAsAuthor, phoneVars
<1>11. QED
    BY <1>8, <1>9, <1>10

\* A user signs in or out.
LEMMA SignInv ==
    ASSUME QueueInv, SignOut \/ (\E u \in Person : SignIn(u)) \/ Disconnected
    PROVE  QueueInv'
<1>1. CASE Disconnected
    BY <1>1 DEF Disconnected, QueueInv, PhoneTypeOK, QueueTypeOK, RunOK, AllMine,
                Mine, QueuedNotLost, ServedAsAuthor, queueVars
<1>2. CASE SignOut
    BY <1>2 DEF SignOut, QueueInv, PhoneTypeOK, QueueTypeOK, RunOK, AllMine,
                Mine, QueuedNotLost, ServedAsAuthor, queueVars
<1>3. CASE \E u \in Person : SignIn(u)
    BY <1>3 DEF SignIn, QueueInv, PhoneTypeOK, QueueTypeOK, RunOK, AllMine,
                Mine, QueuedNotLost, ServedAsAuthor, queueVars
<1>4. QED
    BY <1>1, <1>2, <1>3

\* The tables are wiped; whatever is still under way is noted as overtaken.
LEMMA WipeInv ==
    ASSUME QueueInv, Wipe
    PROVE  QueueInv'
<1>1. /\ queue' = {} /\ draft' = {} /\ promised' = {} /\ wiping' = FALSE
      /\ overtaken' = (overtaken \/ Busy)
      /\ UNCHANGED <<online, signed, crashes, asked, doing, syncing, run, applied>>
    BY DEF Wipe, WipedQueue
<1>2. PhoneTypeOK' /\ QueueTypeOK'
    BY <1>1 DEF QueueInv, PhoneTypeOK, QueueTypeOK
<1>3. ~ Busy => AllMine'
    BY <1>1 DEF Busy, AllMine
<1>4. QED
    BY <1>1, <1>2, <1>3 DEF QueueInv, RunOK, QueuedNotLost, ServedAsAuthor

\* A crash loses what is in memory, and may cut a sign-out short.
LEMMA CrashQueueInv ==
    ASSUME QueueInv, CrashPhone,
           UNCHANGED <<online, signed, asked, draft, queue, applied, promised>>,
           StopSyncs \/ UNCHANGED <<syncing, run, doing>>
    PROVE  QueueInv'
<1>1. /\ crashes' \in 0..MaxCrashes /\ wiping' = FALSE
      /\ overtaken' = (overtaken \/ wiping)
    BY QueueAssumption DEF CrashPhone, QueueInv, PhoneTypeOK
<1>2. CASE UNCHANGED <<syncing, run, doing>>
    BY <1>1, <1>2 DEF QueueInv, PhoneTypeOK, QueueTypeOK, RunOK, AllMine, Mine,
                      QueuedNotLost, ServedAsAuthor
<1>3. CASE StopSyncs
    <2>1. /\ syncing' = FALSE
          /\ run' = [r \in Run |-> None] /\ doing' = [op \in Op |-> None]
        BY <1>3 DEF StopSyncs
    <2>2. PhoneTypeOK' /\ QueueTypeOK'
        BY <1>1, <2>1 DEF QueueInv, PhoneTypeOK, QueueTypeOK
    <2>3. AllMine => AllMine'
        BY <2>1 DEF AllMine, Mine
    <2>4. (\A r \in Run : RunOK(r))' /\ (\A op \in Op : doing[op] # "draft")'
        BY <2>1, QueueAssumption DEF RunOK
    <2>5. QED
        BY <1>1, <2>2, <2>3, <2>4 DEF QueueInv, QueuedNotLost, ServedAsAuthor
<1>4. QED
    BY <1>2, <1>3

LEMMA QueueInitInv == PhoneInit /\ QueueInit => QueueInv
<1>1. SUFFICES ASSUME PhoneInit, QueueInit PROVE QueueInv
    OBVIOUS
<1>2. PhoneTypeOK /\ QueueTypeOK
    <2>1. 0 \in 0..MaxCrashes
        BY QueueAssumption
    <2>2. QED
        BY <1>1, <2>1 DEF PhoneInit, QueueInit, PhoneTypeOK, QueueTypeOK
<1>3. AllMine
    BY <1>1 DEF QueueInit, AllMine
<1>4. QED
    BY <1>1, <1>2, <1>3, QueueAssumption
    DEF PhoneInit, QueueInit, QueueInv, RunOK, QueuedNotLost, ServedAsAuthor

\* Every step of the phone keeps the invariant, whether it has operations or
\* receipts to send.
LEMMA QueueStepInv ==
    QueueInv /\ (QueueNext \/ ReceiptNext \/ UNCHANGED offlineVars) => QueueInv'
<1>1. SUFFICES ASSUME QueueInv, QueueNext \/ ReceiptNext \/ UNCHANGED offlineVars
               PROVE  QueueInv'
    OBVIOUS
<1>2. CASE QueueNext
    BY <1>1, <1>2, AskInv, AskedStepInv, SyncStepInv, ConnectedInv, SignInv,
       WipeInv, CrashQueueInv DEF QueueNext, CrashQueue
<1>3. CASE UNCHANGED offlineVars
    BY <1>1, <1>3 DEF offlineVars, phoneVars, queueVars, QueueInv, PhoneTypeOK,
                      QueueTypeOK, RunOK, AllMine, Mine, QueuedNotLost,
                      ServedAsAuthor
<1>4. CASE /\ ~ online /\ online' = TRUE
           /\ UNCHANGED <<signed, wiping, overtaken, crashes, queueVars>>
    BY <1>1, <1>4 DEF queueVars, QueueInv, PhoneTypeOK, QueueTypeOK, RunOK,
                      AllMine, Mine, QueuedNotLost, ServedAsAuthor
<1>5. CASE CrashReceipts
    BY <1>1, <1>5, CrashQueueInv DEF CrashReceipts, queueVars
<1>6. CASE Disconnected \/ SignOut \/ Wipe \/ \E u \in Person : SignIn(u)
    BY <1>1, <1>6, SignInv, WipeInv
<1>7. QED
    BY <1>1, <1>2, <1>3, <1>4, <1>5, <1>6 DEF ReceiptNext

LEMMA QueueInvariant == ServicesSpec => []QueueInv
<1>1. ServicesInit => QueueInv
    BY QueueInitInv DEF ServicesInit
<1>2. QueueInv /\ [ServicesNext]_serviceVars => QueueInv'
    <2>1. [ServicesNext]_serviceVars =>
              QueueNext \/ ReceiptNext \/ UNCHANGED offlineVars
        BY DEF ServicesNext, serviceVars, partVars
    <2>2. QED
        BY <2>1, QueueStepInv
<1>3. QED
    BY <1>1, <1>2, PTL DEF ServicesSpec

\* An operation that the app said it had queued is in the queue until the
\* server has it: for any number of operations, overlapping syncs, retries and
\* crashes.
THEOREM NothingQueuedIsLost == ServicesSpec => []QueuedNotLost
<1>1. QueueInv => QueuedNotLost
    BY DEF QueueInv
<1>2. QED
    BY <1>1, QueueInvariant, PTL

\* The server takes an operation only as the user who asked for it, unless a
\* sign-out met something under way or was cut short.
THEOREM SentAsItsAuthor == ServicesSpec => []ServedAsAuthor
<1>1. QueueInv => ServedAsAuthor
    BY DEF QueueInv
<1>2. QED
    BY <1>1, QueueInvariant, PTL

-----------------------------------------------------------------------------
(* Messages. *)

\* An event has its row.
Told(j) == \E n \in Notice : notice[n] # None /\ notice[n].of = j

\* The job j has done what it was queued for.
Delivered(j) ==
    IF task[j].notice # None THEN notice[task[j].notice].sent ELSE Told(j)

\* The row of a task is there.  A job is still to be tried, failed for good, or
\* has done its work, and it has when its handler wrote.
TaskOK(j) ==
    task[j] # None =>
        /\ task[j].notice # None => notice[task[j].notice] # None
        /\ IsOpen(j) \/ j \in missed \/ Delivered(j)
        /\ JobIn(j, {"written"}) => Delivered(j)

Queued(n) == \E j \in Job : task[j] # None /\ task[j].notice = n

\* A row that is not sent has a job, or a sender who is at it.
RowKept(n) ==
    notice[n] # None /\ ~ notice[n].sent =>
        n \in missed \/ Sending(n) \/ Queued(n)

\* A sender's rows are there.
SenderOK(c) ==
    notifying[c] # None /\ notifying[c].pc \in {"queue", "bulk"} =>
        \A p \in notifying[c].rest : notice[p[1]] # None

NoticeInv ==
    /\ NoticeTypeOK
    /\ \A j \in Job : TaskOK(j) /\ (job[j] # None => task[j] # None)
    /\ \A n \in Notice : RowKept(n)
    /\ \A c \in Notifier : SenderOK(c)

LEMMA ForgottenFollows == NoticeInv => NothingForgotten
<1>1. SUFFICES ASSUME NoticeInv PROVE NothingForgotten
    OBVIOUS
<1>2. ASSUME NEW n \in Notice, notice[n] # None, ~ notice[n].sent,
             n \notin missed, ~ Sending(n)
      PROVE  \E j \in Job : /\ task[j] # None
                            /\ task[j].notice = n
                            /\ IsOpen(j) \/ j \in missed
    <2>1. PICK j \in Job : task[j] # None /\ task[j].notice = n
        BY <1>1, <1>2 DEF NoticeInv, RowKept, Queued
    <2>2. n # None
        BY NoticeAssumption
    <2>3. IsOpen(j) \/ j \in missed \/ Delivered(j)
        BY <1>1, <2>1 DEF NoticeInv, TaskOK
    <2>4. QED
        BY <1>2, <2>1, <2>2, <2>3 DEF Delivered
<1>3. ASSUME NEW j \in Job, task[j] # None, task[j].notice = None
      PROVE  \/ IsOpen(j) \/ j \in missed
             \/ \E n \in Notice : notice[n] # None /\ notice[n].of = j
    BY <1>1, <1>3 DEF NoticeInv, TaskOK, Delivered, Told
<1>4. QED
    BY <1>2, <1>3 DEF NothingForgotten

\* Rows, tasks and losses only grow: what that leaves to be shown of a step is
\* about the jobs and senders it moves and the rows and tasks it adds.
RowsGrow ==
    \A n \in Notice : notice[n] # None =>
        /\ notice'[n] # None
        /\ notice'[n].of = notice[n].of
        /\ notice[n].sent => notice'[n].sent

TasksGrow == \A j \in Job : task[j] # None => task'[j] = task[j]

LEMMA NoticeStep ==
    ASSUME NoticeInv, NoticeTypeOK', RowsGrow, TasksGrow, missed \subseteq missed',
           \A j \in Job : task[j] # None =>
               /\ IsOpen(j) =>
                      IsOpen(j)' \/ j \in missed' \/ JobIn(j, {"written"})
               /\ JobIn(j, {"written"})' => JobIn(j, {"written"}) \/ Delivered(j)',
           \A j \in Job : task[j] = None /\ task'[j] # None =>
               /\ JobIn(j, {"queued"})'
               /\ task'[j].notice # None => notice'[task'[j].notice] # None,
           \A j \in Job : job'[j] # None => job[j] # None \/ task'[j] # None,
           \A n \in Notice : Sending(n) => Sending(n)' \/ n \in missed' \/ Queued(n)',
           \A n \in Notice : notice[n] = None /\ notice'[n] # None =>
               notice'[n].sent \/ Sending(n)',
           \A c \in Notifier : SenderOK(c)'
    PROVE  NoticeInv'
<1>1. ASSUME NEW j \in Job, task[j] # None, Delivered(j)
      PROVE  Delivered(j)'
    <2>1. task'[j] = task[j] /\ task[j] \in Task
        BY <1>1 DEF TasksGrow, NoticeInv, NoticeTypeOK
    <2>2. CASE task[j].notice # None
        <3>1. task[j].notice \in Notice /\ notice[task[j].notice] # None
            BY <1>1, <2>1, <2>2 DEF Task, NoticeInv, TaskOK
        <3>2. QED
            BY <1>1, <2>1, <2>2, <3>1 DEF Delivered, RowsGrow
    <2>3. CASE task[j].notice = None
        BY <1>1, <2>1, <2>3 DEF Delivered, Told, RowsGrow
    <2>4. QED
        BY <2>2, <2>3
<1>2. ASSUME NEW j \in Job
      PROVE  TaskOK(j)' /\ (job'[j] # None => task'[j] # None)
    <2>1. CASE task[j] # None
        <3>1. task'[j] = task[j] /\ task[j] \in Task /\ TaskOK(j)
            BY <2>1 DEF TasksGrow, NoticeInv, NoticeTypeOK
        <3>2. task'[j].notice # None => notice'[task'[j].notice] # None
            BY <2>1, <3>1 DEF TaskOK, Task, RowsGrow
        <3>3. IsOpen(j)' \/ j \in missed' \/ Delivered(j)'
            BY <1>1, <2>1, <3>1 DEF TaskOK
        <3>4. JobIn(j, {"written"})' => Delivered(j)'
            BY <1>1, <2>1, <3>1 DEF TaskOK
        <3>5. QED
            BY <2>1, <3>1, <3>2, <3>3, <3>4 DEF TaskOK
    <2>2. CASE task[j] = None /\ task'[j] # None
        <3>1. IsOpen(j)' /\ ~ JobIn(j, {"written"})'
            BY <2>2 DEF IsOpen, JobIn, Opened
        <3>2. QED
            BY <2>2, <3>1 DEF TaskOK
    <2>3. CASE task[j] = None /\ task'[j] = None
        BY <2>3 DEF TaskOK, NoticeInv
    <2>4. QED
        BY <2>1, <2>2, <2>3
<1>3. \A n \in Notice : Queued(n) => Queued(n)'
    BY DEF Queued, TasksGrow
<1>4. ASSUME NEW n \in Notice PROVE RowKept(n)'
    BY <1>3 DEF NoticeInv, RowKept, RowsGrow
<1>5. QED
    BY <1>2, <1>4 DEF NoticeInv

\* A step of one job: it stays open, fails for good, or is done.
LEMMA JobStep ==
    ASSUME NoticeInv, NEW j \in JobId, NEW x \in OpenJob \cup ClosedJob \cup {None},
           job[j] # None,
           job' = [job EXCEPT ![j] = x],
           missed' \in {missed, missed \cup {j}},
           UNCHANGED <<notice, task, notifying>>,
           IsOpen(j) => IsOpen(j)' \/ j \in missed' \/ JobIn(j, {"written"}),
           JobIn(j, {"written"})' => JobIn(j, {"written"})
    PROVE  NoticeInv'
<1>1. /\ job' \in [JobId -> OpenJob \cup ClosedJob \cup {None}]
      /\ \A i \in JobId \ {j} : job'[i] = job[i]
      /\ missed' \subseteq Notice \cup JobId
    BY DEF NoticeInv, NoticeTypeOK
<1>2. NoticeTypeOK'
    BY <1>1 DEF NoticeInv, NoticeTypeOK
<1>3. \A i \in Job : task[i] # None =>
          /\ IsOpen(i) => IsOpen(i)' \/ i \in missed' \/ JobIn(i, {"written"})
          /\ JobIn(i, {"written"})' => JobIn(i, {"written"})
    BY <1>1 DEF IsOpen, JobIn, JobId
<1>4. RowsGrow /\ TasksGrow
    BY DEF RowsGrow, TasksGrow
<1>5. \A n \in Notice : Sending(n) => Sending(n)'
    BY DEF Sending
<1>6. \A c \in Notifier : SenderOK(c)'
    BY DEF NoticeInv, SenderOK
<1>7. \A i \in Job : job'[i] # None => job[i] # None
    BY <1>1 DEF JobId
<1>8. QED
    BY <1>2, <1>3, <1>4, <1>5, <1>6, <1>7, NoticeStep

\* The record of an open job, with some fields changed.
LEMMA OpenRecord ==
    ASSUME NoticeInv, NEW j \in JobId, JobIn(j, Opened)
    PROVE  /\ job[j] \in OpenJob
           /\ job \in [JobId -> OpenJob \cup ClosedJob \cup {None}]
    BY DEF NoticeInv, NoticeTypeOK, JobIn, Opened, ClosedJob

LEMMA WorkerInv ==
    ASSUME NoticeInv, NEW j \in JobId,
           \/ TakeJob(j) \/ \E way \in Way : SendVia(j, way)
           \/ CompleteJob(j) \/ ForgetJob(j)
    PROVE  NoticeInv'
<1>1. CASE TakeJob(j)
    <2>1. PICK x : x = [job[j] EXCEPT !.state = "active"]
        OBVIOUS
    <2>2. job[j] \in OpenJob /\ job \in [JobId -> OpenJob \cup ClosedJob \cup {None}]
        BY <1>1, OpenRecord DEF TakeJob, JobIn, Opened
    <2>3. x \in OpenJob /\ x.state = "active" /\ x # None
        BY <2>1, <2>2, NoticeAssumption DEF OpenJob, Opened
    <2>4. job' = [job EXCEPT ![j] = x] /\ job[j] # None /\ job'[j] = x
        BY <1>1, <2>1, <2>2 DEF TakeJob, JobIn
    <2>5. IsOpen(j)' /\ ~ JobIn(j, {"written"})'
        BY <2>3, <2>4 DEF IsOpen, JobIn, Opened
    <2>6. QED
        BY <1>1, <2>3, <2>4, <2>5, JobStep DEF TakeJob
<1>2. ASSUME NEW way \in Way, SendVia(j, way) PROVE NoticeInv'
    <2>1. PICK x : x = [job[j] EXCEPT !.done = @ \cup {way}]
        OBVIOUS
    <2>2. job[j] \in OpenJob /\ job \in [JobId -> OpenJob \cup ClosedJob \cup {None}]
        BY <1>2, OpenRecord DEF SendVia, JobIn, Opened
    <2>3. x \in OpenJob /\ x.state = job[j].state /\ x # None
        BY <2>1, <2>2, NoticeAssumption DEF OpenJob
    <2>4. job' = [job EXCEPT ![j] = x] /\ job[j] # None /\ job'[j] = x
        BY <1>2, <2>1, <2>2 DEF SendVia, JobIn
    <2>5. IsOpen(j)' /\ ~ JobIn(j, {"written"})'
        BY <1>2, <2>3, <2>4 DEF SendVia, IsOpen, JobIn, Opened
    <2>6. QED
        BY <1>2, <2>3, <2>4, <2>5, JobStep DEF SendVia
<1>3. CASE CompleteJob(j)
    <2>1. PICK x : x = [state |-> "completed"]
        OBVIOUS
    <2>2. x \in ClosedJob /\ x.state = "completed"
        BY <2>1 DEF ClosedJob
    <2>3. job' = [job EXCEPT ![j] = x] /\ job[j] # None /\ job'[j] = x
        BY <1>3, <2>1 DEF CompleteJob, JobIn, NoticeInv, NoticeTypeOK
    <2>4. ~ JobIn(j, {"written"})' /\ JobIn(j, {"written"})
        BY <1>3, <2>2, <2>3 DEF CompleteJob, JobIn
    <2>5. QED
        BY <1>3, <2>2, <2>3, <2>4, JobStep DEF CompleteJob
<1>4. CASE ForgetJob(j)
    <2>1. job' = [job EXCEPT ![j] = None] /\ job[j] # None /\ job'[j] = None
        BY <1>4 DEF ForgetJob, JobIn, NoticeInv, NoticeTypeOK
    <2>2. ~ JobIn(j, {"written"})' /\ ~ IsOpen(j)
        BY <1>4, <2>1 DEF ForgetJob, IsOpen, JobIn, Opened
    <2>3. QED
        BY <1>4, <2>1, <2>2, JobStep DEF ForgetJob
<1>5. QED
    BY <1>1, <1>2, <1>3, <1>4

LEMMA FailForGoodInv ==
    ASSUME NoticeInv, NEW j \in JobId, IsOpen(j), FailForGood(j),
           UNCHANGED <<notice, task, notifying>>
    PROVE  NoticeInv'
<1>1. PICK x : x = [state |-> "failed"]
    OBVIOUS
<1>2. x \in ClosedJob /\ x.state = "failed"
    BY <1>1 DEF ClosedJob
<1>3. /\ job' = [job EXCEPT ![j] = x] /\ job[j] # None /\ job'[j] = x
      /\ missed' = missed \cup {j}
    BY <1>1 DEF FailForGood, IsOpen, JobIn, NoticeInv, NoticeTypeOK
<1>4. ~ JobIn(j, {"written"})' /\ j \in missed'
    BY <1>2, <1>3 DEF JobIn
<1>5. QED
    BY <1>2, <1>3, <1>4, JobStep

\* What fails or stalls is queued again, or is known to have failed.
LEMMA TroubleInv ==
    ASSUME NoticeInv, NEW j \in JobId, FailJob(j) \/ StallJob(j)
    PROVE  NoticeInv'
<1>1. /\ IsOpen(j) /\ job[j] # None /\ job[j] \in OpenJob
      /\ job \in [JobId -> OpenJob \cup ClosedJob \cup {None}]
      /\ UNCHANGED <<notice, task, notifying>>
    <2>1. JobIn(j, Opened)
        BY DEF FailJob, StallJob, JobIn, Opened
    <2>2. QED
        BY <2>1, OpenRecord DEF FailJob, StallJob, JobIn, IsOpen
<1>2. CASE FailForGood(j)
    BY <1>1, <1>2, FailForGoodInv
<1>3. ASSUME NEW x \in OpenJob, x.state = "queued",
             job' = [job EXCEPT ![j] = x], UNCHANGED missed
      PROVE  NoticeInv'
    <2>1. job'[j] = x /\ x # None
        BY <1>1, <1>3, NoticeAssumption
    <2>2. IsOpen(j)' /\ ~ JobIn(j, {"written"})'
        BY <1>3, <2>1 DEF IsOpen, JobIn, Opened
    <2>3. QED
        BY <1>1, <1>3, <2>2, JobStep
<1>4. CASE FailJob(j) /\ ~ FailForGood(j)
    <2>1. PICK x : x = [job[j] EXCEPT !.state = "queued", !.tries = @ + 1, !.done = {}]
        OBVIOUS
    <2>2. job[j].tries + 1 < Attempts /\ UNCHANGED missed
        BY <1>4 DEF FailJob
    <2>3. job[j].tries + 1 \in 0..(Attempts - 1)
        BY <1>1, <2>2, NoticeAssumption DEF OpenJob
    <2>4. x \in OpenJob /\ x.state = "queued"
        BY <1>1, <2>1, <2>3 DEF OpenJob, Opened
    <2>5. job' = [job EXCEPT ![j] = x]
        BY <1>1, <1>4, <2>1, <2>2 DEF FailJob
    <2>6. QED
        BY <1>3, <2>2, <2>4, <2>5
<1>5. CASE StallJob(j) /\ ~ FailForGood(j)
    <2>1. PICK x : x = [job[j] EXCEPT !.state = "queued", !.stalled = TRUE, !.done = {}]
        OBVIOUS
    <2>2. UNCHANGED missed /\ job' = [job EXCEPT ![j] = x]
        BY <1>1, <1>5, <2>1 DEF StallJob
    <2>3. x \in OpenJob /\ x.state = "queued"
        BY <1>1, <2>1 DEF OpenJob, Opened
    <2>4. QED
        BY <1>3, <2>2, <2>3
<1>6. QED
    BY <1>2, <1>4, <1>5

LEMMA WriteNoticeInv ==
    ASSUME NoticeInv, NEW j \in JobId, WriteNotice(j)
    PROVE  NoticeInv'
<1>1. PICK x : x = [job[j] EXCEPT !.state = "written", !.done = {}]
    OBVIOUS
<1>2. JobIn(j, Opened)
    BY DEF WriteNotice, JobIn, Opened
<1>3. job[j] \in OpenJob /\ job \in [JobId -> OpenJob \cup ClosedJob \cup {None}]
    BY <1>2, OpenRecord
<1>4. x \in OpenJob /\ x.state = "written" /\ x # None
    BY <1>1, <1>3, NoticeAssumption DEF OpenJob, Opened
<1>5. /\ job' = [job EXCEPT ![j] = x] /\ job[j] # None /\ job'[j] = x
      /\ \A i \in JobId \ {j} : job'[i] = job[i]
      /\ UNCHANGED <<task, notifying, missed>>
    BY <1>1, <1>2, <1>3 DEF WriteNotice, JobIn
<1>6. IsOpen(j)'
    BY <1>4, <1>5 DEF IsOpen, JobIn, Opened
<1>7. ASSUME j \in Job PROVE task[j] \in Task /\ TaskOf(j) = task[j] /\ TaskOK(j)
    BY <1>5, <1>7 DEF NoticeInv, NoticeTypeOK, TaskOf
<1>8. /\ TaskOf(j).to \in Circle
      /\ TaskOf(j).notice # None => /\ j \in Job
                                    /\ TaskOf(j).notice \in Notice
                                    /\ notice[TaskOf(j).notice] # None
    <2>1. CASE j \in Job
        BY <1>5, <1>7, <2>1 DEF NoticeInv, TaskOK, Task
    <2>2. CASE j \notin Job
        BY <2>2 DEF JobId, Reminder, TaskOf
    <2>3. QED
        BY <2>1, <2>2
<1>9. /\ notice' \in [Notice -> NoticeRow \cup {None}]
      /\ RowsGrow
      /\ \A n \in Notice : notice[n] = None /\ notice'[n] # None => notice'[n].sent
      /\ j \in Job => Delivered(j)'
    <2>1. CASE TaskOf(j).notice # None
        <3>1. PICK n \in Notice : n = TaskOf(j).notice /\ notice[n] # None
            BY <1>8, <2>1
        <3>2. notice' = [notice EXCEPT ![n].sent = TRUE]
            BY <2>1, <3>1 DEF WriteNotice
        <3>3. notice[n] \in NoticeRow /\ notice \in [Notice -> NoticeRow \cup {None}]
            BY <3>1 DEF NoticeInv, NoticeTypeOK
        <3>4. /\ [notice[n] EXCEPT !.sent = TRUE] \in NoticeRow
              /\ [notice[n] EXCEPT !.sent = TRUE].of = notice[n].of
              /\ [notice[n] EXCEPT !.sent = TRUE].sent
            BY <3>3 DEF NoticeRow
        <3>5. /\ notice' \in [Notice -> NoticeRow \cup {None}]
              /\ notice'[n] = [notice[n] EXCEPT !.sent = TRUE]
              /\ \A m \in Notice \ {n} : notice'[m] = notice[m]
            BY <3>2, <3>3, <3>4
        <3>6. [notice[n] EXCEPT !.sent = TRUE] # None
            BY <3>4, NoticeAssumption
        <3>7. RowsGrow
            BY <3>1, <3>4, <3>5, <3>6 DEF RowsGrow
        <3>8. \A m \in Notice : notice[m] = None /\ notice'[m] # None => notice'[m].sent
            BY <3>1, <3>5
        <3>9. j \in Job => Delivered(j)'
            BY <1>5, <1>7, <2>1, <3>1, <3>4, <3>5 DEF Delivered
        <3>10. QED
            BY <3>5, <3>7, <3>8, <3>9
    <2>2. CASE TaskOf(j).notice = None
        <3>1. PICK n \in Notice :
                  /\ notice[n] = None
                  /\ notice' = [notice EXCEPT ![n] =
                                   [to |-> TaskOf(j).to, sent |-> TRUE, of |-> j]]
            BY <2>2 DEF WriteNotice
        <3>2. PICK row : row = [to |-> TaskOf(j).to, sent |-> TRUE, of |-> j]
            OBVIOUS
        <3>3. j \in Job \cup (Person \X Nat)
            BY NoticeAssumption DEF JobId, Reminder
        <3>4. row \in NoticeRow /\ row.sent /\ row.of = j
            BY <1>8, <3>2, <3>3 DEF NoticeRow
        <3>5. notice \in [Notice -> NoticeRow \cup {None}] /\ row # None
            BY <3>4, NoticeAssumption DEF NoticeInv, NoticeTypeOK
        <3>6. /\ notice' \in [Notice -> NoticeRow \cup {None}]
              /\ notice'[n] = row
              /\ \A m \in Notice \ {n} : notice'[m] = notice[m]
            BY <3>1, <3>2, <3>4, <3>5
        <3>7. RowsGrow
            BY <3>1, <3>6 DEF RowsGrow
        <3>8. \A m \in Notice : notice[m] = None /\ notice'[m] # None => notice'[m].sent
            BY <3>4, <3>6
        <3>9. j \in Job => Delivered(j)'
            BY <1>5, <1>7, <2>2, <3>4, <3>5, <3>6 DEF Delivered, Told
        <3>10. QED
            BY <3>6, <3>7, <3>8, <3>9
    <2>3. QED
        BY <2>1, <2>2
<1>10. NoticeTypeOK'
    BY <1>3, <1>4, <1>5, <1>9 DEF NoticeInv, NoticeTypeOK
<1>11. TasksGrow
    BY <1>5 DEF TasksGrow
<1>12. \A i \in Job : task[i] # None =>
           /\ IsOpen(i) => IsOpen(i)' \/ i \in missed' \/ JobIn(i, {"written"})
           /\ JobIn(i, {"written"})' => JobIn(i, {"written"}) \/ Delivered(i)'
    BY <1>5, <1>6, <1>9 DEF IsOpen, JobIn, JobId
<1>13. \A n \in Notice : Sending(n) => Sending(n)'
    BY <1>5 DEF Sending
<1>14. \A c \in Notifier : SenderOK(c)'
    BY <1>5, <1>9 DEF NoticeInv, NoticeTypeOK, SenderOK, RowsGrow, Notifying
<1>15. \A i \in Job : job'[i] # None => job[i] # None \/ task'[i] # None
    BY <1>5 DEF JobId
<1>16. QED
    BY <1>5, <1>9, <1>10, <1>11, <1>12, <1>13, <1>14, <1>15, NoticeStep

\* A step of a caller whose work is about reminders, or ends here.
LEMMA CallerStep ==
    ASSUME NoticeInv, NEW c \in Notifier, NEW x \in Notifying \cup {None},
           notifying' = [notifying EXCEPT ![c] = x],
           UNCHANGED <<notice, task>>,
           job' \in [JobId -> OpenJob \cup ClosedJob \cup {None}],
           \A j \in Job : job'[j] = job[j],
           missed \subseteq missed', missed' \subseteq Notice \cup JobId,
           x # None => x.pc \in {"remind", "cancel"},
           notifying[c] # None /\ notifying[c].pc \in {"queue", "bulk"} =>
               \A p \in notifying[c].rest : p[1] \in missed'
    PROVE  NoticeInv'
<1>1. /\ notifying' \in [Notifier -> Notifying \cup {None}]
      /\ notifying'[c] = x
      /\ \A d \in Notifier \ {c} : notifying'[d] = notifying[d]
    BY DEF NoticeInv, NoticeTypeOK
<1>2. NoticeTypeOK'
    BY <1>1 DEF NoticeInv, NoticeTypeOK
<1>3. RowsGrow /\ TasksGrow
    BY DEF RowsGrow, TasksGrow
<1>4. \A j \in Job : task[j] # None =>
          /\ IsOpen(j) => IsOpen(j)'
          /\ JobIn(j, {"written"})' => JobIn(j, {"written"})
    BY DEF IsOpen, JobIn
<1>5. ASSUME NEW n \in Notice, Sending(n), n \notin missed' PROVE Sending(n)'
    <2>1. PICK d \in Notifier :
              /\ notifying[d] # None
              /\ notifying[d].pc \in {"queue", "bulk"}
              /\ \E w \in Way : <<n, w>> \in notifying[d].rest
        BY <1>5 DEF Sending
    <2>2. d # c
        BY <1>5, <2>1
    <2>3. QED
        BY <1>1, <2>1, <2>2 DEF Sending
<1>6. ASSUME NEW d \in Notifier PROVE SenderOK(d)'
    BY <1>1 DEF NoticeInv, SenderOK
<1>7. QED
    BY <1>2, <1>3, <1>4, <1>5, <1>6, NoticeStep

\* What is left of a call about reminders.
LEMMA RestRecord ==
    ASSUME NoticeInv, NEW c \in Notifier, NEW rest \in SUBSET Reminder,
           Noticing(c, "remind") \/ Noticing(c, "cancel"), NotifyRest(c, rest)
    PROVE  \E x \in Notifying \cup {None} :
               /\ notifying' = [notifying EXCEPT ![c] = x]
               /\ x # None => x.pc \in {"remind", "cancel"}
<1>1. notifying[c] \in [pc : {"remind", "cancel"}, rest : SUBSET Reminder]
    BY DEF Noticing, NoticeInv, NoticeTypeOK, Notifying
<1>2. notifying \in [Notifier -> Notifying \cup {None}]
    BY DEF NoticeInv, NoticeTypeOK
<1>3. CASE rest = {}
    BY <1>3 DEF NotifyRest
<1>4. CASE rest # {}
    <2>1. PICK x : x = [notifying[c] EXCEPT !.rest = rest]
        OBVIOUS
    <2>2. x \in [pc : {"remind", "cancel"}, rest : SUBSET Reminder]
        BY <1>1, <2>1
    <2>3. x \in Notifying /\ x.pc \in {"remind", "cancel"}
        BY <2>2 DEF Notifying
    <2>4. notifying' = [notifying EXCEPT ![c] = x]
        BY <1>2, <1>4, <2>1 DEF NotifyRest
    <2>5. QED
        BY <2>3, <2>4
<1>5. QED
    BY <1>3, <1>4

\* Setting, finding and removing reminders touches no message.
LEMMA RemindersInv ==
    ASSUME NoticeInv, NEW c \in Notifier,
           \/ \E days \in Offset : ScheduleReminders(c, days)
           \/ QueueReminder(c) \/ FindReminders(c) \/ RemoveReminder(c)
    PROVE  NoticeInv'
<1>1. /\ job \in [JobId -> OpenJob \cup ClosedJob \cup {None}]
      /\ missed \subseteq Notice \cup JobId
      /\ UNCHANGED <<notice, task, missed>>
      /\ notifying[c] # None => notifying[c].pc \notin {"queue", "bulk"}
    BY DEF NoticeInv, NoticeTypeOK, ScheduleReminders, QueueReminder,
           FindReminders, RemoveReminder, Noticing
<1>2. \A r \in Reminder : r \in JobId /\ r \notin Job
    <2>1. ASSUME NEW r \in Reminder PROVE r \in Person \X Nat
        BY <2>1, NoticeAssumption DEF Reminder
    <2>2. QED
        BY <2>1, NoticeAssumption DEF JobId
<1>3. ASSUME NEW pc \in {"remind", "cancel"}, NEW rest \in SUBSET Reminder,
             notifying' = [notifying EXCEPT ![c] = [pc |-> pc, rest |-> rest]],
             UNCHANGED job
      PROVE  NoticeInv'
    <2>1. PICK x : x = [pc |-> pc, rest |-> rest]
        OBVIOUS
    <2>2. x \in Notifying /\ x.pc \in {"remind", "cancel"}
        BY <2>1 DEF Notifying
    <2>3. notifying' = [notifying EXCEPT ![c] = x]
        BY <1>3, <2>1
    <2>4. QED
        BY <1>1, <1>3, <2>2, <2>3, CallerStep
<1>4. ASSUME NEW days \in Offset, ScheduleReminders(c, days) PROVE NoticeInv'
    BY <1>3, <1>4 DEF ScheduleReminders
<1>5. CASE FindReminders(c)
    BY <1>3, <1>5 DEF FindReminders
<1>6. CASE QueueReminder(c)
    <2>1. Noticing(c, "remind") /\ notifying[c].rest \in SUBSET Reminder
        BY <1>6 DEF QueueReminder, Noticing, NoticeInv, NoticeTypeOK, Notifying
    <2>2. PICK r \in notifying[c].rest :
              /\ job' = IF job[r] = None THEN [job EXCEPT ![r] = NewJob] ELSE job
              /\ NotifyRest(c, notifying[c].rest \ {r})
        BY <1>6 DEF QueueReminder
    <2>3. NewJob \in OpenJob
        BY NoticeAssumption DEF NewJob, OpenJob, Opened
    <2>4. /\ job' \in [JobId -> OpenJob \cup ClosedJob \cup {None}]
          /\ \A j \in Job : job'[j] = job[j]
        BY <1>1, <1>2, <2>1, <2>2, <2>3 DEF JobId
    <2>5. notifying[c].rest \ {r} \in SUBSET Reminder
        BY <2>1
    <2>6. PICK x \in Notifying \cup {None} :
              /\ notifying' = [notifying EXCEPT ![c] = x]
              /\ x # None => x.pc \in {"remind", "cancel"}
        BY <2>1, <2>2, <2>5, RestRecord
    <2>7. QED
        BY <1>1, <2>4, <2>6, CallerStep
<1>7. CASE RemoveReminder(c)
    <2>1. Noticing(c, "cancel") /\ notifying[c].rest \in SUBSET Reminder
        BY <1>7 DEF RemoveReminder, Noticing, NoticeInv, NoticeTypeOK, Notifying
    <2>2. PICK r \in notifying[c].rest :
              \/ NotifyReturn(c) /\ UNCHANGED job
              \/ /\ job' = [job EXCEPT ![r] = None]
                 /\ NotifyRest(c, notifying[c].rest \ {r})
        BY <1>7 DEF RemoveReminder
    <2>3. /\ job' \in [JobId -> OpenJob \cup ClosedJob \cup {None}]
          /\ \A j \in Job : job'[j] = job[j]
        BY <1>1, <1>2, <2>1, <2>2 DEF JobId
    <2>4. notifying[c].rest \ {r} \in SUBSET Reminder
        BY <2>1
    <2>5. PICK x \in Notifying \cup {None} :
              /\ notifying' = [notifying EXCEPT ![c] = x]
              /\ x # None => x.pc \in {"remind", "cancel"}
        BY <2>1, <2>2, <2>4, RestRecord DEF NotifyReturn
    <2>6. QED
        BY <1>1, <2>3, <2>5, CallerStep
<1>8. QED
    BY <1>4, <1>5, <1>6, <1>7

\* A call that breaks off leaves its rows known as missed.
LEMMA BreakOffInv ==
    ASSUME NoticeInv, NEW c \in Notifier, BreakOff(c)
    PROVE  NoticeInv'
<1>1. /\ notifying' = [notifying EXCEPT ![c] = None]
      /\ UNCHANGED <<notice, task, job>>
      /\ missed' = missed \cup (IF notifying[c].pc \in {"queue", "bulk"}
                                THEN {p[1] : p \in notifying[c].rest} ELSE {})
    BY DEF BreakOff, NotifyReturn
<1>2. notifying[c] \in Notifying
    BY DEF BreakOff, NoticeInv, NoticeTypeOK
<1>3. notifying[c].pc \in {"queue", "bulk"} =>
          notifying[c].rest \in SUBSET (Notice \X Way)
    BY <1>2 DEF Notifying
<1>4. missed' \subseteq Notice \cup JobId
    BY <1>1, <1>3 DEF NoticeInv, NoticeTypeOK
<1>5. QED
    BY <1>1, <1>4, CallerStep DEF NoticeInv, NoticeTypeOK

\* Rows that are new have a sender at work.
LEMMA NewRows ==
    ASSUME NoticeInv, NEW c \in Notifier, NEW ids \in SUBSET Notice,
           NEW ways \in Channels, NEW pc \in {"queue", "bulk"},
           notifying[c] = None,
           notifying' = [notifying EXCEPT ![c] = [pc |-> pc, rest |-> ids \X ways]],
           \A n \in ids : notice[n] = None,
           notice' \in [Notice -> NoticeRow \cup {None}],
           \A n \in Notice \ ids : notice'[n] = notice[n],
           \A n \in ids : notice'[n] # None,
           UNCHANGED <<task, job, missed>>
    PROVE  NoticeInv'
<1>1. PICK x : x = [pc |-> pc, rest |-> ids \X ways]
    OBVIOUS
<1>2. ways \in SUBSET Way /\ ways # {}
    <2>1. Channels \subseteq (SUBSET Way) \ {{}}
        BY NoticeAssumption
    <2>2. QED
        BY <2>1
<1>3. ids \X ways \in SUBSET (Notice \X Way)
    BY <1>2
<1>4. x \in Notifying /\ x.pc = pc /\ x.rest = ids \X ways /\ x # None
    BY <1>1, <1>3, NoticeAssumption DEF Notifying
<1>5. /\ notifying' \in [Notifier -> Notifying \cup {None}]
      /\ notifying'[c] = x
      /\ \A d \in Notifier \ {c} : notifying'[d] = notifying[d]
    BY <1>1, <1>4 DEF NoticeInv, NoticeTypeOK
<1>6. NoticeTypeOK'
    BY <1>5 DEF NoticeInv, NoticeTypeOK
<1>7. RowsGrow /\ TasksGrow
    BY DEF RowsGrow, TasksGrow
<1>8. \A j \in Job : /\ IsOpen(j) => IsOpen(j)'
                     /\ JobIn(j, {"written"})' => JobIn(j, {"written"})
    BY DEF IsOpen, JobIn
<1>9. ASSUME NEW n \in Notice, Sending(n) PROVE Sending(n)'
    BY <1>5, <1>9 DEF Sending
<1>10. ASSUME NEW n \in ids PROVE Sending(n)'
    <2>1. PICK w \in ways : <<n, w>> \in ids \X ways
        BY <1>2
    <2>2. QED
        BY <1>2, <1>4, <1>5, <2>1 DEF Sending
<1>11. ASSUME NEW d \in Notifier PROVE SenderOK(d)'
    <2>1. CASE d = c
        BY <1>4, <1>5, <2>1 DEF SenderOK
    <2>2. CASE d # c
        <3>1. SenderOK(d) /\ notifying'[d] = notifying[d]
            BY <1>5, <2>2 DEF NoticeInv
        <3>2. notifying[d] # None /\ notifying[d].pc \in {"queue", "bulk"} =>
                  notifying[d].rest \in SUBSET (Notice \X Way)
            BY DEF NoticeInv, NoticeTypeOK, Notifying
        <3>3. QED
            BY <1>7, <3>1, <3>2 DEF SenderOK, RowsGrow
    <2>3. QED
        BY <2>1, <2>2
<1>12. \A n \in Notice : notice[n] = None /\ notice'[n] # None => Sending(n)'
    BY <1>10
<1>13. QED
    BY <1>6, <1>7, <1>8, <1>9, <1>11, <1>12, NoticeStep

LEMMA SendNoticeInv ==
    ASSUME NoticeInv, NEW c \in Notifier, NEW u \in Circle, NEW ways \in Channels,
           SendNotice(c, u, ways)
    PROVE  NoticeInv'
<1>1. PICK n \in Notice :
          /\ notice[n] = None
          /\ notice' = [notice EXCEPT ![n] = [to |-> u, sent |-> FALSE, of |-> None]]
          /\ notifying' = [notifying EXCEPT ![c] = [pc |-> "queue", rest |-> {n} \X ways]]
    BY DEF SendNotice
<1>2. PICK row : row = [to |-> u, sent |-> FALSE, of |-> None]
    OBVIOUS
<1>3. row \in NoticeRow
    BY <1>2 DEF NoticeRow
<1>4. row # None /\ notice \in [Notice -> NoticeRow \cup {None}]
    BY <1>3, NoticeAssumption DEF NoticeInv, NoticeTypeOK
<1>5. /\ notice' \in [Notice -> NoticeRow \cup {None}]
      /\ notice'[n] = row
      /\ \A m \in Notice \ {n} : notice'[m] = notice[m]
    BY <1>1, <1>2, <1>3, <1>4
<1>6. PICK ids \in SUBSET Notice : ids = {n}
    OBVIOUS
<1>7. /\ \A m \in ids : notice[m] = None /\ notice'[m] # None
      /\ \A m \in Notice \ ids : notice'[m] = notice[m]
    BY <1>1, <1>4, <1>5, <1>6
<1>8. notifying' = [notifying EXCEPT ![c] = [pc |-> "queue", rest |-> ids \X ways]]
    BY <1>1, <1>6
<1>9. notifying[c] = None /\ UNCHANGED <<task, job, missed>>
    BY DEF SendNotice
<1>10. QED
    BY <1>5, <1>7, <1>8, <1>9, NewRows

LEMMA SendBulkInv ==
    ASSUME NoticeInv, NEW c \in Notifier, NEW ids \in SUBSET Notice,
           NEW ways \in Channels, SendBulk(c, ids, ways)
    PROVE  NoticeInv'
<1>1. PICK to \in [ids -> Circle] :
          notice' = [n \in Notice |->
              IF n \in ids THEN [to |-> to[n], sent |-> FALSE, of |-> None]
                           ELSE notice[n]]
    BY DEF SendBulk
<1>2. ASSUME NEW n \in ids
      PROVE  /\ notice'[n] \in NoticeRow
             /\ notice'[n] # None
    <2>1. notice'[n] = [to |-> to[n], sent |-> FALSE, of |-> None] /\ to[n] \in Circle
        BY <1>1
    <2>2. notice'[n] \in NoticeRow
        BY <2>1 DEF NoticeRow
    <2>3. QED
        BY <2>2, NoticeAssumption
<1>3. /\ notice' \in [Notice -> NoticeRow \cup {None}]
      /\ \A n \in Notice \ ids : notice'[n] = notice[n]
    BY <1>1, <1>2 DEF NoticeInv, NoticeTypeOK
<1>4. /\ notifying[c] = None /\ UNCHANGED <<task, job, missed>>
      /\ \A n \in ids : notice[n] = None
      /\ notifying' = [notifying EXCEPT ![c] = [pc |-> "bulk", rest |-> ids \X ways]]
    BY DEF SendBulk
<1>5. QED
    BY <1>2, <1>3, <1>4, NewRows

\* Tasks that are new are queued, for rows that are there.
LEMMA NewTasks ==
    ASSUME NoticeInv, NEW given \in SUBSET Job,
           \A j \in given : task[j] = None,
           task' \in [Job -> Task \cup {None}],
           \A j \in Job \ given : task'[j] = task[j],
           \A j \in given :
               /\ task'[j] # None
               /\ task'[j].notice # None => notice[task'[j].notice] # None,
           job' \in [JobId -> OpenJob \cup ClosedJob \cup {None}],
           \A j \in given : job'[j] = NewJob,
           \A j \in JobId \ given : job'[j] = job[j],
           notifying' \in [Notifier -> Notifying \cup {None}],
           \A n \in Notice : Sending(n) => Sending(n)' \/ Queued(n)',
           \A c \in Notifier : SenderOK(c)',
           UNCHANGED <<notice, missed>>
    PROVE  NoticeInv'
<1>1. NoticeTypeOK'
    BY DEF NoticeInv, NoticeTypeOK
<1>2. RowsGrow
    BY DEF RowsGrow
<1>3. TasksGrow
    BY DEF TasksGrow
<1>4. ASSUME NEW j \in Job, task[j] # None
      PROVE  /\ IsOpen(j) => IsOpen(j)'
             /\ JobIn(j, {"written"})' => JobIn(j, {"written"})
    BY <1>4 DEF IsOpen, JobIn, JobId
<1>5. ASSUME NEW j \in Job, task[j] = None, task'[j] # None
      PROVE  /\ JobIn(j, {"queued"})'
             /\ task'[j].notice # None => notice'[task'[j].notice] # None
    <2>1. j \in given
        BY <1>5
    <2>2. NewJob # None /\ NewJob.state = "queued"
        <3>1. NewJob \in OpenJob
            BY NoticeAssumption DEF NewJob, OpenJob, Opened
        <3>2. QED
            BY <3>1, NoticeAssumption DEF NewJob
    <2>3. QED
        BY <2>1, <2>2 DEF JobIn
<1>6. \A j \in Job : job'[j] # None => job[j] # None \/ task'[j] # None
    BY DEF JobId
<1>7. QED
    BY <1>1, <1>2, <1>3, <1>4, <1>5, <1>6, NoticeStep

LEMMA OneNewTask ==
    ASSUME NoticeInv, NEW j \in Job, NEW x \in Task, task[j] = None,
           task' = [task EXCEPT ![j] = x],
           x.notice # None => notice[x.notice] # None,
           job' = [job EXCEPT ![j] = NewJob],
           notifying' \in [Notifier -> Notifying \cup {None}],
           \A n \in Notice : Sending(n) => Sending(n)' \/ n = x.notice,
           \A c \in Notifier : SenderOK(c)',
           UNCHANGED <<notice, missed>>
    PROVE  NoticeInv'
<1>1. PICK given \in SUBSET Job : given = {j}
    OBVIOUS
<1>2. x # None
    BY NoticeAssumption
<1>3. NewJob \in OpenJob
    BY NoticeAssumption DEF NewJob, OpenJob, Opened
<1>4. /\ task' \in [Job -> Task \cup {None}]
      /\ task'[j] = x
      /\ \A i \in Job \ {j} : task'[i] = task[i]
    BY DEF NoticeInv, NoticeTypeOK
<1>5. /\ job' \in [JobId -> OpenJob \cup ClosedJob \cup {None}]
      /\ job'[j] = NewJob
      /\ \A i \in JobId \ {j} : job'[i] = job[i]
    BY <1>3 DEF NoticeInv, NoticeTypeOK, JobId
<1>6. \A n \in Notice : Sending(n) => Sending(n)' \/ Queued(n)'
    BY <1>2, <1>4 DEF Queued
<1>7. QED
    BY <1>1, <1>2, <1>4, <1>5, <1>6, NewTasks

LEMMA NotifyEventInv ==
    ASSUME NoticeInv, NEW u \in Circle, NotifyEvent(u)
    PROVE  NoticeInv'
<1>1. PICK j \in Job :
          /\ task[j] = None
          /\ task' = [task EXCEPT ![j] =
                [notice |-> None, to |-> u, ways |-> {"EMAIL", "SMS"}]]
          /\ job' = [job EXCEPT ![j] = NewJob]
    BY DEF NotifyEvent
<1>2. PICK x : x = [notice |-> None, to |-> u, ways |-> {"EMAIL", "SMS"}]
    OBVIOUS
<1>3. x \in Task /\ x.notice = None
    BY <1>2 DEF Task, Way
<1>4. UNCHANGED <<notice, notifying, missed>>
    BY DEF NotifyEvent
<1>5. /\ \A n \in Notice : Sending(n) => Sending(n)'
      /\ \A c \in Notifier : SenderOK(c)'
    BY <1>4 DEF NoticeInv, Sending, SenderOK
<1>6. notifying' \in [Notifier -> Notifying \cup {None}]
    BY <1>4 DEF NoticeInv, NoticeTypeOK
<1>7. task' = [task EXCEPT ![j] = x]
    BY <1>1, <1>2
<1>8. QED
    BY <1>1, <1>3, <1>4, <1>5, <1>6, <1>7, OneNewTask

\* A sender's rows, and what is left of its work.
LEMMA SenderRows ==
    ASSUME NoticeInv, NEW c \in Notifier, Noticing(c, "queue") \/ Noticing(c, "bulk")
    PROVE  /\ notifying[c].rest \in SUBSET (Notice \X Way)
           /\ \A p \in notifying[c].rest :
                 /\ p[1] \in Notice /\ p[2] \in Way
                 /\ p = <<p[1], p[2]>>
                 /\ notice[p[1]] # None /\ notice[p[1]] \in NoticeRow
<1>1. notifying[c].rest \in SUBSET (Notice \X Way)
    BY DEF Noticing, NoticeInv, NoticeTypeOK, Notifying
<1>2. \A p \in notifying[c].rest : notice[p[1]] # None
    BY DEF Noticing, NoticeInv, SenderOK
<1>3. QED
    BY <1>1, <1>2 DEF NoticeInv, NoticeTypeOK

LEMMA QueueOneInv ==
    ASSUME NoticeInv, NEW c \in Notifier, QueueOne(c)
    PROVE  NoticeInv'
<1>1. PICK p \in notifying[c].rest, j \in Job :
          /\ task[j] = None
          /\ task' = [task EXCEPT ![j] = [notice |-> p[1], to |-> notice[p[1]].to,
                                          ways |-> {p[2]}]]
          /\ job' = [job EXCEPT ![j] = NewJob]
          /\ NotifyRest(c, notifying[c].rest \ {p})
    BY DEF QueueOne
<1>2. Noticing(c, "queue") /\ UNCHANGED <<notice, missed>>
    BY DEF QueueOne
<1>3. /\ notifying[c].rest \in SUBSET (Notice \X Way)
      /\ p[1] \in Notice /\ p[2] \in Way /\ p = <<p[1], p[2]>>
      /\ notice[p[1]] # None /\ notice[p[1]] \in NoticeRow
    BY <1>2, SenderRows
<1>4. PICK x : x = [notice |-> p[1], to |-> notice[p[1]].to, ways |-> {p[2]}]
    OBVIOUS
<1>5. x \in Task /\ x.notice = p[1]
    BY <1>3, <1>4 DEF Task, NoticeRow
<1>6. PICK rest : rest = notifying[c].rest \ {p}
    OBVIOUS
<1>7. \E y \in Notifying \cup {None} :
          /\ notifying' = [notifying EXCEPT ![c] = y]
          /\ IF rest = {} THEN y = None
             ELSE y # None /\ y.pc = "queue" /\ y.rest = rest
    <2>1. CASE rest = {}
        BY <1>1, <1>6, <2>1 DEF NotifyRest
    <2>2. CASE rest # {}
        <3>1. PICK y : y = [notifying[c] EXCEPT !.rest = rest]
            OBVIOUS
        <3>2. /\ notifying[c] \in [pc : {"queue", "bulk"}, rest : SUBSET (Notice \X Way)]
              /\ notifying[c].pc = "queue"
            BY <1>2 DEF Noticing, NoticeInv, NoticeTypeOK, Notifying
        <3>3. /\ y \in [pc : {"queue", "bulk"}, rest : SUBSET (Notice \X Way)]
              /\ y.pc = "queue" /\ y.rest = rest
            BY <1>3, <1>6, <3>1, <3>2
        <3>4. y \in Notifying
            BY <3>3 DEF Notifying
        <3>5. y # None
            BY <3>4, NoticeAssumption
        <3>6. notifying' = [notifying EXCEPT ![c] = y]
            BY <1>1, <1>6, <2>2, <3>1 DEF NotifyRest, NoticeInv, NoticeTypeOK
        <3>7. QED
            BY <2>2, <3>3, <3>4, <3>5, <3>6
    <2>3. QED
        BY <2>1, <2>2
<1>8. PICK y \in Notifying \cup {None} :
          /\ notifying' = [notifying EXCEPT ![c] = y]
          /\ IF rest = {} THEN y = None
             ELSE y # None /\ y.pc = "queue" /\ y.rest = rest
    BY <1>7
<1>9. /\ notifying' \in [Notifier -> Notifying \cup {None}]
      /\ notifying'[c] = y
      /\ \A d \in Notifier \ {c} : notifying'[d] = notifying[d]
    BY <1>8 DEF NoticeInv, NoticeTypeOK
<1>10. ASSUME NEW n \in Notice, Sending(n), n # p[1] PROVE Sending(n)'
    <2>1. PICK d \in Notifier, w \in Way :
              /\ notifying[d] # None
              /\ notifying[d].pc \in {"queue", "bulk"}
              /\ <<n, w>> \in notifying[d].rest
        BY <1>10 DEF Sending
    <2>2. CASE d # c
        BY <1>9, <2>1, <2>2 DEF Sending
    <2>3. CASE d = c
        <3>1. <<n, w>> # p
            BY <1>10
        <3>2. <<n, w>> \in rest
            BY <1>6, <2>1, <2>3, <3>1
        <3>3. QED
            BY <1>8, <1>9, <3>2 DEF Sending
    <2>4. QED
        BY <2>2, <2>3
<1>11. ASSUME NEW d \in Notifier PROVE SenderOK(d)'
    <2>1. CASE d # c
        BY <1>2, <1>9, <2>1 DEF NoticeInv, SenderOK
    <2>2. CASE d = c
        <3>1. \A q \in rest : notice[q[1]] # None
            BY <1>2, <1>6, SenderRows
        <3>2. QED
            BY <1>2, <1>8, <1>9, <2>2, <3>1 DEF SenderOK
    <2>3. QED
        BY <2>1, <2>2
<1>12. task' = [task EXCEPT ![j] = x]
    BY <1>1, <1>4
<1>13. x.notice # None => notice[x.notice] # None
    BY <1>3, <1>5
<1>14. \A n \in Notice : Sending(n) => Sending(n)' \/ n = x.notice
    BY <1>5, <1>10
<1>15. QED
    BY <1>1, <1>2, <1>5, <1>9, <1>11, <1>12, <1>13, <1>14, OneNewTask

\* All jobs of a bulk message are queued at once, each under an id of its own.
LEMMA QueueAllInv ==
    ASSUME NoticeInv, NEW c \in Notifier, QueueAll(c)
    PROVE  NoticeInv'
<1> DEFINE rest == notifying[c].rest
<1>1. rest = notifying[c].rest
    OBVIOUS
<1>2. PICK id \in [rest -> {j \in Job : task[j] = None}] :
          /\ \A p, q \in rest : id[p] = id[q] => p = q
          /\ LET given == {id[p] : p \in rest}
                 For(j) == CHOOSE p \in rest : id[p] = j
             IN  /\ task' = [j \in Job |->
                       IF j \in given
                       THEN [notice |-> For(j)[1], to |-> notice[For(j)[1]].to,
                             ways |-> {For(j)[2]}]
                       ELSE task[j]]
                 /\ job' = [j \in JobId |->
                       IF j \in given THEN NewJob ELSE job[j]]
    BY DEF QueueAll
<1> HIDE DEF rest
<1> DEFINE given == {id[p] : p \in rest}
           For(j) == CHOOSE p \in rest : id[p] = j
<1>3. /\ task' = [j \in Job |->
             IF j \in given
             THEN [notice |-> For(j)[1], to |-> notice[For(j)[1]].to,
                   ways |-> {For(j)[2]}]
             ELSE task[j]]
      /\ job' = [j \in JobId |-> IF j \in given THEN NewJob ELSE job[j]]
    BY <1>2
<1>4. /\ given \in SUBSET Job
      /\ \A j \in given : task[j] = None /\ For(j) \in rest
      /\ \A p \in rest : id[p] \in given /\ For(id[p]) = p
    BY <1>2
<1> HIDE DEF given, For
<1>5. /\ Noticing(c, "bulk") /\ UNCHANGED <<notice, missed>>
      /\ notifying' = [notifying EXCEPT ![c] = None]
    BY DEF QueueAll, NotifyReturn
<1>6. /\ rest \in SUBSET (Notice \X Way)
      /\ \A p \in rest :
            /\ p[1] \in Notice /\ p[2] \in Way
            /\ notice[p[1]] # None /\ notice[p[1]] \in NoticeRow
    BY <1>1, <1>5, SenderRows
<1>7. ASSUME NEW j \in given
      PROVE  /\ task'[j] \in Task /\ task'[j] # None
             /\ task'[j].notice = For(j)[1]
             /\ task'[j].notice # None => notice[task'[j].notice] # None
    <2>1. For(j) \in rest /\ j \in Job
        BY <1>4
    <2>2. PICK x : x = [notice |-> For(j)[1], to |-> notice[For(j)[1]].to,
                        ways |-> {For(j)[2]}]
        OBVIOUS
    <2>3. task'[j] = x
        BY <1>3, <2>1, <2>2
    <2>4. x \in Task /\ x.notice = For(j)[1]
        BY <1>6, <2>1, <2>2 DEF Task, NoticeRow
    <2>5. x # None
        BY <2>4, NoticeAssumption
    <2>6. QED
        BY <1>6, <2>1, <2>3, <2>4, <2>5
<1>8. /\ task' \in [Job -> Task \cup {None}]
      /\ \A j \in Job \ given : task'[j] = task[j]
    <2>1. \A j \in Job \ given : task'[j] = task[j] /\ task[j] \in Task \cup {None}
        BY <1>3 DEF NoticeInv, NoticeTypeOK
    <2>2. DOMAIN task' = Job /\ task' = [j \in Job |-> task'[j]]
        BY <1>3
    <2>3. QED
        BY <1>7, <2>1, <2>2
<1>9. /\ job' \in [JobId -> OpenJob \cup ClosedJob \cup {None}]
      /\ \A j \in given : job'[j] = NewJob
      /\ \A j \in JobId \ given : job'[j] = job[j]
    <2>1. NewJob \in OpenJob
        BY NoticeAssumption DEF NewJob, OpenJob, Opened
    <2>2. QED
        BY <1>3, <1>4, <2>1 DEF NoticeInv, NoticeTypeOK, JobId
<1>10. /\ notifying' \in [Notifier -> Notifying \cup {None}]
       /\ notifying'[c] = None
       /\ \A d \in Notifier \ {c} : notifying'[d] = notifying[d]
    BY <1>5 DEF NoticeInv, NoticeTypeOK
<1>11. ASSUME NEW n \in Notice, Sending(n) PROVE Sending(n)' \/ Queued(n)'
    <2>1. PICK d \in Notifier, w \in Way :
              /\ notifying[d] # None
              /\ notifying[d].pc \in {"queue", "bulk"}
              /\ <<n, w>> \in notifying[d].rest
        BY <1>11 DEF Sending
    <2>2. CASE d # c
        BY <1>10, <2>1, <2>2 DEF Sending
    <2>3. CASE d = c
        <3>1. <<n, w>> \in rest
            BY <1>1, <2>1, <2>3
        <3>2. PICK j \in given : For(j) = <<n, w>>
            BY <1>4, <3>1
        <3>3. task'[j].notice = n /\ task'[j] # None /\ j \in Job
            BY <1>4, <1>7, <3>2
        <3>4. QED
            BY <3>3 DEF Queued
    <2>4. QED
        BY <2>2, <2>3
<1>12. ASSUME NEW d \in Notifier PROVE SenderOK(d)'
    BY <1>5, <1>10 DEF NoticeInv, SenderOK
<1>13. \A j \in given : task[j] = None
    BY <1>4
<1>14. QED
    BY <1>4, <1>5, <1>7, <1>8, <1>9, <1>10, <1>11, <1>12, <1>13, NewTasks

LEMMA NoticeInitInv == NoticeInit => NoticeInv
<1>1. SUFFICES ASSUME NoticeInit PROVE NoticeInv
    OBVIOUS
<1>2. /\ \A n \in Notice : notice[n] = None
      /\ \A j \in Job : task[j] = None /\ job[j] = None
      /\ \A c \in Notifier : notifying[c] = None
    BY <1>1 DEF NoticeInit, JobId
<1>3. NoticeTypeOK
    <2>1. /\ notice \in [Notice -> NoticeRow \cup {None}]
          /\ task \in [Job -> Task \cup {None}]
        BY <1>1 DEF NoticeInit
    <2>2. job \in [JobId -> OpenJob \cup ClosedJob \cup {None}]
        BY <1>1 DEF NoticeInit
    <2>3. notifying \in [Notifier -> Notifying \cup {None}]
        BY <1>1 DEF NoticeInit
    <2>4. QED
        BY <1>1, <2>1, <2>2, <2>3 DEF NoticeInit, NoticeTypeOK
<1>4. QED
    BY <1>2, <1>3 DEF NoticeInv, TaskOK, RowKept, SenderOK

LEMMA NoticeStepInv == NoticeInv /\ [NoticeNext]_noticeVars => NoticeInv'
<1>1. SUFFICES ASSUME NoticeInv, [NoticeNext]_noticeVars PROVE NoticeInv'
    OBVIOUS
<1>2. CASE UNCHANGED noticeVars
    BY <1>1, <1>2 DEF noticeVars, NoticeInv, NoticeTypeOK, TaskOK, RowKept,
                      SenderOK, Delivered, Told, Queued, Sending, IsOpen, JobIn
<1>3. ASSUME NEW c \in Notifier,
             \/ \E ways \in Channels :
                   \/ \E u \in Circle : SendNotice(c, u, ways)
                   \/ \E ids \in SUBSET Notice : SendBulk(c, ids, ways)
             \/ \E days \in Offset : ScheduleReminders(c, days)
             \/ QueueOne(c) \/ QueueAll(c)
             \/ QueueReminder(c) \/ FindReminders(c) \/ RemoveReminder(c)
             \/ BreakOff(c)
      PROVE  NoticeInv'
    BY <1>1, <1>3, SendNoticeInv, SendBulkInv, QueueOneInv, QueueAllInv,
       RemindersInv, BreakOffInv
<1>4. ASSUME NEW u \in Circle, NotifyEvent(u) PROVE NoticeInv'
    BY <1>1, <1>4, NotifyEventInv
<1>5. ASSUME NEW j \in JobId,
             \/ TakeJob(j) \/ WriteNotice(j) \/ CompleteJob(j)
             \/ \E way \in Way : SendVia(j, way)
             \/ FailJob(j) \/ StallJob(j) \/ ForgetJob(j)
      PROVE  NoticeInv'
    BY <1>1, <1>5, WorkerInv, WriteNoticeInv, TroubleInv
<1>6. QED
    BY <1>1, <1>2, <1>3, <1>4, <1>5 DEF NoticeNext

LEMMA NoticesInvariant == ServicesSpec => []NoticeInv
<1>1. ServicesInit => NoticeInv
    BY NoticeInitInv DEF ServicesInit
<1>2. NoticeInv /\ [ServicesNext]_serviceVars => NoticeInv'
    <2>1. [ServicesNext]_serviceVars => [NoticeNext]_noticeVars
        BY DEF ServicesNext, serviceVars, partVars
    <2>2. QED
        BY <2>1, NoticeStepInv
<1>3. QED
    BY <1>1, <1>2, PTL DEF ServicesSpec

\* A message that somebody asked for is sent, or will be tried, or a sender is
\* at it, or something is known to have gone wrong with it: for any number of
\* senders, rows, jobs and tries, however often the worker dies.
THEOREM NoMessageForgotten == ServicesSpec => []NothingForgotten
<1>1. QED
    BY ForgottenFollows, NoticesInvariant, PTL

-----------------------------------------------------------------------------
(* Screens. *)

\* What is kept of a view: its rows' changes are what it owes at most, a
\* request that has read them has read what it owes, and the commands under way
\* are about it.
ScreenInv ==
    /\ ScreenTypeOK
    /\ ScreensCatchUp
    /\ owed <= changes
    /\ fetch # None /\ fetch.pc = "read" => fetch.changes >= owed
    /\ \A c \in Click : click[c] # None =>
          /\ view \in Concerns[click[c].what]
          /\ click[c].pc = "done" => click[c].changes <= changes

\* Every view that a command is about is found by a key it invalidates.
LEMMA FoundByKey ==
    ASSUME NEW what \in Command, view \in View, view \in Concerns[what]
    PROVE  \E prefix \in Invalidates[what] : Finds(prefix)
<1>1. Command = {"mark", "edit", "approve"}
    BY DEF Command, OfferedOn
<1>2. ASSUME NEW prefix, NEW x, prefix = <<x>>,
             NEW y, Key[view] = <<x>> \/ Key[view] = <<x, y>>
      PROVE  Finds(prefix)
    <2>1. CASE Key[view] = <<x>>
        BY <1>2, <2>1 DEF Finds
    <2>2. CASE Key[view] = <<x, y>>
        <3>1. Len(Key[view]) = 2 /\ Key[view][1] = x /\ Len(prefix) = 1 /\ prefix[1] = x
            BY <1>2, <2>2
        <3>2. QED
            BY <3>1 DEF Finds
    <2>3. QED
        BY <1>2, <2>1, <2>2
<1>3. CASE what = "mark"
    <2>1. view \in {"unread", "recent", "list"} /\ Invalidates[what] = {<<"notifications">>}
        BY <1>3 DEF Concerns, Invalidates
    <2>2. \/ Key[view] = <<"notifications">>
          \/ Key[view] = <<"notifications", "unread">>
          \/ Key[view] = <<"notifications", "recent">>
        BY <2>1 DEF Key
    <2>3. QED
        BY <1>2, <2>1, <2>2
<1>4. CASE what = "edit"
    <2>1. view \in {"active", "all", "choices"} /\ Invalidates[what] = {<<"grocery-products">>}
        BY <1>4 DEF Concerns, Invalidates
    <2>2. \/ Key[view] = <<"grocery-products">>
          \/ Key[view] = <<"grocery-products", "active">>
          \/ Key[view] = <<"grocery-products", "all">>
        BY <2>1 DEF Key
    <2>3. QED
        BY <1>2, <2>1, <2>2
<1>5. CASE what = "approve"
    <2>1. /\ view \in {"purchases", "pending", "summary"}
          /\ Invalidates[what] = {<<"grocery-purchases">>, <<"grocery-summary">>}
        BY <1>5 DEF Concerns, Invalidates
    <2>2. \/ Key[view] = <<"grocery-summary">>
          \/ Key[view] = <<"grocery-purchases", "any">>
          \/ Key[view] = <<"grocery-purchases", "pending">>
        BY <2>1 DEF Key
    <2>3. QED
        BY <1>2, <2>1, <2>2
<1>6. QED
    BY <1>1, <1>3, <1>4, <1>5

LEMMA ScreenInitInv == ScreenInit => ScreenInv
<1>1. SUFFICES ASSUME ScreenInit PROVE ScreenInv
    OBVIOUS
<1>2. Asked \in Fetch /\ Asked.pc # "read"
    BY DEF Asked, Fetch
<1>3. /\ fetch \in Fetch \cup {None}
      /\ fetch # None => fetch.pc # "read"
    BY <1>1, <1>2 DEF ScreenInit
<1>4. /\ view \in View /\ screen \in Screen
      /\ changes = 0 /\ owed = 0 /\ outdated = FALSE /\ cached = None
      /\ click \in [Click -> Clicked \cup {None}]
      /\ \A c \in Click : click[c] = None
    BY <1>1 DEF ScreenInit
<1>5. 0 \in 0..MaxChanges
    BY ScreenAssumption
<1>6. ScreenTypeOK
    BY <1>3, <1>4, <1>5 DEF ScreenTypeOK
<1>7. ScreensCatchUp /\ owed <= changes
    BY <1>4 DEF ScreensCatchUp
<1>8. QED
    BY <1>3, <1>4, <1>6, <1>7 DEF ScreenInv

\* A step that changes at most the screen and the request under way, which has
\* not been answered by the server unless it had been, or has just now.
LEMMA FetchStep ==
    ASSUME ScreenInv, UNCHANGED <<view, changes, cached, outdated, click, owed>>,
           screen' \in Screen,
           fetch' \in {fetch, None, Asked, [pc |-> "read", changes |-> changes]}
    PROVE  ScreenInv'
<1>1. /\ Asked \in Fetch /\ Asked.pc # "read"
      /\ [pc |-> "read", changes |-> changes] \in Fetch
    BY DEF ScreenInv, ScreenTypeOK, Asked, Fetch
<1>2. fetch' \in Fetch \cup {None}
    BY <1>1 DEF ScreenInv, ScreenTypeOK
<1>3. fetch' # None /\ fetch'.pc = "read" => fetch'.changes >= owed
    BY <1>1 DEF ScreenInv, ScreenTypeOK
<1>4. QED
    BY <1>2, <1>3 DEF ScreenInv, ScreenTypeOK, ScreensCatchUp

LEMMA LookingInv ==
    ASSUME ScreenInv,
           \/ \E s \in Screen : OpenScreen(s)
           \/ Refetch \/ ReadRows \/ FailFetch
    PROVE  ScreenInv'
<1>1. CASE \E s \in Screen : OpenScreen(s)
    BY <1>1, FetchStep DEF OpenScreen
<1>2. screen \in Screen
    BY DEF ScreenInv, ScreenTypeOK
<1>3. CASE Refetch \/ ReadRows \/ FailFetch
    BY <1>2, <1>3, FetchStep DEF Refetch, ReadRows, FailFetch
<1>4. QED
    BY <1>1, <1>3

\* The answer brings what the view owes; data that are dropped owe nothing.
LEMMA DataInv ==
    ASSUME ScreenInv, ShowRows \/ DropData
    PROVE  ScreenInv'
<1>1. CASE ShowRows
    <2>1. fetch.changes \in 0..MaxChanges /\ fetch.changes >= owed
        BY <1>1 DEF ShowRows, ScreenInv, ScreenTypeOK, Fetch
    <2>2. QED
        BY <1>1, <2>1 DEF ShowRows, ScreenInv, ScreenTypeOK, ScreensCatchUp
<1>2. CASE DropData
    BY <1>2 DEF DropData, ScreenInv, ScreenTypeOK, ScreensCatchUp
<1>3. QED
    BY <1>1, <1>2

\* A step that changes at most one command and the rows.
LEMMA ClickStep ==
    ASSUME ScreenInv, NEW c \in Click, NEW x \in Clicked \cup {None},
           click' = [click EXCEPT ![c] = x],
           UNCHANGED <<view, screen, cached, outdated, fetch, owed>>,
           changes' \in 0..MaxChanges, changes' >= changes,
           x # None => /\ view \in Concerns[x.what]
                       /\ x.pc = "done" => x.changes <= changes'
    PROVE  ScreenInv'
<1>1. /\ click' \in [Click -> Clicked \cup {None}]
      /\ click'[c] = x
      /\ \A d \in Click \ {c} : click'[d] = click[d]
    BY DEF ScreenInv, ScreenTypeOK
<1>2. changes \in 0..MaxChanges /\ owed \in 0..MaxChanges
    BY DEF ScreenInv, ScreenTypeOK
<1>3. ASSUME NEW d \in Click, click'[d] # None
      PROVE  /\ view \in Concerns[click'[d].what]
             /\ click'[d].pc = "done" => click'[d].changes <= changes'
    <2>1. CASE d = c
        BY <1>1, <1>3, <2>1
    <2>2. CASE d # c
        <3>1. /\ click[d] \in Clicked /\ click[d] = click'[d]
              /\ view \in Concerns[click[d].what]
              /\ click[d].pc = "done" => click[d].changes <= changes
            BY <1>1, <1>3, <2>2 DEF ScreenInv, ScreenTypeOK
        <3>2. click[d].pc = "done" => click[d].changes \in 0..MaxChanges
            BY <3>1 DEF Clicked
        <3>3. QED
            BY <1>2, <3>1, <3>2
    <2>3. QED
        BY <2>1, <2>2
<1>4. QED
    BY <1>1, <1>2, <1>3 DEF ScreenInv, ScreenTypeOK, ScreensCatchUp

LEMMA PressInv ==
    ASSUME ScreenInv, NEW c \in Click, NEW what \in Command, Press(c, what)
    PROVE  ScreenInv'
<1>1. PICK x : x = [what |-> what, pc |-> "asked"]
    OBVIOUS
<1>2. /\ x \in Clicked /\ x.what = what /\ x.pc = "asked"
      /\ click' = [click EXCEPT ![c] = x]
      /\ view \in Concerns[what]
      /\ UNCHANGED <<view, screen, changes, cached, outdated, fetch, owed>>
    BY <1>1 DEF Clicked, Press
<1>3. changes' \in 0..MaxChanges /\ changes' >= changes
    BY <1>2 DEF ScreenInv, ScreenTypeOK
<1>4. QED
    BY <1>2, <1>3, ClickStep

LEMMA RunCommandInv ==
    ASSUME ScreenInv, NEW c \in Click, RunCommand(c)
    PROVE  ScreenInv'
<1>1. PICK x : x = [what |-> click[c].what, pc |-> "done", changes |-> changes + 1]
    OBVIOUS
<1>2. /\ changes \in 0..MaxChanges /\ MaxChanges \in Nat
      /\ click \in [Click -> Clicked \cup {None}]
    BY ScreenAssumption DEF ScreenInv, ScreenTypeOK
<1>3. click[c] \in Clicked /\ view \in Concerns[click[c].what]
    BY <1>2 DEF RunCommand, Clicking, ScreenInv
<1>4. /\ changes' = changes + 1 /\ changes < MaxChanges
      /\ click' = [click EXCEPT ![c] = x]
      /\ UNCHANGED <<view, screen, cached, outdated, fetch, owed>>
    BY <1>1, <1>2 DEF RunCommand
<1>5. click[c].what \in Command
    BY <1>3 DEF Clicked
<1>6. changes + 1 \in 0..MaxChanges /\ changes' \in 0..MaxChanges /\ changes' >= changes
    BY <1>2, <1>4
<1>7. /\ x \in Clicked /\ x.what = click[c].what /\ x.changes = changes + 1
    BY <1>1, <1>5, <1>6 DEF Clicked
<1>8. x.changes <= changes'
    BY <1>2, <1>4, <1>7
<1>9. QED
    BY <1>3, <1>4, <1>6, <1>7, <1>8, ClickStep

LEMMA RefuseCommandInv ==
    ASSUME ScreenInv, NEW c \in Click, RefuseCommand(c)
    PROVE  ScreenInv'
<1>1. PICK x : x = [click[c] EXCEPT !.pc = "refused"]
    OBVIOUS
<1>2. click[c] \in Clicked /\ view \in Concerns[click[c].what] /\ click[c].pc = "asked"
    BY DEF RefuseCommand, Clicking, ScreenInv, ScreenTypeOK
<1>3. x \in Clicked /\ x.what = click[c].what /\ x.pc = "refused"
    BY <1>1, <1>2 DEF Clicked
<1>4. /\ click' = [click EXCEPT ![c] = x]
      /\ UNCHANGED <<view, screen, changes, cached, outdated, fetch, owed>>
    BY <1>1 DEF RefuseCommand
<1>5. changes' \in 0..MaxChanges /\ changes' >= changes
    BY <1>4 DEF ScreenInv, ScreenTypeOK
<1>6. QED
    BY <1>2, <1>3, <1>4, <1>5, ClickStep

LEMMA AfterErrorInv ==
    ASSUME ScreenInv, NEW c \in Click, AfterError(c)
    PROVE  ScreenInv'
<1>1. /\ click' = [click EXCEPT ![c] = None]
      /\ UNCHANGED <<view, screen, changes, cached, outdated, fetch, owed>>
    BY DEF AfterError
<1>2. changes' \in 0..MaxChanges /\ changes' >= changes
    BY <1>1 DEF ScreenInv, ScreenTypeOK
<1>3. QED
    BY <1>1, <1>2, ClickStep

\* The view is told; what it owes from now on no request under way has read.
LEMMA AfterSuccessInv ==
    ASSUME ScreenInv, NEW c \in Click, AfterSuccess(c)
    PROVE  ScreenInv'
<1>1. /\ click[c] \in Clicked /\ click[c].pc = "done"
      /\ view \in Concerns[click[c].what]
      /\ click[c].changes <= changes
    BY DEF AfterSuccess, Clicking, ScreenInv, ScreenTypeOK
<1>2. click[c].what \in Command /\ click[c].changes \in 0..MaxChanges
    BY <1>1 DEF Clicked
<1>3. \E prefix \in Invalidates[click[c].what] : Finds(prefix)
    BY <1>1, <1>2, FoundByKey DEF ScreenInv, ScreenTypeOK
<1>4. /\ outdated' = TRUE
      /\ fetch' = IF Shown /\ CanCallOff THEN Asked ELSE fetch
      /\ owed' = IF CanCallOff /\ click[c].changes > owed
                 THEN click[c].changes ELSE owed
      /\ click' = [click EXCEPT ![c] = None]
      /\ UNCHANGED <<view, screen, changes, cached>>
    BY <1>3 DEF AfterSuccess
<1>5. Asked \in Fetch /\ Asked.pc # "read"
    BY DEF Asked, Fetch
<1>6. owed' \in 0..MaxChanges /\ owed' <= changes
    BY <1>1, <1>2, <1>4 DEF ScreenInv, ScreenTypeOK
<1>7. fetch' # None /\ fetch'.pc = "read" => fetch' = fetch /\ owed' = owed
    BY <1>4, <1>5 DEF CanCallOff
<1>8. /\ click' \in [Click -> Clicked \cup {None}]
      /\ \A d \in Click : click'[d] # None => click'[d] = click[d]
    BY <1>4 DEF ScreenInv, ScreenTypeOK
<1>9. QED
    BY <1>4, <1>5, <1>6, <1>7, <1>8 DEF ScreenInv, ScreenTypeOK, ScreensCatchUp

LEMMA OthersChangeInv ==
    ASSUME ScreenInv, OthersChange
    PROVE  ScreenInv'
<1>1. /\ changes \in 0..MaxChanges /\ MaxChanges \in Nat /\ owed \in 0..MaxChanges
      /\ changes' \in 0..MaxChanges /\ changes' >= changes
    BY ScreenAssumption DEF OthersChange, ScreenInv, ScreenTypeOK
<1>2. ASSUME NEW c \in Click, click[c] # None, click[c].pc = "done"
      PROVE  click[c].changes <= changes'
    <2>1. click[c].changes \in 0..MaxChanges /\ click[c].changes <= changes
        BY <1>2 DEF ScreenInv, ScreenTypeOK, Clicked
    <2>2. QED
        BY <1>1, <2>1
<1>3. owed <= changes'
    BY <1>1 DEF ScreenInv
<1>4. QED
    BY <1>1, <1>2, <1>3 DEF OthersChange, ScreenInv, ScreenTypeOK, ScreensCatchUp

LEMMA ScreenStepInv == ScreenInv /\ [ScreenNext]_screenVars => ScreenInv'
<1>1. SUFFICES ASSUME ScreenInv, [ScreenNext]_screenVars PROVE ScreenInv'
    OBVIOUS
<1>2. CASE UNCHANGED screenVars
    BY <1>1, <1>2 DEF screenVars, ScreenInv, ScreenTypeOK, ScreensCatchUp
<1>3. CASE ScreenNext
    BY <1>1, <1>3, LookingInv, DataInv, PressInv, RunCommandInv,
       RefuseCommandInv, AfterSuccessInv, AfterErrorInv, OthersChangeInv
    DEF ScreenNext
<1>4. QED
    BY <1>1, <1>2, <1>3

LEMMA ScreensInvariant == ServicesSpec => []ScreenInv
<1>1. ServicesInit => ScreenInv
    BY ScreenInitInv DEF ServicesInit
<1>2. ScreenInv /\ [ServicesNext]_serviceVars => ScreenInv'
    <2>1. [ServicesNext]_serviceVars => [ScreenNext]_screenVars
        BY DEF ServicesNext, serviceVars, partVars
    <2>2. QED
        BY <2>1, ScreenStepInv
<1>3. QED
    BY <1>1, <1>2, PTL DEF ServicesSpec

\* A view that was told of a command shows what it changed, or knows that it
\* does not: for every view, and any number of commands, requests and changes
\* that overlap.
THEOREM ScreensCaughtUp == ServicesSpec => []ScreensCatchUp
<1>1. ScreenInv => ScreensCatchUp
    BY DEF ScreenInv
<1>2. QED
    BY <1>1, ScreensInvariant, PTL

-----------------------------------------------------------------------------
(* The types, for any number of requests about memberships at once. *)

\* A call that changes a row has found one, and no row ever goes.
FoundRow(c) ==
    memberCall[c] # None =>
        LET call == memberCall[c] IN
        /\ call.pc \in {"rejoin", "update", "remove"} =>
              member[<<call.group, call.user>>] # None
        /\ call.pc = "dissolve" => group[call.group] # None

MemberTypes ==
    /\ MemberTypeOK
    /\ \A c \in MemberCaller : FoundRow(c)

\* A request that starts writes no row.
LEMMA StartTypes ==
    ASSUME MemberTypes, NEW c \in MemberCaller, NEW call \in MemberCall,
           MemberStart(c, call),
           call.pc \in {"rejoin", "update", "remove"} =>
               member[<<call.group, call.user>>] # None,
           call.pc = "dissolve" => group[call.group] # None
    PROVE  MemberTypes'
<1>1. /\ memberCall' = [memberCall EXCEPT ![c] = call]
      /\ UNCHANGED <<group, member, lapsed>>
    BY DEF MemberStart
<1>2. /\ memberCall' \in [MemberCaller -> MemberCall \cup {None}]
      /\ memberCall'[c] = call
      /\ \A d \in MemberCaller \ {c} : memberCall'[d] = memberCall[d]
    BY <1>1 DEF MemberTypes, MemberTypeOK
<1>3. MemberTypeOK'
    BY <1>1, <1>2 DEF MemberTypes, MemberTypeOK
<1>4. \A d \in MemberCaller : FoundRow(d)'
    BY <1>1, <1>2 DEF MemberTypes, FoundRow
<1>5. QED
    BY <1>3, <1>4 DEF MemberTypes

\* A request that returns has written at most one group, one membership and
\* one name of a user who lapsed.
LEMMA WriteTypes ==
    ASSUME MemberTypes, NEW c \in MemberCaller, MemberReturn(c),
           NEW g \in Group, NEW u \in Person, NEW new \in GroupRow, NEW row \in MemberRow,
           group' = group \/ group' = [group EXCEPT ![g] = new],
           member' = member \/ member' = [member EXCEPT ![<<g, u>>] = row],
           lapsed' = lapsed \/ lapsed' = lapsed \cup {u}
    PROVE  MemberTypes'
<1>1. /\ memberCall' \in [MemberCaller -> MemberCall \cup {None}]
      /\ memberCall'[c] = None
      /\ \A d \in MemberCaller \ {c} : memberCall'[d] = memberCall[d]
    BY DEF MemberTypes, MemberTypeOK, MemberReturn
<1>2. /\ group' \in [Group -> GroupRow \cup {None}]
      /\ \A h \in Group : group[h] # None => group'[h] # None
    BY MembershipAssumption DEF MemberTypes, MemberTypeOK
<1>3. /\ member' \in [Group \X Person -> MemberRow \cup {None}]
      /\ \A key \in Group \X Person : member[key] # None => member'[key] # None
    BY MembershipAssumption DEF MemberTypes, MemberTypeOK
<1>4. MemberTypeOK'
    BY <1>1, <1>2, <1>3 DEF MemberTypes, MemberTypeOK
<1>5. \A d \in MemberCaller \ {c} : FoundRow(d)'
    <2>1. SUFFICES ASSUME NEW d \in MemberCaller \ {c}, memberCall[d] # None
                   PROVE  FoundRow(d)'
        BY <1>1 DEF FoundRow
    <2>2. memberCall[d] \in MemberCall /\ FoundRow(d) /\ memberCall'[d] = memberCall[d]
        BY <1>1, <2>1 DEF MemberTypes, MemberTypeOK
    <2>3. /\ memberCall[d].group \in Group
          /\ memberCall[d].pc \in {"rejoin", "update", "remove"} =>
                memberCall[d].user \in Person
        BY <2>2 DEF MemberCall
    <2>4. QED
        BY <1>2, <1>3, <2>1, <2>2, <2>3 DEF FoundRow
<1>6. FoundRow(c)'
    BY <1>1 DEF FoundRow
<1>7. QED
    BY <1>4, <1>5, <1>6 DEF MemberTypes

LEMMA MemberReadsTypes ==
    ASSUME MemberTypes, NEW c \in MemberCaller, NEW g \in Group,
           NEW u \in Person, NEW by \in Person, NEW type \in GroupType,
           NEW role \in Role, NEW newRole \in Role \cup {None},
           NEW newStatus \in MemberStatus \cup {None},
           \/ ReadForGroup(c, g, type, u)
           \/ ReadForSavingsGroup(c, g, u)
           \/ ReadForDissolve(c, g, by)
           \/ ReadForJoin(c, g, u, role, by)
           \/ ReadForUpdateMember(c, g, u, newRole, newStatus, by)
           \/ ReadForRemove(c, g, u, by)
    PROVE  MemberTypes'
<1>1. CASE ReadForGroup(c, g, type, u)
    <2> DEFINE call == [pc |-> "found", group |-> g, user |-> u, type |-> type]
    <2>1. call \in MemberCall /\ call.pc = "found" /\ MemberStart(c, call)
        BY <1>1 DEF MemberCall, ReadForGroup
    <2> HIDE DEF call
    <2>2. QED
        BY <2>1, StartTypes
<1>2. CASE ReadForSavingsGroup(c, g, u)
    <2> DEFINE call == [pc |-> "foundSavings", group |-> g, user |-> u,
                        type |-> "SAVINGS"]
    <2>1. call \in MemberCall /\ call.pc = "foundSavings" /\ MemberStart(c, call)
        BY <1>2 DEF MemberCall, ReadForSavingsGroup, GroupType
    <2> HIDE DEF call
    <2>2. QED
        BY <2>1, StartTypes
<1>3. CASE ReadForDissolve(c, g, by)
    <2> DEFINE call == [pc |-> "dissolve", group |-> g]
    <2>1. /\ call \in MemberCall /\ call.pc = "dissolve" /\ call.group = g
          /\ MemberStart(c, call) /\ group[g] # None
        BY <1>3 DEF MemberCall, ReadForDissolve
    <2> HIDE DEF call
    <2>2. QED
        BY <2>1, StartTypes
<1>4. CASE ReadForJoin(c, g, u, role, by)
    <2>1. PICK pc \in {"rejoin", "join"} :
              /\ pc = "rejoin" => Present(g, u)
              /\ MemberStart(c, [pc |-> pc, group |-> g, user |-> u, role |-> role])
        BY <1>4 DEF ReadForJoin
    <2> DEFINE call == [pc |-> pc, group |-> g, user |-> u, role |-> role]
    <2>2. /\ call \in MemberCall /\ call.pc = pc /\ call.group = g
          /\ call.user = u /\ MemberStart(c, call)
        BY <2>1 DEF MemberCall
    <2> HIDE DEF call
    <2>3. QED
        BY <2>1, <2>2, StartTypes DEF Present
<1>5. CASE ReadForUpdateMember(c, g, u, newRole, newStatus, by)
    <2> DEFINE call == [pc |-> "update", group |-> g, user |-> u,
                        role |-> newRole, status |-> newStatus]
    <2>1. /\ call \in MemberCall /\ call.pc = "update" /\ call.group = g
          /\ call.user = u /\ MemberStart(c, call) /\ member[<<g, u>>] # None
        BY <1>5 DEF MemberCall, ReadForUpdateMember, Present
    <2> HIDE DEF call
    <2>2. QED
        BY <2>1, StartTypes
<1>6. CASE ReadForRemove(c, g, u, by)
    <2> DEFINE call == [pc |-> "remove", group |-> g, user |-> u]
    <2>1. /\ call \in MemberCall /\ call.pc = "remove" /\ call.group = g
          /\ call.user = u /\ MemberStart(c, call) /\ member[<<g, u>>] # None
        BY <1>6 DEF MemberCall, ReadForRemove, Present
    <2> HIDE DEF call
    <2>2. QED
        BY <2>1, StartTypes
<1>7. QED
    BY <1>1, <1>2, <1>3, <1>4, <1>5, <1>6

LEMMA MemberWritesTypes ==
    ASSUME MemberTypes, NEW c \in MemberCaller,
           \/ InsertGroup(c) \/ InsertSavingsGroup(c) \/ Dissolve(c)
           \/ Join(c) \/ Rejoin(c) \/ UpdateMember(c) \/ RemoveMember(c)
    PROVE  MemberTypes'
<1> DEFINE call == memberCall[c]
           g == call.group
           u == call.user
<1>1. /\ call \in MemberCall /\ FoundRow(c) /\ MemberReturn(c) /\ g \in Group
    BY DEF MemberTypes, MemberTypeOK, MemberCall, InsertGroup, InsertSavingsGroup,
           Dissolve, Join, Rejoin, UpdateMember, RemoveMember, MemberAt
<1>2. CASE InsertGroup(c) \/ InsertSavingsGroup(c)
    <2>1. PICK type \in GroupType : Found(g, type, u) /\ u \in Person
        BY <1>1, <1>2 DEF InsertGroup, InsertSavingsGroup, MemberAt, MemberCall,
                          GroupType
    <2> DEFINE new == [type |-> type, deleted |-> FALSE]
               row == [role |-> "CHAIRPERSON", status |-> "ACTIVE", deleted |-> FALSE]
    <2>2. /\ new \in GroupRow /\ row \in MemberRow
          /\ group' = [group EXCEPT ![g] = new]
          /\ member' = [member EXCEPT ![<<g, u>>] = row]
          /\ lapsed' = lapsed
        BY <2>1, MembershipAssumption DEF Found, GroupRow, MemberRow, MemberStatus
    <2> HIDE DEF new, row, call
    <2>3. QED
        BY <1>1, <2>1, <2>2, WriteTypes
<1>3. CASE Dissolve(c)
    <2>1. call.pc = "dissolve" /\ group[g] # None /\ group[g] \in GroupRow
        BY <1>1, <1>3 DEF Dissolve, MemberAt, FoundRow, MemberTypes, MemberTypeOK
    <2> DEFINE new == [group[g] EXCEPT !.deleted = TRUE]
    <2>2. new \in GroupRow
        BY <2>1 DEF GroupRow
    <2>3. /\ group' = [group EXCEPT ![g] = new]
          /\ UNCHANGED <<member, lapsed>>
        BY <1>3 DEF Dissolve
    <2> HIDE DEF new
    <2>4. /\ memberCall' \in [MemberCaller -> MemberCall \cup {None}]
          /\ memberCall'[c] = None
          /\ \A d \in MemberCaller \ {c} : memberCall'[d] = memberCall[d]
        BY <1>1 DEF MemberTypes, MemberTypeOK, MemberReturn
    <2>5. MemberTypeOK'
        BY <2>2, <2>3, <2>4 DEF MemberTypes, MemberTypeOK
    <2>6. \A h \in Group : group[h] # None => group'[h] # None
        BY <1>1, <2>2, <2>3, MembershipAssumption DEF MemberTypes, MemberTypeOK
    <2>7. \A d \in MemberCaller : FoundRow(d)'
        <3>1. SUFFICES ASSUME NEW d \in MemberCaller \ {c}, memberCall[d] # None
                       PROVE  FoundRow(d)'
            BY <2>4 DEF FoundRow
        <3>2. memberCall[d] \in MemberCall /\ FoundRow(d)
            BY <3>1 DEF MemberTypes, MemberTypeOK
        <3>3. memberCall[d].group \in Group
            BY <3>2 DEF MemberCall
        <3>4. QED
            BY <2>3, <2>4, <2>6, <3>1, <3>2, <3>3 DEF FoundRow
    <2>8. QED
        BY <2>5, <2>7 DEF MemberTypes
<1>4. CASE Join(c)
    <2> DEFINE row == [role |-> call.role, status |-> "ACTIVE", deleted |-> FALSE]
    <2>1. /\ u \in Person /\ row \in MemberRow
          /\ UNCHANGED <<group, lapsed>>
          /\ member' = member \/ member' = [member EXCEPT ![<<g, u>>] = row]
        BY <1>1, <1>4 DEF Join, MemberAt, MemberCall, MemberRow, MemberStatus
    <2>2. [type |-> "SAVINGS", deleted |-> FALSE] \in GroupRow
        BY DEF GroupRow, GroupType
    <2> HIDE DEF row, call
    <2>3. QED
        BY <1>1, <2>1, <2>2, WriteTypes
<1>5. CASE Rejoin(c) \/ UpdateMember(c) \/ RemoveMember(c)
    <2>1. /\ u \in Person /\ member[<<g, u>>] # None
          /\ member[<<g, u>>] \in MemberRow
        BY <1>1, <1>5 DEF Rejoin, UpdateMember, RemoveMember, MemberAt, MemberCall,
                          FoundRow, MemberTypes, MemberTypeOK
    <2>2. \E row \in MemberRow : member' = [member EXCEPT ![<<g, u>>] = row]
        <3>1. CASE Rejoin(c)
            <4>1. call.role \in Role
                BY <1>1, <3>1 DEF Rejoin, MemberAt, MemberCall
            <4>2. [member[<<g, u>>] EXCEPT !.status = "ACTIVE", !.role = call.role]
                      \in MemberRow
                BY <2>1, <4>1 DEF MemberRow, MemberStatus
            <4>3. member' = [member EXCEPT ![<<g, u>>] =
                      [member[<<g, u>>] EXCEPT !.status = "ACTIVE",
                                               !.role = call.role]]
                BY <3>1 DEF Rejoin
            <4>4. QED
                BY <4>2, <4>3
        <3>2. CASE UpdateMember(c)
            <4> DEFINE old == member[<<g, u>>]
                       new == [old EXCEPT !.role = Given(call.role, @),
                                          !.status = Given(call.status, @)]
            <4>1. /\ call.role \in Role \cup {None}
                  /\ call.status \in MemberStatus \cup {None}
                BY <1>1, <3>2 DEF UpdateMember, MemberAt, MemberCall
            <4>2. new \in MemberRow
                BY <2>1, <4>1 DEF MemberRow, Given
            <4>3. member' = [member EXCEPT ![<<g, u>>] = new]
                BY <3>2 DEF UpdateMember
            <4>4. QED
                BY <4>2, <4>3
        <3>3. CASE RemoveMember(c)
            <4>1. [member[<<g, u>>] EXCEPT !.status = "LEFT", !.deleted = TRUE]
                      \in MemberRow
                BY <2>1 DEF MemberRow, MemberStatus
            <4>2. member' = [member EXCEPT ![<<g, u>>] =
                      [member[<<g, u>>] EXCEPT !.status = "LEFT", !.deleted = TRUE]]
                BY <3>3 DEF RemoveMember
            <4>3. QED
                BY <4>1, <4>2
        <3>4. QED
            BY <1>5, <3>1, <3>2, <3>3
    <2>3. group' = group /\ (lapsed' = lapsed \/ lapsed' = lapsed \cup {u})
        BY <1>5 DEF Rejoin, UpdateMember, RemoveMember
    <2>4. [type |-> "SAVINGS", deleted |-> FALSE] \in GroupRow
        BY DEF GroupRow, GroupType
    <2> HIDE DEF call
    <2>5. QED
        BY <1>1, <2>1, <2>2, <2>3, <2>4, WriteTypes
<1>6. QED
    BY <1>2, <1>3, <1>4, <1>5

\* Every variable of the services keeps its type, however many requests about
\* memberships overlap.
THEOREM ServicesTypesCorrect == ServicesSpec => []ServicesTypeOK
<1>1. ServicesInit => part \in Part /\ MemberTypes
    <2>1. MemberInit => MemberTypes
        BY DEF MemberInit, MemberTypes, MemberTypeOK, FoundRow
    <2>2. QED
        BY <2>1 DEF ServicesInit
<1>2. MemberTypes /\ [MemberNext]_memberVars => MemberTypes'
    <2>1. SUFFICES ASSUME MemberTypes, [MemberNext]_memberVars
                   PROVE  MemberTypes'
        OBVIOUS
    <2>2. CASE UNCHANGED memberVars
        BY <2>1, <2>2 DEF memberVars, MemberTypes, MemberTypeOK, FoundRow
    <2>3. CASE MemberNext
        <3>1. \A c \in MemberCaller, g \in Group, u, by \in Person,
                 type \in GroupType, role \in Role, newRole \in Role \cup {None},
                 newStatus \in MemberStatus \cup {None} :
                  \/ ReadForGroup(c, g, type, u)
                  \/ ReadForSavingsGroup(c, g, u)
                  \/ ReadForDissolve(c, g, by)
                  \/ ReadForJoin(c, g, u, role, by)
                  \/ ReadForUpdateMember(c, g, u, newRole, newStatus, by)
                  \/ ReadForRemove(c, g, u, by)
                  => MemberTypes'
            BY <2>1, MemberReadsTypes
        <3>2. "SAVINGS" \in GroupType /\ "CHAIRPERSON" \in Role
            BY MembershipAssumption DEF GroupType
        <3>3. \A c \in MemberCaller :
                  \/ InsertGroup(c) \/ InsertSavingsGroup(c) \/ Dissolve(c)
                  \/ Join(c) \/ Rejoin(c) \/ UpdateMember(c) \/ RemoveMember(c)
                  => MemberTypes'
            BY <2>1, MemberWritesTypes
        <3>4. QED
            BY <2>3, <3>1, <3>2, <3>3 DEF MemberNext
    <2>4. QED
        BY <2>1, <2>2, <2>3
<1>3. part \in Part /\ MemberTypes /\ [ServicesNext]_serviceVars =>
          (part \in Part /\ MemberTypes)'
    <2>1. [ServicesNext]_serviceVars => [MemberNext]_memberVars /\ part' = part
        BY DEF ServicesNext, serviceVars, partVars
    <2>2. QED
        BY <1>2, <2>1
<1>4. ServicesSpec => [](part \in Part /\ MemberTypes)
    BY <1>1, <1>3, PTL DEF ServicesSpec
<1>5. /\ part \in Part
      /\ MemberTypes /\ SessionInv /\ QueueInv /\ ReceiptInv /\ DocumentInv
      /\ NoticeInv /\ ScreenInv
      => ServicesTypeOK
    BY DEF MemberTypes, SessionInv, QueueInv, ReceiptInv, DocumentInv, NoticeInv,
           ScreenInv, ServicesTypeOK
<1>6. QED
    BY <1>4, <1>5, DocumentsInvariant, ReceiptsInvariant, SessionsInvariant,
       QueueInvariant, NoticesInvariant, ScreensInvariant, PTL

=============================================================================
