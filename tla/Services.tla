------------------------------- MODULE Services -------------------------------
(***************************************************************************)
(* The parts of the system around the money, side by side: who belongs to  *)
(* a group, who is signed in, what a phone still has to send, the files,   *)
(* the messages to members, and what a browser shows.  In the code they    *)
(* meet only through values these models take as given, so one part runs   *)
(* at a time and is chosen at the start.                                   *)
(***************************************************************************)
EXTENDS Memberships, Sessions, Confirmations, Documents, Notifications, Screens

VARIABLE part       \* the part that runs

partVars == <<memberVars, sessionVars, offlineVars, receiptVars, documentVars,
              noticeVars, screenVars>>
serviceVars == <<part, partVars>>

Part == {"members", "sessions", "queue", "receipts", "documents", "notices", "screens"}

\* Which view a behaviour of another part is not about makes no difference.
ServicesInit ==
    /\ part \in Part
    /\ MemberInit /\ SessionInit
    /\ PhoneInit /\ QueueInit /\ ReceiptInit
    /\ DocumentInit /\ NoticeInit /\ ScreenInit
    /\ part # "screens" => view = "list" /\ screen = "dashboard"

ServicesNext ==
    /\ UNCHANGED part
    /\ \/ /\ part = "members" /\ MemberNext
          /\ UNCHANGED <<sessionVars, offlineVars, receiptVars, documentVars,
                         noticeVars, screenVars>>
       \/ /\ part = "sessions" /\ SessionNext
          /\ UNCHANGED <<memberVars, offlineVars, receiptVars, documentVars,
                         noticeVars, screenVars>>
       \/ /\ part = "queue" /\ QueueNext
          /\ UNCHANGED <<memberVars, sessionVars, receiptVars, documentVars,
                         noticeVars, screenVars>>
       \/ /\ part = "receipts" /\ ReceiptNext
          /\ UNCHANGED <<memberVars, sessionVars, documentVars, noticeVars,
                         screenVars>>
       \/ /\ part = "documents" /\ DocumentNext
          /\ UNCHANGED <<memberVars, sessionVars, offlineVars, receiptVars,
                         noticeVars, screenVars>>
       \/ /\ part = "notices" /\ NoticeNext
          /\ UNCHANGED <<memberVars, sessionVars, offlineVars, receiptVars,
                         documentVars, screenVars>>
       \/ /\ part = "screens" /\ ScreenNext
          /\ UNCHANGED <<memberVars, sessionVars, offlineVars, receiptVars,
                         documentVars, noticeVars>>

\* A sync that has begun goes on: every wait of its ends, with an answer or a
\* timeout.
ServicesFairness ==
    \A r \in Run : WF_serviceVars(part = "queue" /\ SyncStep(r)
                                  /\ UNCHANGED <<part, memberVars,
                                       sessionVars, receiptVars,
                                       documentVars, noticeVars, screenVars>>)

ServicesSpec ==
    ServicesInit /\ [][ServicesNext]_serviceVars /\ ServicesFairness

-----------------------------------------------------------------------------

\* Every variable of every part keeps its type; a call in flight has the
\* arguments its handler goes on with.
ServicesTypeOK ==
    /\ part \in Part
    /\ MemberTypeOK /\ SessionTypeOK
    /\ PhoneTypeOK /\ QueueTypeOK /\ ReceiptTypeOK
    /\ DocumentTypeOK /\ NoticeTypeOK /\ ScreenTypeOK

=============================================================================
