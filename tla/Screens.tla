-------------------------------- MODULE Screens --------------------------------
(***************************************************************************)
(* What the web client shows.  A screen shows views; the data of a view    *)
(* stays in the query cache of the tab under the view's key, is fetched    *)
(* while the user looks at it, and is told by key that it is out of date   *)
(* when a command of this tab has been answered.  The cache keeps views    *)
(* apart, so a behaviour is about one of them, whichever it is.            *)
(***************************************************************************)
EXTENDS Accounts

CONSTANTS
    Click,       \* commands in flight at once
    MaxChanges   \* bound on how often the view's rows change

VARIABLES
    view,       \* the view that the behaviour is about
    screen,     \* the screen of the tab
    changes,    \* how often the rows that the view shows have changed
    cached,     \* its data, as the number of changes they show
    outdated,   \* whether the data were told to be out of date
    fetch,      \* the request under way for it
    click,      \* the commands under way
    owed        \* the changes the view owes its user, since a command told it

screenVars == <<view, screen, changes, cached, outdated, fetch, click, owed>>

\* The filters of a list are in its key.  All keys of the groceries also name
\* the group, which is left out.
Key ==
    [unread    |-> <<"notifications", "unread">>,
     recent    |-> <<"notifications", "recent">>,
     list      |-> <<"notifications">>,
     active    |-> <<"grocery-products", "active">>,
     all       |-> <<"grocery-products", "all">>,
     choices   |-> <<"grocery-products">>,
     purchases |-> <<"grocery-purchases", "any">>,
     pending   |-> <<"grocery-purchases", "pending">>,
     summary   |-> <<"grocery-summary">>]

View == DOMAIN Key

\* The number of unread messages is part of the frame around every screen.
Shows ==
    [dashboard     |-> {"unread", "recent"},
     notifications |-> {"unread", "list"},
     catalogue     |-> {"unread", "active"},
     everything    |-> {"unread", "all"},
     record        |-> {"unread", "choices", "summary"},
     purchases     |-> {"unread", "purchases"},
     waiting       |-> {"unread", "pending"},
     grocery       |-> {"unread", "summary"}]

Screen == DOMAIN Shows

\* What a user can do, where, and the views that are there to show the rows it
\* writes.  Other views show them by the way: the summary counts the active
\* products, the purchases name them, and the lists of stock add up what was
\* bought.  Nothing tells those, and for them the command is like one of
\* somebody else's.
OfferedOn ==
    [mark    |-> {"notifications"},
     edit    |-> {"catalogue", "everything"},
     approve |-> {"purchases", "waiting"}]

Concerns ==
    [mark    |-> {"unread", "recent", "list"},
     edit    |-> {"active", "all", "choices"},
     approve |-> {"purchases", "pending", "summary"}]

\* The keys that a command invalidates when it has succeeded.
Invalidates ==
    [mark    |-> {<<"notifications">>},
     edit    |-> {<<"grocery-products">>},
     approve |-> {<<"grocery-purchases">>, <<"grocery-summary">>}]

Command == DOMAIN OfferedOn

\* asked: the server has not read the rows yet; read: its answer is under way.
Fetch == [pc : {"asked"}] \cup [pc : {"read"}, changes : 0..MaxChanges]

Clicked ==
    [what : Command, pc : {"asked", "refused"}]
    \cup [what : Command, pc : {"done"}, changes : 0..MaxChanges]

ASSUME ScreenAssumption ==
    /\ MaxChanges \in Nat
    /\ None \notin (0..MaxChanges) \cup Fetch \cup Clicked

-----------------------------------------------------------------------------

Shown == view \in Shows[screen]

Asked == [pc |-> "asked"]

Clicking(c, pc) == click[c] # None /\ click[c].pc = pc

\* Faulty variant: only the key itself is found.
FindsExactly(prefix) == Key[view] = prefix

\* invalidateQueries finds the keys that begin with the given one.
Finds(prefix) ==
    /\ Len(prefix) <= Len(Key[view])
    /\ \A i \in 1..Len(prefix) : Key[view][i] = prefix[i]

\* A request under way can be called off if the view is on the screen and has
\* data to go on showing.
CanCallOff == fetch = None \/ (Shown /\ cached # None)

-----------------------------------------------------------------------------
(* Looking. *)

\* A view that appears is fetched if it has no data or data out of date; it
\* joins a request under way.
OpenScreen(s) ==
    /\ s # screen
    /\ screen' = s
    /\ fetch' = IF /\ view \in Shows[s] \ Shows[screen]
                   /\ fetch = None
                   /\ cached = None \/ outdated
                THEN Asked ELSE fetch
    /\ UNCHANGED <<view, changes, cached, outdated, click, owed>>

\* After five minutes, when the window gets the focus, after a break in the
\* connection, and for the unread messages every half minute.
Refetch ==
    /\ Shown /\ fetch = None
    /\ fetch' = Asked
    /\ UNCHANGED <<view, screen, changes, cached, outdated, click, owed>>

ReadRows ==
    /\ fetch = Asked
    /\ fetch' = [pc |-> "read", changes |-> changes]
    /\ UNCHANGED <<view, screen, changes, cached, outdated, click, owed>>

\* The answer replaces the data, which then count as up to date, even if the
\* view was told otherwise in the meantime.
ShowRows ==
    /\ fetch # None /\ fetch.pc = "read"
    /\ cached' = fetch.changes
    /\ outdated' = FALSE
    /\ fetch' = None
    /\ UNCHANGED <<view, screen, changes, click, owed>>

\* A request that fails twice leaves the data as they were.  One that fails
\* once is asked again, and is the request it was.
FailFetch ==
    /\ fetch # None
    /\ fetch' = None
    /\ UNCHANGED <<view, screen, changes, cached, outdated, click, owed>>

\* Data that no screen has shown for five minutes are dropped.
DropData ==
    /\ ~ Shown /\ fetch = None /\ cached # None
    /\ cached' = None
    /\ outdated' = FALSE
    /\ UNCHANGED <<view, screen, changes, fetch, click, owed>>

-----------------------------------------------------------------------------
(* Commands: mark messages as read, add or change a product, approve or    *)
(* reject a purchase.  Those about other rows than the view's do not reach *)
(* it.                                                                     *)

\* The button is in the row, but for the one that adds a product.  A screen
\* that is left and opened again has its buttons back while a command runs.
Press(c, what) ==
    /\ view \in Concerns[what]
    /\ screen \in OfferedOn[what]
    /\ (Shown /\ what # "edit") => cached # None
    /\ click[c] = None
    /\ click' = [click EXCEPT ![c] = [what |-> what, pc |-> "asked"]]
    /\ UNCHANGED <<view, screen, changes, cached, outdated, fetch, owed>>

RunCommand(c) ==
    /\ Clicking(c, "asked")
    /\ changes < MaxChanges
    /\ changes' = changes + 1
    /\ click' = [click EXCEPT ![c] =
          [what |-> @.what, pc |-> "done", changes |-> changes + 1]]
    /\ UNCHANGED <<view, screen, cached, outdated, fetch, owed>>

\* A rejection always is: its body is not what the server takes.
RefuseCommand(c) ==
    /\ Clicking(c, "asked")
    /\ click' = [click EXCEPT ![c].pc = "refused"]
    /\ UNCHANGED <<view, screen, changes, cached, outdated, fetch, owed>>

\* onSuccess: the view is told, if the key finds it, and fetched again if it is
\* on the screen; a request under way is called off, or else is kept.
AfterSuccess(c) ==
    /\ Clicking(c, "done")
    /\ IF \E prefix \in Invalidates[click[c].what] : Finds(prefix)
       THEN /\ outdated' = TRUE
            /\ fetch' = IF Shown /\ CanCallOff THEN Asked ELSE fetch
       ELSE UNCHANGED <<outdated, fetch>>
    /\ owed' = IF CanCallOff /\ click[c].changes > owed
               THEN click[c].changes ELSE owed
    /\ click' = [click EXCEPT ![c] = None]
    /\ UNCHANGED <<view, screen, changes, cached>>

\* Refused, or the answer is lost: there is no onError.
AfterError(c) ==
    /\ click[c] # None
    /\ click' = [click EXCEPT ![c] = None]
    /\ UNCHANGED <<view, screen, changes, cached, outdated, fetch, owed>>

\* Somebody else changes the rows, or a command that does not concern the view.
OthersChange ==
    /\ changes < MaxChanges
    /\ changes' = changes + 1
    /\ UNCHANGED <<view, screen, cached, outdated, fetch, click, owed>>

-----------------------------------------------------------------------------

ScreenInit ==
    /\ view \in View
    /\ screen \in Screen
    /\ changes = 0
    /\ cached = None
    /\ outdated = FALSE
    /\ fetch = IF view \in Shows[screen] THEN Asked ELSE None
    /\ click = [c \in Click |-> None]
    /\ owed = 0

ScreenNext ==
    \/ \E s \in Screen : OpenScreen(s)
    \/ Refetch \/ ReadRows \/ ShowRows \/ FailFetch \/ DropData
    \/ \E c \in Click :
          \/ \E what \in Command : Press(c, what)
          \/ RunCommand(c) \/ RefuseCommand(c)
          \/ AfterSuccess(c) \/ AfterError(c)
    \/ OthersChange

-----------------------------------------------------------------------------
(* Properties. *)

ScreenTypeOK ==
    /\ view \in View
    /\ screen \in Screen
    /\ changes \in 0..MaxChanges
    /\ cached \in (0..MaxChanges) \cup {None}
    /\ outdated \in BOOLEAN
    /\ fetch \in Fetch \cup {None}
    /\ click \in [Click -> Clicked \cup {None}]
    /\ owed \in 0..MaxChanges

\* Once a command has been answered, no view goes on showing what was true
\* before it as if it were up to date: it shows the change, or knows that it is
\* out of date.  This holds on the screen and off it, whatever requests and
\* commands overlap, unless a request was under way that could not be called
\* off: the first one for the view, or one for a screen that was left.
ScreensCatchUp == cached # None /\ ~ outdated => cached >= owed

=============================================================================
