----------------------------- MODULE WebSession -----------------------------
(***************************************************************************)
(* The WebUI's page sessions and the end of its server (web_ui.cpp): a     *)
(* page opens a session and gets a token, keeps it alive with heartbeats,  *)
(* and closes it when it leaves the foreground; a watchdog closes a server *)
(* that no page uses.  A request is handled by a thread of its own in      *)
(* sections under lock_; status, apply and stop hold lock_ while they wait *)
(* for the daemon.  Closing is left to a detached thread that sleeps first.*)
(*                                                                         *)
(* A page opens one session, so a token is the page it was given to.  Time *)
(* passes in heartbeats; the sleep of the closing thread is shorter.       *)
(* Pages (webroot/index.html), CivetServer, which lets requests in flight  *)
(* finish when it closes, and the SDK, which then ends the process, are    *)
(* modelled from how the code uses them.                                   *)
(***************************************************************************)
EXTENDS Naturals, FiniteSets

CONSTANTS Pages, None,
          IdleTimeout,  \* kSessionIdleTimeout, in heartbeats
          OpenGrace     \* kSessionOpenGrace, in heartbeats

ASSUME LimitAssumption == /\ IdleTimeout \in Nat /\ OpenGrace \in Nat
                          /\ 1 < IdleTimeout /\ IdleTimeout <= OpenGrace
ASSUME NoneAssumption == None \notin Pages

VARIABLES
  server,     \* the listening server: up, closing, closed, exited
  token,      \* session_token_
  open,       \* session_open_
  idle,       \* heartbeats since session_last_activity_
  requested,  \* shutdown_requested_
  closers,    \* closing threads that sleep
  holder,     \* the page whose request holds lock_ and waits for the daemon
  page,       \* what each page does
  due,        \* pages whose heartbeat is due
  flight,     \* requests at the server; Checked ones have been authenticated
  held,       \* heartbeats for which lock_ was not free
  latest,     \* history: the page that was given the last token
  reopened,   \* history: a session was opened when closing was under way
  crossed,    \* history: ... between the check of a close request and its effect
  slow,       \* history: lock_ was held for IdleTimeout - 1 heartbeats
  cut         \* history: the server closed on the page that uses it

session == <<token, open, idle, requested, closers>>
pages == <<page, due, latest>>
history == <<reopened, crossed, slow, cut>>
vars == <<server, session, holder, pages, flight, held, history>>

Requests == {"open", "ping", "call", "checkedCall", "close", "checkedClose"}

-----------------------------------------------------------------------------

\* onServerCreated.
Init ==
  /\ server = "up"
  /\ token = None
  /\ open = FALSE
  /\ idle = 0
  /\ requested = FALSE
  /\ closers = 0
  /\ holder = None
  /\ page = [p \in Pages |-> "unborn"]
  /\ due = {}
  /\ flight = {}
  /\ held = 0
  /\ latest = None
  /\ reopened = FALSE /\ crossed = FALSE /\ slow = FALSE /\ cut = FALSE

\* A section under lock_ of the thread that handles a request.
Handle(p, r) ==
  /\ holder = None
  /\ <<p, r>> \in flight

Done(p, r) == flight' = flight \ {<<p, r>>}

Send(p, r) == flight' = IF server = "up" THEN flight \cup {<<p, r>>} ELSE flight

\* Faulty variant: the token is not looked at.
AuthenticAny(p) == open /\ server # "exited"

\* authenticate_session.
Authentic(p) == open /\ token = p /\ server # "exited"
Refresh == idle' = 0

\* request_server_close_locked.
RequestClose ==
  IF requested \/ server = "exited" THEN UNCHANGED <<requested, closers>>
  ELSE /\ requested' = TRUE
       /\ closers' = closers + 1

-----------------------------------------------------------------------------
(* Pages.                                                                  *)

LoadPage(p) ==
  /\ page[p] = "unborn"
  /\ server = "up"
  /\ page' = [page EXCEPT ![p] = "opening"]
  /\ Send(p, "open")
  /\ UNCHANGED <<server, session, holder, due, latest, held, history>>

\* A heartbeat that finds no server ends the page.
Heartbeat(p) ==
  /\ page[p] = "active" /\ p \in due
  /\ due' = due \ {p}
  /\ Send(p, "ping")
  /\ page' = IF server = "up" THEN page ELSE [page EXCEPT ![p] = "ended"]
  /\ UNCHANGED <<server, session, holder, latest, held, history>>

\* The user asks for the status, applies a setting or stops the daemon.
Call(p) ==
  /\ page[p] = "active"
  /\ {<<p, "call">>, <<p, "checkedCall">>} \cap flight = {}
  /\ holder # p
  /\ server = "up"
  /\ Send(p, "call")
  /\ UNCHANGED <<server, session, holder, pages, held, history>>

\* The page leaves the foreground: it ends and closes its session, one whose
\* opening is under way once that is answered.
Hide(p) ==
  /\ page[p] \in {"active", "opening"}
  /\ page' = [page EXCEPT ![p] = IF @ = "active" THEN "ended" ELSE "hidden"]
  /\ due' = due \ {p}
  /\ IF page[p] = "active" THEN Send(p, "close") ELSE UNCHANGED flight
  /\ UNCHANGED <<server, session, holder, latest, held, history>>

\* The page is gone without a word, or its last word is lost.
Vanish(p) ==
  /\ page[p] \in {"active", "opening", "hidden"} \/ <<p, "close">> \in flight
  /\ page' = [page EXCEPT ![p] = "ended"]
  /\ due' = due \ {p}
  /\ Done(p, "close")
  /\ UNCHANGED <<server, session, holder, latest, held, history>>

-----------------------------------------------------------------------------
(* Requests.                                                               *)

\* handle_session_open.
Open(p) ==
  /\ Handle(p, "open")
  /\ token' = p
  /\ open' = TRUE
  /\ Refresh
  /\ requested' = FALSE
  /\ latest' = p
  /\ reopened' = (reopened \/ closers > 0 \/ server # "up")
  /\ crossed' = (crossed \/ \E q \in Pages : <<q, "checkedClose">> \in flight)
  /\ page' = [page EXCEPT ![p] = IF @ = "opening" THEN "active" ELSE "ended"]
  /\ flight' = (flight \ {<<p, "open">>})
               \cup (IF page[p] = "hidden" /\ server = "up" THEN {<<p, "close">>} ELSE {})
  /\ UNCHANGED <<server, closers, holder, due, held, slow, cut>>

\* No random token: the old one is lost, the session stays open.
OpenFails(p) ==
  /\ Handle(p, "open")
  /\ Done(p, "open")
  /\ token' = None
  /\ page' = [page EXCEPT ![p] = "ended"]
  /\ UNCHANGED <<server, open, idle, requested, closers, holder, due, latest, held, history>>

\* handle_session_ping; a page whose heartbeat is refused ends, and closes.
Ping(p) ==
  /\ Handle(p, "ping")
  /\ IF Authentic(p)
       THEN /\ Refresh
            /\ Done(p, "ping")
            /\ UNCHANGED <<page, due>>
       ELSE /\ page' = [page EXCEPT ![p] = "ended"]
            /\ due' = due \ {p}
            /\ flight' = (flight \ {<<p, "ping">>})
                 \cup (IF page[p] = "active" /\ server = "up" THEN {<<p, "close">>} ELSE {})
            /\ UNCHANGED idle
  /\ UNCHANGED <<server, token, open, requested, closers, holder, latest, held, history>>

\* The first section of the handlers that have two.
Check(p, r, checked) ==
  /\ Handle(p, r)
  /\ IF Authentic(p)
       THEN /\ Refresh
            /\ flight' = (flight \ {<<p, r>>}) \cup {<<p, checked>>}
       ELSE Done(p, r) /\ UNCHANGED idle
  /\ UNCHANGED <<server, token, open, requested, closers, holder, pages, held, history>>

CheckCall(p) == Check(p, "call", "checkedCall")
CheckClose(p) == Check(p, "close", "checkedClose")

\* handle_status, handle_apply, handle_stop.
AskDaemon(p) ==
  /\ Handle(p, "checkedCall")
  /\ Done(p, "checkedCall")
  /\ holder' = p
  /\ UNCHANGED <<server, session, pages, held, history>>

DaemonAnswers ==
  /\ holder # None
  /\ holder' = None
  /\ UNCHANGED <<server, session, pages, flight, held, history>>

\* handle_session_close: whose session it is is not asked again.
Close(p) ==
  /\ Handle(p, "checkedClose")
  /\ Done(p, "checkedClose")
  /\ open' = FALSE
  /\ token' = None
  /\ RequestClose
  /\ UNCHANGED <<server, idle, holder, pages, held, history>>

-----------------------------------------------------------------------------
(* The server and time.                                                    *)

\* Faulty variant: only an open session has a limit.
LimitOfOpen == IF open THEN IdleTimeout ELSE OpenGrace + 1

Limit == IF open THEN IdleTimeout ELSE OpenGrace

\* session_watchdog.
Watchdog ==
  /\ holder = None
  /\ server # "exited" /\ ~requested
  /\ idle >= Limit
  /\ RequestClose
  /\ UNCHANGED <<server, token, open, idle, holder, pages, flight, held, history>>

\* The closing thread wakes up.
CloseServer ==
  /\ closers > 0
  /\ closers' = closers - 1
  /\ server' = IF server = "up" THEN "closing" ELSE server
  /\ cut' = (cut \/ (server = "up" /\ latest # None /\ page[latest] = "active"))
  /\ UNCHANGED <<token, open, idle, requested, holder, pages, flight, held,
                 reopened, crossed, slow>>

ServerClosed ==
  /\ server = "closing"
  /\ flight = {} /\ holder = None
  /\ server' = "closed"
  /\ UNCHANGED <<session, holder, pages, flight, held, history>>

\* onBeforeServerExit.
ExitServer ==
  /\ server = "closed" /\ holder = None
  /\ server' = "exited"
  /\ open' = FALSE
  /\ token' = None
  /\ UNCHANGED <<idle, requested, closers, holder, pages, flight, held, history>>

\* One heartbeat: page timers fire and requests are handled in less time,
\* unless lock_ is not free.
Tick ==
  /\ server # "exited"
  /\ closers = 0
  /\ due = {}
  /\ holder = None => \A p \in Pages : <<p, "ping">> \notin flight
  /\ idle' = IF idle < OpenGrace THEN idle + 1 ELSE idle
  /\ due' = {p \in Pages : page[p] = "active" /\ <<p, "ping">> \notin flight}
  /\ held' = IF holder = None THEN 0 ELSE IF held < IdleTimeout THEN held + 1 ELSE held
  /\ slow' = (slow \/ held' + 1 >= IdleTimeout)
  /\ UNCHANGED <<server, token, open, requested, closers, holder, page, latest, flight,
                 reopened, crossed, cut>>

Handling(p) ==
  \/ Open(p) \/ OpenFails(p) \/ Ping(p) \/ CheckCall(p) \/ CheckClose(p)
  \/ AskDaemon(p) \/ Close(p)

Next ==
  \/ \E p \in Pages : \/ LoadPage(p) \/ Heartbeat(p) \/ Call(p) \/ Hide(p) \/ Vanish(p)
                      \/ Handling(p)
  \/ DaemonAnswers \/ Watchdog \/ CloseServer \/ ServerClosed \/ ExitServer \/ Tick

Spec == Init /\ [][Next]_vars

\* Threads run, time passes, timers fire and the daemon answers.
Fairness ==
  /\ \A p \in Pages : WF_vars(Handling(p)) /\ WF_vars(Heartbeat(p))
  /\ WF_vars(DaemonAnswers) /\ WF_vars(Watchdog) /\ WF_vars(CloseServer)
  /\ WF_vars(ServerClosed) /\ WF_vars(ExitServer) /\ WF_vars(Tick)

FairSpec == Spec /\ Fairness

-----------------------------------------------------------------------------
(* Properties.                                                             *)

\* The type invariant.
TypeOK ==
  /\ server \in {"up", "closing", "closed", "exited"}
  /\ token \in Pages \cup {None}
  /\ open \in BOOLEAN /\ requested \in BOOLEAN
  /\ idle \in 0..OpenGrace
  /\ closers \in 0..(Cardinality(Pages) + 1)
  /\ holder \in Pages \cup {None}
  /\ page \in [Pages -> {"unborn", "opening", "hidden", "active", "ended"}]
  /\ due \subseteq Pages
  /\ flight \subseteq Pages \X Requests
  /\ held \in 0..IdleTimeout

\* The server does not close on the page that uses it, neither for the late
\* close request of another page nor through the watchdog, unless its session
\* was opened when closing was under way or a close request already checked,
\* or lock_ was held for one heartbeat less than the session may be idle: the
\* last heartbeat before it was taken may be a whole period old.
ActivePageKept == cut => reopened \/ crossed \/ slow

InUse == \E p \in Pages : page[p] \in {"opening", "hidden", "active"}

\* A server no page uses comes to its end: a page that never opened a session,
\* was hidden, or vanished does not leave the port open.
PortCloses == server = "up" /\ ~InUse ~> server = "exited" \/ InUse

=============================================================================
