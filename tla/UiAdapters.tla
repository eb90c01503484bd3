----------------------------- MODULE UiAdapters -----------------------------
(***************************************************************************)
(* BrowserAutomation and WindowsUiAutomation behind the tool executor.     *)
(*                                                                         *)
(* The executor runs one call at a time, but each adapter has a worker     *)
(* thread of its own, and a call that waited too long is given up without  *)
(* being cancelled: its job runs later, when the caller has gone on.  Both *)
(* adapters therefore check, when a job runs, that the page, the tree of   *)
(* controls or the screen is still the one its caller saw.  Pages, windows *)
(* and the geometry of the screen change at any time.                      *)
(*                                                                         *)
(* Only windows of registered programs accept actions: there is one here.  *)
(* What a fingerprint covers is the page, or the tree, itself.             *)
(***************************************************************************)
EXTENDS Naturals, Sequences, FiniteSets

CONSTANTS
  Sessions,        \* browser sessions that can be launched
  Pages,           \* states of a page
  Titles, Bodies,  \* a window's title, and the controls in it
  Screens,         \* geometries of the virtual screen
  None,
  Expiry,          \* a screenshot is evidence for so long; 30 s
  DesktopTimeout,  \* a call of the desktop waits for so long; 35 s
  BrowserTimeout,  \* a call of the browser waits for so long; 65 s
  MaxShots,        \* screenshots remembered; 16 in the code
  MaxAsks, MaxChanges, MaxClock  \* bounds

Adapters == {"browser", "desktop"}
Trees == Titles \X Bodies
Limit == [a \in Adapters |-> IF a = "browser" THEN BrowserTimeout ELSE DesktopTimeout]

ASSUME UiAssumption ==
  /\ {Expiry, DesktopTimeout, BrowserTimeout, MaxShots, MaxAsks, MaxChanges, MaxClock} \subseteq Nat
  /\ Expiry < DesktopTimeout
  /\ None \notin Sessions \union Pages \union Screens

VARIABLES
  clock,
  asks,    \* calls made; a call's number names what it observes
  caller,   \* the call the executor waits for
  queue,    \* the jobs of each worker, the one that runs first
  step,     \* where that job stands
  read,     \* what it has read in an earlier step
  page,     \* the page of each live browser
  known,    \* the sessions the adapter knows
  session,  \* of each session: the fingerprint and the elements handed out last
  tree,     \* the window
  window,   \* the window as it was listed last, and its elements
  shots,    \* screenshots that are remembered, oldest first
  screen,
  told,     \* observations that callers have received
  \* Observation only.
  changes,  \* changes of the world
  moved,    \* for each worker: the world changed since its last step
  used,     \* observations with which an action of the browser succeeded
  acted     \* the last action, and what its caller had seen

world == <<page, tree, screen>>
memory == <<known, session, window, shots>>
uiVars == <<clock, asks, caller, queue, step, read, world, memory, told, changes, moved, used, acted>>

NoObservation == [kind |-> "none", on |-> None, id |-> 0, print |-> None, seen |-> None, torn |-> FALSE]
NoWindow == [id |-> 0, title |-> None, print |-> None, elements |-> 0]
NoCaller == [adapter |-> None, id |-> 0, since |-> 0]
NoAct == [obs |-> NoObservation, now |-> None, moved |-> FALSE, again |-> FALSE, waited |-> TRUE]

UiInit ==
  /\ clock = 0 /\ asks = 0 /\ caller = NoCaller
  /\ queue = [a \in Adapters |-> <<>>]
  /\ step = [a \in Adapters |-> "start"]
  /\ read = [a \in Adapters |-> None]
  /\ page = [s \in Sessions |-> None] /\ known = {}
  /\ session = [s \in Sessions |-> [print |-> None, elements |-> 0]]
  /\ tree \in Trees /\ window = NoWindow
  /\ shots = <<>> /\ screen \in Screens
  /\ told = {}
  /\ changes = 0 /\ moved = [a \in Adapters |-> FALSE] /\ used = {} /\ acted = NoAct

-----------------------------------------------------------------------------
(* execute: a job is submitted and its result waited for. *)

\* A tool is called with something that was observed, if it needs that.
Call(a, tool, obs) ==
  /\ caller = NoCaller /\ asks < MaxAsks
  /\ asks' = asks + 1
  /\ caller' = [adapter |-> a, id |-> asks + 1, since |-> clock]
  /\ queue' = [queue EXCEPT ![a] = Append(@, [id |-> asks + 1, tool |-> tool, obs |-> obs])]
  /\ UNCHANGED <<clock, step, read, world, memory, told, changes, moved, used, acted>>

\* future.result(timeout) gives up; the job stays where it is.
GiveUp ==
  /\ caller # NoCaller /\ clock - caller.since >= Limit[caller.adapter]
  /\ caller' = NoCaller
  /\ UNCHANGED <<clock, asks, queue, step, read, world, memory, told, changes, moved, used, acted>>

Runs(a, tool) == queue[a] # <<>> /\ Head(queue[a]).tool = tool
Job(a) == Head(queue[a])

\* The job ends; what it observed reaches its caller, if that still waits.
JobEnds(a, observations) ==
  LET waiting == caller.id = Job(a).id
  IN /\ queue' = [queue EXCEPT ![a] = Tail(@)]
     /\ step' = [step EXCEPT ![a] = "start"]
     /\ read' = [read EXCEPT ![a] = None]
     /\ moved' = [moved EXCEPT ![a] = FALSE]
     /\ caller' = (IF waiting THEN NoCaller ELSE caller)
     /\ told' = (IF waiting THEN told \union observations ELSE told)
     /\ UNCHANGED <<clock, asks, changes>>

\* The job goes on with its next step.
Proceeds(a, next, what) ==
  /\ step' = [step EXCEPT ![a] = next]
  /\ read' = [read EXCEPT ![a] = what]
  /\ moved' = [moved EXCEPT ![a] = FALSE]
  /\ UNCHANGED <<clock, asks, caller, queue, told, changes>>

\* The job is refused, or fails: nothing the adapter remembers changes.
Refused(a) == JobEnds(a, {}) /\ UNCHANGED <<world, memory, used, acted>>

Acts(a, now) ==
  acted' = [obs |-> Job(a).obs, now |-> now, moved |-> moved[a],
            again |-> Job(a).obs.id \in used, waited |-> read[a] = "waited"]

-----------------------------------------------------------------------------
(* The browser. *)

Launch ==
  /\ Runs("browser", "launch")
  /\ \/ /\ \E s \in Sessions \ known, p \in Pages :
             /\ page[s] = None
             /\ page' = [page EXCEPT ![s] = p]
             /\ known' = known \union {s}
             /\ JobEnds("browser", {[NoObservation EXCEPT !.kind = "session", !.on = s]})
        /\ UNCHANGED <<tree, screen, session, window, shots, used, acted>>
     \/ Refused("browser")

\* goto, which may fail when the page has already been left.
Navigate ==
  /\ Runs("browser", "navigate")
  /\ LET s == Job("browser").obs.on
     IN IF s \notin known THEN Refused("browser")
        ELSE /\ \E p \in Pages : page' = [page EXCEPT ![s] = p]
             /\ \/ session' = [session EXCEPT ![s] = [print |-> None, elements |-> 0]]
                \/ UNCHANGED session
             /\ JobEnds("browser", {})
             /\ UNCHANGED <<tree, screen, known, window, shots, used, acted>>

\* browser_get_page_state, which may fail at each step: first the fingerprint
\* is taken ...
Fingerprint ==
  /\ Runs("browser", "state") /\ step["browser"] = "start"
  /\ LET s == Job("browser").obs.on
     IN \/ Refused("browser")
        \/ s \in known /\ Proceeds("browser", "collect", page[s]) /\ UNCHANGED <<world, memory, used, acted>>

\* ... then the elements are collected, under new references.  They and the
\* fingerprint are remembered even if the page's accessibility tree or its
\* document cannot be read afterwards and the caller is told nothing.
Collect ==
  /\ Runs("browser", "state") /\ step["browser"] = "collect"
  /\ LET s == Job("browser").obs.on
         n == Job("browser").id
         o == [kind |-> "page", on |-> s, id |-> n, print |-> read["browser"],
               seen |-> page[s], torn |-> moved["browser"]]
     IN \/ Refused("browser")
        \/ /\ session' = [session EXCEPT ![s] = [print |-> read["browser"], elements |-> n]]
           /\ JobEnds("browser", {o}) \/ JobEnds("browser", {})
           /\ UNCHANGED <<world, known, window, shots, used, acted>>

\* Broken variant: the page is not fingerprinted again.
FreshAsRemembered(s, obs) ==
  s \in known /\ session[s].print = obs.print /\ session[s].elements = obs.id

\* _fresh_element: no action since the observation, the same page now, and a
\* reference of the last observation.
FreshElement(s, obs) ==
  /\ s \in known
  /\ session[s].print = obs.print /\ page[s] = obs.print
  /\ session[s].elements = obs.id

\* browser_click, browser_type and browser_select check ...
CheckElement ==
  /\ Runs("browser", "act") /\ step["browser"] = "start"
  /\ \/ /\ FreshElement(Job("browser").obs.on, Job("browser").obs)
        /\ Proceeds("browser", "act", None) /\ UNCHANGED <<world, memory, used, acted>>
     \/ Refused("browser")

\* ... and act: on the element which now has the place of the one seen.  The
\* fingerprint is forgotten, unless the action fails on the way; it may have
\* acted nevertheless.
ActOnElement ==
  /\ Runs("browser", "act") /\ step["browser"] = "act"
  /\ LET s == Job("browser").obs.on
     IN /\ Acts("browser", page[s])
        /\ page' \in { [page EXCEPT ![s] = p] : p \in Pages }
        /\ \/ /\ session' = [session EXCEPT ![s].print = None]
              /\ used' = used \union {Job("browser").obs.id}
           \/ UNCHANGED <<session, used>>
        /\ JobEnds("browser", {})
  /\ UNCHANGED <<tree, screen, known, window, shots>>

\* browser_scroll, browser_screenshot, browser_console_logs,
\* browser_network_errors and browser_download_status read.
Look == Runs("browser", "look") /\ Refused("browser")

\* The session is forgotten first; closing its browser may fail.
Close ==
  /\ Runs("browser", "close")
  /\ LET s == Job("browser").obs.on
     IN IF s \notin known THEN Refused("browser")
        ELSE /\ known' = known \ {s}
             /\ page' = [page EXCEPT ![s] = None] \/ UNCHANGED page
             /\ JobEnds("browser", {})
             /\ UNCHANGED <<tree, screen, session, window, shots, used, acted>>

-----------------------------------------------------------------------------
(* The desktop. *)

\* ui_list_windows: earlier references are gone, also when the windows cannot
\* be listed, or this one cannot.
ListWindows ==
  /\ Runs("desktop", "list")
  /\ LET n == Job("desktop").id
     IN \/ /\ window' = [NoWindow EXCEPT !.id = n, !.title = tree[1]]
           /\ JobEnds("desktop", {[kind |-> "window", on |-> n, id |-> n, print |-> tree[1],
                                   seen |-> tree, torn |-> FALSE]})
        \/ window' = NoWindow /\ JobEnds("desktop", {})
  /\ UNCHANGED <<world, known, session, shots, used, acted>>

\* ui_get_accessibility_tree: a snapshot, its fingerprint, new references.
ReadTree ==
  /\ Runs("desktop", "tree")
  /\ LET n == Job("desktop").id
     IN \/ Refused("desktop")
        \/ /\ window.id = Job("desktop").obs.on
           /\ window' = [window EXCEPT !.print = tree, !.elements = n]
           /\ JobEnds("desktop", {[kind |-> "tree", on |-> window.id, id |-> n, print |-> tree,
                                   seen |-> tree, torn |-> FALSE]})
           /\ UNCHANGED <<world, known, session, shots, used, acted>>

\* ui_focus_window: the title is the one listed.
Focus ==
  /\ Runs("desktop", "focus")
  /\ LET obs == Job("desktop").obs
     IN Refused("desktop") \/ (window.id = obs.on /\ window.title = obs.print /\ tree[1] = obs.print
                               /\ JobEnds("desktop", {}) /\ UNCHANGED <<world, memory, used, acted>>)

\* _verify_tree_fresh: the window as listed last, its tree unchanged since.
FreshTree(obs) == window.id = obs.on /\ window.print = obs.print /\ tree = obs.print

\* _fresh_element: besides, a reference of the last observation.
FreshControl(obs) == FreshTree(obs) /\ window.elements = obs.id

OnTree == Runs("desktop", "act") \/ Runs("desktop", "key")

\* ui_click_element and ui_type_text check, and ui_press_key, which names no
\* element and may rely on an earlier observation of the same tree ...
CheckControl ==
  /\ OnTree /\ step["desktop"] = "start"
  /\ \/ /\ IF Runs("desktop", "key") THEN FreshTree(Job("desktop").obs) ELSE FreshControl(Job("desktop").obs)
        /\ Proceeds("desktop", "act", None) /\ UNCHANGED <<world, memory, used, acted>>
     \/ Refused("desktop")

\* ... and act.
ActOnControl ==
  /\ OnTree /\ step["desktop"] = "act"
  /\ Acts("desktop", tree)
  /\ tree' \in Trees
  /\ JobEnds("desktop", {})
  /\ UNCHANGED <<page, screen, memory, used>>

\* ui_capture_screen of the whole desktop; the oldest screenshot is dropped.
Capture ==
  /\ Runs("desktop", "capture")
  /\ LET n == Job("desktop").id
         all == Append(shots, [id |-> n, screen |-> screen, at |-> clock])
     IN \/ Refused("desktop")
        \/ /\ shots' = SubSeq(all, IF Len(all) > MaxShots THEN 2 ELSE 1, Len(all))
           /\ JobEnds("desktop", {[kind |-> "shot", on |-> None, id |-> n, print |-> screen,
                                   seen |-> screen, torn |-> FALSE]})
           /\ UNCHANGED <<world, known, session, window, used, acted>>

\* Broken variant: a screenshot does not expire.
FreshShotUndated(obs) ==
  \E n \in DOMAIN shots : shots[n].id = obs.id /\ screen = shots[n].screen

\* _fresh_screenshot: remembered, not too old, of the same geometry.
FreshShot(obs) ==
  \E n \in DOMAIN shots :
    /\ shots[n].id = obs.id
    /\ clock - shots[n].at <= Expiry
    /\ screen = shots[n].screen

\* ui_click_coordinate and ui_drag_coordinate check ...
CheckShot ==
  /\ Runs("desktop", "point") /\ step["desktop"] = "start"
  /\ \/ /\ FreshShot(Job("desktop").obs)
        /\ Proceeds("desktop", "act", IF caller.id = Job("desktop").id THEN "waited" ELSE "late")
        /\ UNCHANGED <<world, memory, used, acted>>
     \/ Refused("desktop")

\* ... and act, whatever the screen shows by now.
Point ==
  /\ Runs("desktop", "point") /\ step["desktop"] = "act"
  /\ Acts("desktop", screen)
  /\ tree' \in Trees
  /\ JobEnds("desktop", {})
  /\ UNCHANGED <<page, screen, memory, used>>

-----------------------------------------------------------------------------
(* The environment. *)

Changes(a) ==
  /\ changes < MaxChanges /\ changes' = changes + 1
  /\ moved' = [moved EXCEPT ![a] = TRUE]
  /\ UNCHANGED <<clock, asks, caller, queue, step, read, memory, told, used, acted>>

PageChanges(s, p) ==
  page[s] \notin {None, p} /\ page' = [page EXCEPT ![s] = p]
  /\ Changes("browser") /\ UNCHANGED <<tree, screen>>

TreeChanges(t) == tree # t /\ tree' = t /\ Changes("desktop") /\ UNCHANGED <<page, screen>>

ScreenChanges(g) == screen # g /\ screen' = g /\ Changes("desktop") /\ UNCHANGED <<page, tree>>

Tick ==
  /\ clock < MaxClock /\ clock' = clock + 1
  /\ UNCHANGED <<asks, caller, queue, step, read, world, memory, told, changes, moved, used, acted>>

-----------------------------------------------------------------------------
Told(kind) == { o \in told : o.kind = kind }

UiCalls ==
  \/ Call("browser", "launch", NoObservation)
  \/ \E o \in Told("session"), tool \in {"navigate", "state", "look", "close"} : Call("browser", tool, o)
  \/ \E o \in Told("page") : Call("browser", "act", o)
  \/ \E tool \in {"list", "capture"} : Call("desktop", tool, NoObservation)
  \/ \E o \in Told("window"), tool \in {"tree", "focus"} : Call("desktop", tool, o)
  \/ \E o \in Told("tree"), tool \in {"act", "key"} : Call("desktop", tool, o)
  \/ \E o \in Told("shot") : Call("desktop", "point", o)

Work ==
  \/ Launch \/ Navigate \/ Fingerprint \/ Collect \/ CheckElement \/ ActOnElement \/ Look \/ Close
  \/ ListWindows \/ ReadTree \/ Focus \/ CheckControl \/ ActOnControl \/ Capture \/ CheckShot \/ Point

World ==
  \/ \E s \in Sessions, p \in Pages : PageChanges(s, p)
  \/ \E t \in Trees : TreeChanges(t)
  \/ \E g \in Screens : ScreenChanges(g)

UiNext == UiCalls \/ GiveUp \/ Work \/ World \/ Tick

UiSpec == UiInit /\ [][UiNext]_uiVars

-----------------------------------------------------------------------------
(* Properties. *)

UiTypeOK ==
  /\ caller.adapter \in Adapters \union {None} /\ caller.id \in 0..MaxAsks
  /\ \A a \in Adapters : step[a] \in {"start", "collect", "act"}
  /\ page \in [Sessions -> Pages \union {None}] /\ known \subseteq Sessions
  /\ tree \in Trees /\ screen \in Screens
  /\ Len(shots) <= MaxShots

\* The element, the control or the screen that is acted on is as the caller
\* saw it, however late its job runs and whatever other jobs did meanwhile -
\* unless it changed while its page was observed, or between the last check
\* and the action.  What was seen of a page carries one action that succeeds,
\* never two.
ActionsAreSeen ==
  /\ UiTypeOK
  /\ acted.now = acted.obs.seen \/ acted.moved \/ acted.obs.torn
  /\ acted.obs.kind = "page" => ~acted.again

\* A place on the screen is pointed at for a caller who still waits for it:
\* the evidence expires before the caller gives up.
PointersAreAwaited == acted.obs.kind = "shot" => acted.waited

=============================================================================
