----------------------------- MODULE LiveViewer -----------------------------
(***************************************************************************)
(* The frame that shows a website inside the application: a phase that is  *)
(* set by the frame's events and by a timer of ten seconds.  The website's *)
(* URL may be edited while its viewer is open; 0 is a URL that cannot be   *)
(* shown.  Another website is another viewer (WebsiteWall's key).          *)
(***************************************************************************)
EXTENDS Naturals

CONSTANT MaxUrl

VARIABLES
  url,      \* what normalizeLiveWebsiteUrl makes of the website's URL
  phase,    \* LiveViewerPhase
  timer,    \* timeoutRef: the timer that marks a slow frame is set
  frame,    \* the document asked for by the frame as it is now
  old,      \* a document this frame was asked for before may still fire its load event
  early     \* history: it did, after the frame was asked for another

vars == <<url, phase, timer, frame, old, early>>

TypeOK ==
  /\ url \in 0 .. MaxUrl /\ frame \in {"none", "loading", "loaded", "failed"}
  /\ phase \in {"invalid", "loading", "ready", "slow", "unverified"}
  /\ timer \in BOOLEAN /\ (timer => url # 0)
  /\ old \in BOOLEAN /\ early \in BOOLEAN

initialLiveViewerPhase(u) == IF u = 0 THEN "invalid" ELSE "loading"
AskedFrame(u) == IF u = 0 THEN "none" ELSE "loading"

Init ==
  /\ url \in 0 .. MaxUrl /\ phase = initialLiveViewerPhase(url) /\ timer = (url # 0)
  /\ frame = AskedFrame(url) /\ old = FALSE /\ early = FALSE

\* The effect for another URL.  A slip: the phase is left as it was.
KeepPhase(u) == phase' = phase /\ timer' = (u # 0)
StartViewing(u) == phase' = initialLiveViewerPhase(u) /\ timer' = (u # 0)

\* The frame keeps its key and gets another src.
EditUrl(u) ==
  /\ u # url /\ url' = u
  /\ StartViewing(u)
  /\ frame' = AskedFrame(u) /\ old' = (u # 0 /\ (old \/ frame = "loading")) /\ early' = FALSE

markLiveViewerSlow(p) == IF p = "loading" THEN "slow" ELSE p
TimerFires ==
  /\ timer /\ timer' = FALSE /\ phase' = markLiveViewerSlow(phase)
  /\ UNCHANGED <<url, frame, old, early>>

markLiveViewerReady == IF url = 0 THEN "invalid" ELSE "ready"
markLiveViewerUnverified == IF url = 0 THEN "invalid" ELSE "unverified"

\* A document loads; one that failed may still do so.
FrameLoads ==
  /\ frame \in {"loading", "failed"} /\ frame' = "loaded"
  /\ timer' = FALSE /\ phase' = markLiveViewerReady /\ old' = FALSE /\ early' = FALSE
  /\ UNCHANGED url
FrameFails ==
  /\ frame = "loading" /\ frame' = "failed"
  /\ timer' = FALSE /\ phase' = markLiveViewerUnverified /\ old' = FALSE /\ early' = FALSE
  /\ UNCHANGED url
OldFrameLoads ==
  /\ old /\ old' = FALSE /\ early' = TRUE
  /\ timer' = FALSE /\ phase' = markLiveViewerReady
  /\ UNCHANGED <<url, frame>>

canRetryLiveViewer == phase \in {"slow", "unverified"}
\* A slip: the attempt stays the same, so that the frame and the timer do.
RetrySameAttempt ==
  /\ url # 0 /\ canRetryLiveViewer
  /\ phase' = "loading"
  /\ UNCHANGED <<url, timer, frame, old, early>>
\* A new attempt is a new frame: the old one's events are not heard any more.
Retry ==
  /\ url # 0 /\ canRetryLiveViewer
  /\ phase' = "loading" /\ timer' = TRUE /\ frame' = "loading" /\ old' = FALSE /\ early' = FALSE
  /\ UNCHANGED url

Next ==
  \/ \E u \in 0 .. MaxUrl : EditUrl(u)
  \/ TimerFires \/ FrameLoads \/ FrameFails \/ OldFrameLoads
  \/ Retry

Spec == Init /\ [][Next]_vars
-----------------------------------------------------------------------------
\* A frame that never fires an event does not stay "loading" for ever: whenever the viewer
\* says so its timer is running, after every retry, edit and late event.
LoadingHasTimer == phase = "loading" => timer

\* The phase speaks of the document the frame was last asked for: ready only if that one
\* has loaded, with retry offered only while it has not, unless an earlier document's load
\* event came after the URL was edited.
PhaseIsOfFrame ==
  ~early =>
    /\ phase = "ready" <=> frame = "loaded"
    /\ phase = "unverified" <=> frame = "failed"
    /\ phase = "invalid" <=> frame = "none"
    /\ canRetryLiveViewer => frame \in {"loading", "failed"} /\ ~timer
=============================================================================
