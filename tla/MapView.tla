-------------------------------- MODULE MapView --------------------------------
(***************************************************************************)
(* The tactical map of the web client: React's properties on one side, on  *)
(* the other a map that is told what to show call by call, with markers,   *)
(* ghosts, layers and an animation of its own, and the trails of useSwarm. *)
(*                                                                         *)
(* A property that changes is rendered and its effects run, in one step.   *)
(* The map loads some time after the first render: until then the effects  *)
(* that need its layers return, and its handler draws what the first       *)
(* render closed over.  Robots do not meet on the map: each row is drawn   *)
(* on its own.  The camera is left out.                                    *)
(***************************************************************************)
EXTENDS Integers, Sequences, FiniteSets, SequencesExt

CONSTANTS
  Robot,        \* the robots
  Fix,          \* the telemetry a robot may last have sent
  StaleAge,     \* the age at which a link is STALE
  LostAge,      \* the age at which it is LOST
  MaxAge,       \* bound on the ages
  Preselected,  \* the selection of the first render (?sel=)
  Layer,        \* the groups of mission layers with a toggle
  TRAIL_LEN     \* how many positions of a robot are kept

ASSUME AgesAssumption ==
  StaleAge \in Nat /\ LostAge \in Nat /\ MaxAge \in Nat /\ 0 < StaleAge /\ StaleAge < LostAge
ASSUME TrailAssumption == TRAIL_LEN \in Nat \ {0}
ASSUME PreselectedAssumption == Preselected \subseteq Robot

VARIABLES
  frame,       \* the last telemetry of each robot in the frame, and its age
  selected,    \* the robots selected
  critical,    \* the robots with a critical alert
  sa,          \* the overlays that are on
  basemap,     \* "osm" or "dark"
  layerVis,    \* the layers that are on
  trails,      \* the positions of each robot, oldest first
  ready,       \* whether the map has loaded
  markers,     \* the markers on the map
  ghosts,      \* the ghosts on the map
  prevLink,    \* the link each robot was last drawn with
  lostFrozen,  \* where the ghost of a LOST robot was frozen
  drawn,       \* what the map's own layers show
  fence,       \* the outline of the fence and the animation of it
  byLoad,      \* history: the load handler was the last to draw the robots
  early        \* history: a layer was toggled before the load and none since

props  == <<frame, selected, critical, sa, basemap, layerVis>>
robotVars == <<markers, ghosts, prevLink, lostFrozen>>
vars   == <<props, trails, ready, robotVars, drawn, fence, byLoad, early>>

Overlay == {"symbols", "orbit", "ghost"}
FirstSa == {"orbit", "ghost"}

Row   == [fix : Fix, age : 0 .. MaxAge]
Frame == UNION {[R -> Row] : R \in SUBSET Robot}

\* As the server's watchdog tells it.
Link(row) == IF row.age < StaleAge THEN "LINK_LIVE"
             ELSE IF row.age < LostAge THEN "LINK_STALE" ELSE "LINK_LOST"
Down(f)   == {r \in DOMAIN f : Link(f[r]) # "LINK_LIVE"}

\* g overridden by f.
Override(g, f) == [r \in DOMAIN g \cup DOMAIN f |-> IF r \in DOMAIN f THEN f[r] ELSE g[r]]
Only(f, S)     == [r \in DOMAIN f \cap S |-> f[r]]

\* Mutation: markers stay when their robot leaves.
syncMarkersKeep(sel, crit, on) ==
  markers' = Override(markers,
    [r \in DOMAIN frame' |->
       [link |-> Link(frame'[r]), selected |-> r \in sel, critical |-> r \in crit,
        symbol |-> "symbols" \in on]])

syncMarkers(sel, crit, on) ==
  markers' = [r \in DOMAIN frame' |->
    [link |-> Link(frame'[r]), selected |-> r \in sel, critical |-> r \in crit,
     symbol |-> "symbols" \in on]]

\* Mutation: every frame of a LOST robot freezes it.
FreezesAlways(f, on) ==
  {r \in Down(f) : "ghost" \in on /\ Link(f[r]) = "LINK_LOST"}

\* The robots whose ghost freezes now, and those that have one frozen.
Freezes(f, on) ==
  {r \in Down(f) : "ghost" \in on /\ Link(f[r]) = "LINK_LOST"
                   /\ r \in DOMAIN prevLink /\ prevLink[r] = "LINK_STALE"}
\* Mutation: a link that comes back leaves the frozen position.
RecoversNone(f) == {}

Recovers(f) ==
  {r \in DOMAIN f \ Down(f) : r \in DOMAIN prevLink /\ prevLink[r] # "LINK_LIVE"}

\* Dead reckoning is a function of the telemetry and its age: the position is
\* the row.
syncGhosts(on) ==
  /\ prevLink' = Override(prevLink, [r \in DOMAIN frame' |-> Link(frame'[r])])
  /\ lostFrozen' = Override(Only(lostFrozen, Robot \ Recovers(frame')),
                            Only(frame', Freezes(frame', on)))
  /\ ghosts' = [r \in IF "ghost" \in on THEN Down(frame') ELSE {} |->
       [lost |-> Link(frame'[r]) = "LINK_LOST",
        at |-> IF Link(frame'[r]) = "LINK_LOST" /\ r \in DOMAIN lostFrozen'
                 THEN lostFrozen'[r] ELSE frame'[r]]]

redrawLines  == [headings |-> DOMAIN frame', trails |-> trails']
redrawOrbits == IF "orbit" \in sa' THEN selected' \cap DOMAIN frame' ELSE {}

\* The effect of a frame, a selection, an alert or an overlay.
Redraw ==
  /\ drawn' = IF ready THEN [drawn EXCEPT !.lines = redrawLines, !.orbits = redrawOrbits]
              ELSE drawn
  /\ syncMarkers(selected', critical', sa')
  /\ syncGhosts(sa')
  /\ byLoad' = FALSE

Init ==
  /\ frame = <<>>
  /\ selected = Preselected
  /\ critical = {}
  /\ sa = FirstSa
  /\ basemap = "dark"
  /\ layerVis = Layer
  /\ trails = <<>>
  /\ ready = FALSE
  /\ markers = <<>> /\ ghosts = <<>> /\ prevLink = <<>> /\ lostFrozen = <<>>
  /\ drawn = [lines |-> [headings |-> {}, trails |-> <<>>], orbits |-> {},
              basemap |-> "osm", layers |-> Layer]
  /\ fence = [red |-> FALSE, pulsing |-> FALSE]
  /\ byLoad = FALSE
  /\ early = FALSE

Pushed(r, row) ==
  LET hist == Append(IF r \in DOMAIN trails THEN trails[r] ELSE <<>>, row.fix)
  IN IF Len(hist) > TRAIL_LEN THEN Tail(hist) ELSE hist

pushTrails(f) ==
  trails' = Override(trails,
    [r \in {q \in DOMAIN f : Link(f[q]) # "LINK_LOST"} |-> Pushed(r, f[r])])

\* From one frame to a later one a robot was heard or is older.  Frames that
\* are not rendered lie between them, so an age may skip the STALE band.
Follows(f) ==
  \A r \in DOMAIN f \cap DOMAIN frame :
    f[r].fix = frame[r].fix => f[r].age >= frame[r].age

onmessage(f) ==
  /\ Follows(f)
  /\ frame' = f
  /\ pushTrails(f)
  /\ UNCHANGED <<selected, critical, sa, basemap, layerVis, ready, fence, early>>
  /\ Redraw

Select(sel) ==
  /\ sel # selected
  /\ selected' = sel
  /\ UNCHANGED <<frame, critical, sa, basemap, layerVis, trails, ready, fence, early>>
  /\ Redraw

\* Alerts are made, which may bump the pulse, or acknowledged.
Alert(crit, breach) ==
  /\ critical' = crit
  /\ fence' = IF breach /\ ready THEN [fence EXCEPT !.pulsing = TRUE] ELSE fence
  /\ UNCHANGED <<frame, selected, sa, basemap, layerVis, trails, ready, early>>
  /\ Redraw

toggleSa(k) ==
  /\ sa' = IF k \in sa THEN sa \ {k} ELSE sa \cup {k}
  /\ UNCHANGED <<frame, selected, critical, basemap, layerVis, trails, ready, fence, early>>
  /\ Redraw

ToggleBasemap ==
  /\ basemap' = IF basemap = "osm" THEN "dark" ELSE "osm"
  /\ drawn' = IF ready THEN [drawn EXCEPT !.basemap = basemap'] ELSE drawn
  /\ UNCHANGED <<frame, selected, critical, sa, layerVis, trails, ready, robotVars, fence, byLoad, early>>

toggleLayer(k) ==
  /\ layerVis' = IF k \in layerVis THEN layerVis \ {k} ELSE layerVis \cup {k}
  /\ drawn' = IF ready THEN [drawn EXCEPT !.layers = layerVis'] ELSE drawn
  /\ early' = ~ready
  /\ UNCHANGED <<frame, selected, critical, sa, basemap, trails, ready, robotVars, fence, byLoad>>

\* Mutation: the load does not look at the basemap.
LoadedPlain == [drawn EXCEPT !.lines = redrawLines]

\* The layers are added visible, the orbits empty.
Loaded == [drawn EXCEPT !.lines = redrawLines, !.basemap = basemap]

\* The load handler, with the selection, the alerts and the overlays of the
\* first render.
Load ==
  /\ ~ready
  /\ ready' = TRUE
  /\ UNCHANGED <<props, trails, fence, early>>
  /\ drawn' = Loaded
  /\ syncMarkers(Preselected, {}, FirstSa)
  /\ syncGhosts(FirstSa)
  /\ byLoad' = TRUE

\* An animation frame: red while the pulse lasts, as it was at its end.
step(last) ==
  /\ fence.pulsing
  /\ fence' = IF last THEN [red |-> FALSE, pulsing |-> FALSE] ELSE [fence EXCEPT !.red = TRUE]
  /\ UNCHANGED <<props, trails, ready, robotVars, drawn, byLoad, early>>

Next ==
  \/ \E f \in Frame : onmessage(f)
  \/ \E sel \in SUBSET Robot : Select(sel)
  \/ \E crit \in SUBSET Robot, breach \in BOOLEAN : Alert(crit, breach)
  \/ \E k \in Overlay : toggleSa(k)
  \/ ToggleBasemap
  \/ \E k \in Layer : toggleLayer(k)
  \/ Load
  \/ \E last \in BOOLEAN : step(last)

Spec == Init /\ [][Next]_vars

-----------------------------------------------------------------------------
(* Properties *)

\* There is a marker for each robot of the frame and for no other, with its
\* link.  Unless the load handler was the last to draw, what is drawn also
\* agrees with the selection, the alerts and the overlays, and the outline of
\* the fence is red only while a pulse runs (MapView.tsx:130-174, 181-235,
\* 324-338, 368-388).
PictureIsCurrent ==
  /\ DOMAIN markers = DOMAIN frame
  /\ \A r \in DOMAIN frame : markers[r].link = Link(frame[r])
  /\ fence.red => fence.pulsing
  /\ ready => drawn.lines = [headings |-> DOMAIN frame, trails |-> trails]
  /\ ~byLoad =>
       /\ {r \in DOMAIN frame : markers[r].selected} = selected \cap DOMAIN frame
       /\ {r \in DOMAIN frame : markers[r].critical} = critical \cap DOMAIN frame
       /\ \A r \in DOMAIN frame : markers[r].symbol = ("symbols" \in sa)
       /\ DOMAIN ghosts = IF "ghost" \in sa THEN Down(frame) ELSE {}
       /\ ready => drawn.orbits = IF "orbit" \in sa THEN selected \cap DOMAIN frame ELSE {}

\* Once the map has loaded, the basemap is the one chosen, whenever that was,
\* and the mission layers are those chosen unless the choice was made before
\* the load (MapView.tsx:295-297, 341-358).
LayersAgree ==
  ready => /\ drawn.basemap = basemap
           /\ ~early => drawn.layers = layerVis

\* The ghost of a robot that is LOST, once frozen, stays where it is as long as
\* it is shown, and a link that comes back ends that for good: the next outage
\* freezes anew (MapView.tsx:190-211).
FrozenForOneOutage ==
  [][/\ \A r \in DOMAIN ghosts \cap DOMAIN ghosts' \cap DOMAIN lostFrozen :
          ghosts[r].lost /\ ghosts'[r].lost => ghosts'[r].at = ghosts[r].at
     /\ \A r \in DOMAIN frame' \ Down(frame') : r \notin DOMAIN lostFrozen']_vars

=============================================================================
