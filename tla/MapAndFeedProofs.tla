--------------------------- MODULE MapAndFeedProofs ---------------------------
(***************************************************************************)
(* Proofs about MapView, for any number of robots, ages, layers and        *)
(* lengths of trails, and about FakeSource, the feed of the map in a demo, *)
(* for any robots, speeds, radii, parameters and lists of targets, any     *)
(* cycle of the link, any retention of two ticks or more, any number of    *)
(* ticks and of commands.                                                  *)
(***************************************************************************)
EXTENDS MapView, FakeSource, TLAPS, WellFoundedInduction

-----------------------------------------------------------------------------
(* The map: the inductive invariant. *)

\* What the map is told of the robots is told of those in the frame.
MarkersAgree ==
  /\ DOMAIN markers = DOMAIN frame
  /\ \A r \in DOMAIN frame : markers[r].link = Link(frame[r])

MarkersCurrent ==
  ~byLoad => \A r \in DOMAIN frame :
    /\ markers[r].selected = (r \in selected)
    /\ markers[r].critical = (r \in critical)
    /\ markers[r].symbol = ("symbols" \in sa)

\* What prevLink and lostFrozen keep of robots that left is out of date; of
\* those in the frame it is not.
LinksAgree ==
  /\ \A r \in DOMAIN frame : r \in DOMAIN prevLink /\ prevLink[r] = Link(frame[r])
  /\ \A r \in DOMAIN lostFrozen : r \in DOMAIN prevLink /\ prevLink[r] # "LINK_LIVE"

GhostsAgree ==
  /\ ~byLoad => DOMAIN ghosts = IF "ghost" \in sa THEN Down(frame) ELSE {}
  /\ \A r \in DOMAIN ghosts :
       /\ r \in DOMAIN frame
       /\ ghosts[r].lost => /\ Link(frame[r]) = "LINK_LOST"
                            /\ r \in DOMAIN lostFrozen => ghosts[r].at = lostFrozen[r]

LinesAgree ==
  ready => /\ drawn.lines = [headings |-> DOMAIN frame, trails |-> trails]
           /\ ~byLoad => drawn.orbits = IF "orbit" \in sa THEN selected \cap DOMAIN frame ELSE {}

LayersFollow ==
  /\ ready => drawn.basemap = basemap
  /\ ~early => drawn.layers = layerVis

Shapes ==
  /\ DOMAIN frame \subseteq Robot
  /\ DOMAIN lostFrozen \subseteq Robot
  /\ drawn = [l \in {"lines", "orbits", "basemap", "layers"} |-> drawn[l]]
  /\ fence \in [red : BOOLEAN, pulsing : BOOLEAN]
  /\ ready \in BOOLEAN
  /\ byLoad \in BOOLEAN
  /\ early \in BOOLEAN

MapInv ==
  /\ Shapes
  /\ MarkersAgree
  /\ MarkersCurrent
  /\ LinksAgree
  /\ GhostsAgree
  /\ LinesAgree
  /\ LayersFollow
  /\ fence.red => fence.pulsing

-----------------------------------------------------------------------------
(* The map: what the helpers do. *)

LEMMA Overriding ==
  ASSUME NEW g, NEW f
  PROVE  /\ DOMAIN Override(g, f) = DOMAIN g \cup DOMAIN f
         /\ \A r \in DOMAIN f : Override(g, f)[r] = f[r]
         /\ \A r \in DOMAIN g : r \notin DOMAIN f => Override(g, f)[r] = g[r]
BY DEF Override

LEMMA Restricting ==
  ASSUME NEW f, NEW S
  PROVE  /\ DOMAIN Only(f, S) = DOMAIN f \cap S
         /\ \A r \in DOMAIN f \cap S : Only(f, S)[r] = f[r]
BY DEF Only

LEMMA MarkerFields ==
  ASSUME NEW a, NEW b, NEW c, NEW d, NEW m,
         m = [link |-> a, selected |-> b, critical |-> c, symbol |-> d]
  PROVE  m.link = a /\ m.selected = b /\ m.critical = c /\ m.symbol = d
OBVIOUS

LEMMA Markers ==
  ASSUME NEW sel, NEW crit, NEW on, syncMarkers(sel, crit, on)
  PROVE  /\ MarkersAgree'
         /\ \A r \in DOMAIN frame' : /\ markers'[r].selected = (r \in sel)
                                     /\ markers'[r].critical = (r \in crit)
                                     /\ markers'[r].symbol = ("symbols" \in on)
<1>1. DOMAIN markers' = DOMAIN frame'
  BY DEF syncMarkers
<1>2. \A r \in DOMAIN frame' :
        markers'[r] = [link |-> Link(frame'[r]), selected |-> r \in sel, critical |-> r \in crit,
                       symbol |-> "symbols" \in on]
  BY DEF syncMarkers
<1>3. ASSUME NEW r \in DOMAIN frame'
      PROVE  /\ markers'[r].link = Link(frame'[r])
             /\ markers'[r].selected = (r \in sel)
             /\ markers'[r].critical = (r \in crit)
             /\ markers'[r].symbol = ("symbols" \in on)
  <2>1. markers'[r] = [link |-> Link(frame'[r]), selected |-> r \in sel,
                       critical |-> r \in crit, symbol |-> "symbols" \in on]
    BY <1>2
  <2> QED BY <2>1, MarkerFields
<1>5. MarkersAgree'
  BY <1>1, <1>3 DEF MarkersAgree, Link
<1> QED BY <1>3, <1>5

\* The ghosts after a drawing: a position that is frozen is kept as long as
\* its robot is not LIVE again.
LEMMA Ghosts ==
  ASSUME Shapes, LinksAgree, NEW on, syncGhosts(on), DOMAIN frame' \subseteq Robot
  PROVE  /\ LinksAgree'
         /\ DOMAIN lostFrozen' \subseteq Robot
         /\ \A r \in DOMAIN frame' \ Down(frame') : r \notin DOMAIN lostFrozen'
         /\ \A r \in DOMAIN lostFrozen \cap Robot :
              r \notin Recovers(frame') /\ r \notin Freezes(frame', on) =>
                r \in DOMAIN lostFrozen' /\ lostFrozen'[r] = lostFrozen[r]
         /\ DOMAIN ghosts' = IF "ghost" \in on THEN Down(frame') ELSE {}
         /\ \A r \in DOMAIN ghosts' :
              /\ r \in DOMAIN frame'
              /\ ghosts'[r].lost = (Link(frame'[r]) = "LINK_LOST")
              /\ Link(frame'[r]) = "LINK_LOST" /\ r \in DOMAIN lostFrozen' =>
                   ghosts'[r].at = lostFrozen'[r]
<1> DEFINE kept == Only(lostFrozen, Robot \ Recovers(frame'))
           new  == Only(frame', Freezes(frame', on))
           link == [r \in DOMAIN frame' |-> Link(frame'[r])]
<1>1. /\ prevLink' = Override(prevLink, link)
      /\ lostFrozen' = Override(kept, new)
      /\ ghosts' = [r \in IF "ghost" \in on THEN Down(frame') ELSE {} |->
           [lost |-> Link(frame'[r]) = "LINK_LOST",
            at |-> IF Link(frame'[r]) = "LINK_LOST" /\ r \in DOMAIN lostFrozen'
                     THEN lostFrozen'[r] ELSE frame'[r]]]
  BY DEF syncGhosts
<1>2. /\ DOMAIN prevLink' = DOMAIN prevLink \cup DOMAIN frame'
      /\ \A r \in DOMAIN frame' : prevLink'[r] = Link(frame'[r])
      /\ \A r \in DOMAIN prevLink : r \notin DOMAIN frame' => prevLink'[r] = prevLink[r]
  <2>1. DOMAIN link = DOMAIN frame' /\ \A r \in DOMAIN frame' : link[r] = Link(frame'[r])
    OBVIOUS
  <2> HIDE DEF link
  <2>2. /\ DOMAIN Override(prevLink, link) = DOMAIN prevLink \cup DOMAIN link
        /\ \A r \in DOMAIN link : Override(prevLink, link)[r] = link[r]
        /\ \A r \in DOMAIN prevLink :
             r \notin DOMAIN link => Override(prevLink, link)[r] = prevLink[r]
    BY Overriding
  <2> QED BY <1>1, <2>1, <2>2
<1>3. /\ Freezes(frame', on) \subseteq DOMAIN frame'
      /\ Recovers(frame') = {r \in DOMAIN frame' \ Down(frame') :
                               r \in DOMAIN prevLink /\ prevLink[r] # "LINK_LIVE"}
      /\ Down(frame') = {r \in DOMAIN frame' : Link(frame'[r]) # "LINK_LIVE"}
      /\ Freezes(frame', on) \subseteq Down(frame')
  BY DEF Freezes, Recovers, Down
<1>4. /\ DOMAIN kept = DOMAIN lostFrozen \cap (Robot \ Recovers(frame'))
      /\ \A r \in DOMAIN kept : kept[r] = lostFrozen[r]
      /\ DOMAIN new = Freezes(frame', on)
  <2>1. /\ DOMAIN kept = DOMAIN lostFrozen \cap (Robot \ Recovers(frame'))
        /\ \A r \in DOMAIN lostFrozen \cap (Robot \ Recovers(frame')) : kept[r] = lostFrozen[r]
    BY Restricting
  <2>2. DOMAIN new = DOMAIN frame' \cap Freezes(frame', on)
    BY Restricting
  <2> HIDE DEF kept, new
  <2> QED BY <1>3, <2>1, <2>2
<1> HIDE DEF kept, new, link
<1>5. /\ DOMAIN lostFrozen' = DOMAIN kept \cup Freezes(frame', on)
      /\ \A r \in DOMAIN kept : r \notin Freezes(frame', on) => lostFrozen'[r] = lostFrozen[r]
  <2>1. /\ DOMAIN Override(kept, new) = DOMAIN kept \cup DOMAIN new
        /\ \A r \in DOMAIN kept : r \notin DOMAIN new => Override(kept, new)[r] = kept[r]
    BY Overriding
  <2> QED BY <1>1, <1>4, <2>1
<1>6. DOMAIN lostFrozen' \subseteq Robot
  BY <1>3, <1>4, <1>5
<1>7. \A r \in DOMAIN frame' \ Down(frame') : r \notin DOMAIN lostFrozen'
  BY <1>3, <1>4, <1>5 DEF LinksAgree
<1>8. LinksAgree'
  <2>1. \A r \in DOMAIN frame' : r \in DOMAIN prevLink' /\ prevLink'[r] = Link(frame'[r])
    BY <1>2
  <2>2. \A r \in DOMAIN lostFrozen' : r \in DOMAIN prevLink' /\ prevLink'[r] # "LINK_LIVE"
    <3> SUFFICES ASSUME NEW r \in DOMAIN lostFrozen'
                 PROVE  r \in DOMAIN prevLink' /\ prevLink'[r] # "LINK_LIVE"
      OBVIOUS
    <3>1. CASE r \in DOMAIN frame'
      BY <1>2, <1>3, <1>7, <3>1
    <3>2. CASE r \notin DOMAIN frame'
      <4>1. r \in DOMAIN lostFrozen
        BY <1>3, <1>4, <1>5, <3>2
      <4> QED BY <1>2, <3>2, <4>1 DEF LinksAgree
    <3> QED BY <3>1, <3>2
  <2> QED BY <2>1, <2>2 DEF LinksAgree, Link
<1>9. DOMAIN ghosts' = IF "ghost" \in on THEN Down(frame') ELSE {}
  BY <1>1
<1>10. ASSUME NEW r \in DOMAIN ghosts'
       PROVE  /\ r \in DOMAIN frame'
              /\ ghosts'[r].lost = (Link(frame'[r]) = "LINK_LOST")
              /\ Link(frame'[r]) = "LINK_LOST" /\ r \in DOMAIN lostFrozen' =>
                   ghosts'[r].at = lostFrozen'[r]
  <2>1. r \in DOMAIN frame'
    BY <1>3, <1>9
  <2>2. ghosts'[r] = [lost |-> Link(frame'[r]) = "LINK_LOST",
                      at |-> IF Link(frame'[r]) = "LINK_LOST" /\ r \in DOMAIN lostFrozen'
                               THEN lostFrozen'[r] ELSE frame'[r]]
    BY <1>1, <1>9
  <2> QED BY <2>1, <2>2
<1> QED BY <1>4, <1>5, <1>6, <1>7, <1>8, <1>9, <1>10

-----------------------------------------------------------------------------
(* The map: the steps. *)

\* The effect of a property that changed.
LEMMA RedrawStep ==
  ASSUME MapInv, Redraw, DOMAIN frame' \subseteq Robot,
         UNCHANGED <<basemap, layerVis, ready, early>>,
         fence' \in [red : BOOLEAN, pulsing : BOOLEAN], fence'.red => fence'.pulsing
  PROVE  MapInv'
<1>1. syncMarkers(selected', critical', sa') /\ syncGhosts(sa') /\ byLoad' = FALSE
  BY DEF Redraw
<1>2. MarkersAgree' /\ MarkersCurrent'
  BY <1>1, Markers DEF MarkersCurrent
<1>3. LinksAgree' /\ DOMAIN lostFrozen' \subseteq Robot /\ GhostsAgree'
  <2>1. /\ LinksAgree'
        /\ DOMAIN lostFrozen' \subseteq Robot
        /\ DOMAIN ghosts' = IF "ghost" \in sa' THEN Down(frame') ELSE {}
        /\ \A r \in DOMAIN ghosts' :
             /\ r \in DOMAIN frame'
             /\ ghosts'[r].lost = (Link(frame'[r]) = "LINK_LOST")
             /\ Link(frame'[r]) = "LINK_LOST" /\ r \in DOMAIN lostFrozen' =>
                  ghosts'[r].at = lostFrozen'[r]
    BY <1>1, Ghosts DEF MapInv
  <2>2. GhostsAgree'
    BY <2>1 DEF GhostsAgree, Down, Link
  <2> QED BY <2>1, <2>2
<1>4. /\ drawn' = [l \in {"lines", "orbits", "basemap", "layers"} |-> drawn'[l]]
      /\ drawn'.basemap = drawn.basemap
      /\ drawn'.layers = drawn.layers
      /\ ready => drawn'.lines = redrawLines /\ drawn'.orbits = redrawOrbits
  BY DEF Redraw, MapInv, Shapes
<1>5. LinesAgree'
  BY <1>1, <1>4 DEF LinesAgree, redrawLines, redrawOrbits
<1>6. LayersFollow'
  BY <1>4 DEF MapInv, LayersFollow
<1>7. Shapes'
  BY <1>1, <1>3, <1>4 DEF MapInv, Shapes
<1> QED BY <1>2, <1>3, <1>5, <1>6, <1>7 DEF MapInv

\* The four effects that draw the robots.
LEMMA PropsStep ==
  ASSUME MapInv,
         \/ \E f \in Frame : onmessage(f)
         \/ \E sel \in SUBSET Robot : Select(sel)
         \/ \E crit \in SUBSET Robot, breach \in BOOLEAN : Alert(crit, breach)
         \/ \E k \in Overlay : toggleSa(k)
  PROVE  Redraw /\ MapInv'
<1>1. ASSUME NEW f \in Frame, onmessage(f) PROVE Redraw /\ MapInv'
  <2>1. DOMAIN f \subseteq Robot
    BY DEF Frame
  <2> QED BY <1>1, <2>1, RedrawStep DEF onmessage, MapInv, Shapes
<1>2. ASSUME NEW sel \in SUBSET Robot, Select(sel) PROVE Redraw /\ MapInv'
  BY <1>2, RedrawStep DEF Select, MapInv, Shapes
<1>3. ASSUME NEW crit \in SUBSET Robot, NEW breach \in BOOLEAN, Alert(crit, breach)
      PROVE  Redraw /\ MapInv'
  <2>1. fence' \in [red : BOOLEAN, pulsing : BOOLEAN] /\ (fence'.red => fence'.pulsing)
    BY <1>3 DEF Alert, MapInv, Shapes
  <2> QED BY <1>3, <2>1, RedrawStep DEF Alert, MapInv, Shapes
<1>4. ASSUME NEW k \in Overlay, toggleSa(k) PROVE Redraw /\ MapInv'
  BY <1>4, RedrawStep DEF toggleSa, MapInv, Shapes
<1> QED BY <1>1, <1>2, <1>3, <1>4

\* The load handler draws with what the first render closed over.
LEMMA LoadStep == ASSUME MapInv, Load PROVE MapInv'
<1>1. /\ ready' = TRUE /\ byLoad' = TRUE
      /\ UNCHANGED <<frame, selected, critical, sa, basemap, layerVis, trails, fence, early>>
      /\ syncMarkers(Preselected, {}, FirstSa) /\ syncGhosts(FirstSa)
      /\ drawn' = Loaded
  BY DEF Load, props
<1>2. MarkersAgree' /\ MarkersCurrent'
  BY <1>1, Markers DEF MarkersCurrent
<1>3. LinksAgree' /\ DOMAIN lostFrozen' \subseteq Robot /\ GhostsAgree'
  <2>1. /\ LinksAgree'
        /\ DOMAIN lostFrozen' \subseteq Robot
        /\ \A r \in DOMAIN ghosts' :
             /\ r \in DOMAIN frame'
             /\ ghosts'[r].lost = (Link(frame'[r]) = "LINK_LOST")
             /\ Link(frame'[r]) = "LINK_LOST" /\ r \in DOMAIN lostFrozen' =>
                  ghosts'[r].at = lostFrozen'[r]
    <3>1. DOMAIN frame' \subseteq Robot
      BY <1>1 DEF MapInv, Shapes
    <3> QED BY <1>1, <3>1, Ghosts DEF MapInv
  <2>2. GhostsAgree'
    BY <1>1, <2>1 DEF GhostsAgree, Link
  <2> QED BY <2>1, <2>2
<1>4. /\ drawn' = [l \in {"lines", "orbits", "basemap", "layers"} |-> drawn'[l]]
      /\ drawn'.basemap = basemap
      /\ drawn'.layers = drawn.layers
      /\ drawn'.lines = redrawLines
  BY <1>1 DEF Loaded, MapInv, Shapes
<1>5. LinesAgree'
  BY <1>1, <1>4 DEF LinesAgree, redrawLines
<1>6. LayersFollow'
  BY <1>1, <1>4 DEF MapInv, LayersFollow
<1>7. Shapes' /\ (fence'.red => fence'.pulsing)
  BY <1>1, <1>3, <1>4 DEF MapInv, Shapes
<1> QED BY <1>2, <1>3, <1>5, <1>6, <1>7 DEF MapInv

LEMMA ToggleStep ==
  ASSUME MapInv, ToggleBasemap \/ \E k \in Layer : toggleLayer(k)
  PROVE  MapInv'
<1>1. /\ UNCHANGED <<frame, selected, critical, sa, trails, ready, markers, ghosts, prevLink,
                     lostFrozen, fence, byLoad>>
      /\ early' \in BOOLEAN
  BY DEF ToggleBasemap, toggleLayer, robotVars, MapInv, Shapes
<1>2. /\ drawn' = [l \in {"lines", "orbits", "basemap", "layers"} |-> drawn'[l]]
      /\ drawn'.lines = drawn.lines /\ drawn'.orbits = drawn.orbits
  BY DEF ToggleBasemap, toggleLayer, MapInv, Shapes
<1>3. LayersFollow'
  <2>1. CASE ToggleBasemap
    <3>1. /\ UNCHANGED <<layerVis, early, ready>>
          /\ drawn'.layers = drawn.layers
          /\ ready => drawn'.basemap = basemap'
      BY <2>1 DEF ToggleBasemap, MapInv, Shapes
    <3> QED BY <3>1 DEF MapInv, LayersFollow
  <2>2. ASSUME NEW k \in Layer, toggleLayer(k) PROVE LayersFollow'
    <3>1. /\ UNCHANGED <<basemap, ready>>
          /\ early' = ~ready
          /\ drawn'.basemap = drawn.basemap
          /\ ready => drawn'.layers = layerVis'
      BY <2>2 DEF toggleLayer, MapInv, Shapes
    <3> QED BY <3>1 DEF MapInv, LayersFollow, Shapes
  <2> QED BY <2>1, <2>2
<1>4. MarkersAgree' /\ MarkersCurrent' /\ LinksAgree' /\ GhostsAgree' /\ LinesAgree'
  BY <1>1, <1>2 DEF MapInv, MarkersAgree, MarkersCurrent, LinksAgree, GhostsAgree, LinesAgree,
                    Link, Down
<1>5. Shapes' /\ (fence'.red => fence'.pulsing)
  BY <1>1, <1>2 DEF MapInv, Shapes
<1> QED BY <1>3, <1>4, <1>5 DEF MapInv

LEMMA PulseStep == ASSUME MapInv, NEW last \in BOOLEAN, step(last) PROVE MapInv'
<1>1. /\ UNCHANGED <<frame, selected, critical, sa, basemap, layerVis, trails, ready, markers,
                     ghosts, prevLink, lostFrozen, drawn, byLoad, early>>
      /\ fence' \in [red : BOOLEAN, pulsing : BOOLEAN] /\ (fence'.red => fence'.pulsing)
  BY DEF step, props, robotVars, MapInv, Shapes
<1> QED BY <1>1 DEF MapInv, Shapes, MarkersAgree, MarkersCurrent, LinksAgree, GhostsAgree,
                    LinesAgree, LayersFollow, Link, Down

LEMMA MapInitHolds == ASSUME Init PROVE MapInv
<1>1. /\ DOMAIN frame = {} /\ DOMAIN markers = {} /\ DOMAIN ghosts = {}
      /\ DOMAIN prevLink = {} /\ DOMAIN lostFrozen = {}
  BY DEF Init
<1>2. Shapes /\ LayersFollow /\ (fence.red => fence.pulsing)
  BY <1>1 DEF Init, Shapes, LayersFollow
<1>3. GhostsAgree
  BY <1>1 DEF GhostsAgree, Down
<1>4. MarkersAgree /\ MarkersCurrent /\ LinksAgree /\ LinesAgree
  BY <1>1 DEF Init, MarkersAgree, MarkersCurrent, LinksAgree, LinesAgree
<1> QED BY <1>2, <1>3, <1>4 DEF MapInv

LEMMA MapNextStep == ASSUME MapInv, [Next]_vars PROVE MapInv'
<1>1. CASE UNCHANGED vars
  BY <1>1 DEF vars, props, robotVars, MapInv, Shapes, MarkersAgree, MarkersCurrent, LinksAgree,
              GhostsAgree, LinesAgree, LayersFollow, Link, Down
<1>2. CASE Next
  BY <1>2, PropsStep, LoadStep, ToggleStep, PulseStep DEF Next
<1> QED BY <1>1, <1>2

LEMMA MapInvariance == Spec => []MapInv
<1>1. Init => MapInv
  BY MapInitHolds
<1>2. MapInv /\ [Next]_vars => MapInv'
  BY MapNextStep
<1> QED BY <1>1, <1>2, PTL DEF Spec

-----------------------------------------------------------------------------
(* The map: theorems. *)

\* What is drawn agrees with the frame, and unless the load handler was the
\* last to draw with the selection, the alerts and the overlays
\* (MapView.tsx:130-174, 181-235, 324-338).
THEOREM Drawn == Spec => []PictureIsCurrent
<1>1. ASSUME MapInv PROVE PictureIsCurrent
  <2>1. /\ DOMAIN markers = DOMAIN frame
        /\ \A r \in DOMAIN frame : markers[r].link = Link(frame[r])
        /\ fence.red => fence.pulsing
        /\ ready => drawn.lines = [headings |-> DOMAIN frame, trails |-> trails]
    BY <1>1 DEF MapInv, MarkersAgree, LinesAgree
  <2>2. ASSUME ~byLoad
        PROVE  /\ {r \in DOMAIN frame : markers[r].selected} = selected \cap DOMAIN frame
               /\ {r \in DOMAIN frame : markers[r].critical} = critical \cap DOMAIN frame
               /\ \A r \in DOMAIN frame : markers[r].symbol = ("symbols" \in sa)
    BY <1>1, <2>2 DEF MapInv, MarkersCurrent
  <2>3. ASSUME ~byLoad
        PROVE  /\ DOMAIN ghosts = IF "ghost" \in sa THEN Down(frame) ELSE {}
               /\ ready => drawn.orbits =
                    IF "orbit" \in sa THEN selected \cap DOMAIN frame ELSE {}
    BY <1>1, <2>3 DEF MapInv, GhostsAgree, LinesAgree
  <2> QED BY <2>1, <2>2, <2>3 DEF PictureIsCurrent
<1> QED BY <1>1, MapInvariance, PTL

\* The basemap and the mission layers are those chosen, but for a layer that
\* was toggled before the load (MapView.tsx:295-297, 341-358).
THEOREM Layered == Spec => []LayersAgree
<1>1. MapInv => LayersAgree
  BY DEF MapInv, LayersFollow, LayersAgree
<1> QED BY <1>1, MapInvariance, PTL

\* The ghost of a LOST robot stays where it was frozen until the link is back,
\* and not longer (MapView.tsx:190-211).
THEOREM Frozen == Spec => FrozenForOneOutage
<1> DEFINE Stays == \A r \in DOMAIN ghosts \cap DOMAIN ghosts' \cap DOMAIN lostFrozen :
                      ghosts[r].lost /\ ghosts'[r].lost => ghosts'[r].at = ghosts[r].at
           Ends  == \A r \in DOMAIN frame' \ Down(frame') : r \notin DOMAIN lostFrozen'
<1>1. ASSUME MapInv, NEW on, syncGhosts(on), DOMAIN frame' \subseteq Robot PROVE Stays /\ Ends
  <2>1. /\ Ends
        /\ \A r \in DOMAIN lostFrozen \cap Robot :
             r \notin Recovers(frame') /\ r \notin Freezes(frame', on) =>
               r \in DOMAIN lostFrozen' /\ lostFrozen'[r] = lostFrozen[r]
        /\ \A r \in DOMAIN ghosts' :
             /\ r \in DOMAIN frame'
             /\ ghosts'[r].lost = (Link(frame'[r]) = "LINK_LOST")
             /\ Link(frame'[r]) = "LINK_LOST" /\ r \in DOMAIN lostFrozen' =>
                  ghosts'[r].at = lostFrozen'[r]
    BY <1>1, Ghosts DEF MapInv
  <2>2. ASSUME NEW r \in DOMAIN ghosts \cap DOMAIN ghosts' \cap DOMAIN lostFrozen,
               ghosts[r].lost, ghosts'[r].lost
        PROVE  ghosts'[r].at = ghosts[r].at
    <3>1. /\ r \in DOMAIN frame /\ Link(frame[r]) = "LINK_LOST"
          /\ ghosts[r].at = lostFrozen[r]
          /\ r \in Robot
          /\ prevLink[r] = "LINK_LOST"
      BY <1>1, <2>2 DEF MapInv, GhostsAgree, LinksAgree, Shapes
    <3>2. r \in DOMAIN frame' /\ Link(frame'[r]) = "LINK_LOST"
      BY <2>1, <2>2
    <3>3. r \notin Recovers(frame') /\ r \notin Freezes(frame', on)
      BY <3>1, <3>2 DEF Recovers, Freezes, Down
    <3>4. r \in DOMAIN lostFrozen' /\ lostFrozen'[r] = lostFrozen[r]
      BY <2>1, <2>2, <3>1, <3>3
    <3> QED BY <2>1, <2>2, <3>1, <3>2, <3>4
  <2> QED BY <2>1, <2>2
<1>2. ASSUME MapInv, UNCHANGED <<frame, robotVars>> PROVE Stays /\ Ends
  <2>1. Stays
    BY <1>2 DEF robotVars
  <2>2. \A r \in DOMAIN frame \ Down(frame) : r \notin DOMAIN lostFrozen
    BY <1>2 DEF MapInv, LinksAgree, Down
  <2> QED BY <1>2, <2>1, <2>2 DEF robotVars, Down, Link
<1>3. ASSUME MapInv, Redraw, MapInv' PROVE Stays /\ Ends
  BY <1>1, <1>3 DEF Redraw, MapInv, Shapes
<1>4. ASSUME MapInv, Load PROVE Stays /\ Ends
  BY <1>1, <1>4 DEF Load, props, MapInv, Shapes
<1>5. ASSUME MapInv, [Next]_vars PROVE Stays /\ Ends
  <2>1. ASSUME \/ UNCHANGED vars
               \/ ToggleBasemap
               \/ \E k \in Layer : toggleLayer(k)
               \/ \E last \in BOOLEAN : step(last)
        PROVE  Stays /\ Ends
    <3>1. UNCHANGED <<frame, robotVars>>
      BY <2>1 DEF vars, props, ToggleBasemap, toggleLayer, step
    <3> QED BY <1>2, <1>5, <3>1
  <2> HIDE DEF Stays, Ends
  <2> QED BY <1>3, <1>4, <1>5, <2>1, PropsStep DEF Next
<1>6. MapInv /\ [Next]_vars => [Stays /\ Ends]_vars
  BY <1>5
<1> QED BY <1>6, MapInvariance, PTL DEF Spec, FrozenForOneOutage

-----------------------------------------------------------------------------
(* The feed: arithmetic of the cycle. *)

LEMMA Division ==
  ASSUME NEW e \in Nat, NEW p \in Nat \ {0}
  PROVE  e % p \in 0 .. p - 1 /\ e \div p \in Nat /\ e = p * (e \div p) + (e % p)
BY SMT

LEMMA Remainder ==
  ASSUME NEW e \in Nat, NEW p \in Nat \ {0}, NEW q \in Nat, NEW r \in 0 .. p - 1, e = p * q + r
  PROVE  e % p = r
BY SMT

\* From tick to tick the cycle goes on by one or begins anew.
LEMMA CycleStep ==
  ASSUME NEW e \in Nat, NEW p \in Nat \ {0}
  PROVE  (e + 1) % p = (e % p) + 1 \/ (e + 1) % p = 0
<1> DEFINE q == e \div p
           r == e % p
<1>1. r \in 0 .. p - 1 /\ q \in Nat /\ e = p * q + r
  BY Division
<1> HIDE DEF q, r
<1>2. CASE r + 1 < p
  <2>1. e + 1 \in Nat /\ r + 1 \in 0 .. p - 1 /\ e + 1 = p * q + (r + 1)
    BY <1>1, <1>2
  <2>2. (e + 1) % p = r + 1
    BY <1>1, <2>1, Remainder
  <2> QED BY <2>2 DEF r
<1>3. CASE ~(r + 1 < p)
  <2>1. r + 1 = p
    BY <1>1, <1>3
  <2>2. p * (q + 1) = p * q + p
    BY <1>1
  <2>3. e + 1 \in Nat /\ q + 1 \in Nat /\ 0 \in 0 .. p - 1 /\ e + 1 = p * (q + 1) + 0
    BY <1>1, <2>1, <2>2
  <2> QED BY <2>3, Remainder
<1> QED BY <1>2, <1>3

-----------------------------------------------------------------------------
(* The feed: the inductive invariant. *)

\* How far a target has come: its ticks after it was sent.
Stage(t) == IF t.state = "PENDING" THEN 0
            ELSE IF t.state = "SENT" THEN 3 - t.ticksToNext ELSE 3

Entry == [robot : RobotId, state : InFlight \cup {"APPLIED", "ROBOT_OFFLINE"},
          ticksToNext : 0 .. 2, pending : ParamSets]

EntryShape(t) ==
  /\ t \in Entry
  /\ t.robot \in Known => <<t.state, t.ticksToNext>> \in {<<"PENDING", 1>>, <<"SENT", 2>>, <<"SENT", 1>>, <<"APPLIED", 0>>}
  /\ t.robot \notin Known => <<t.state, t.ticksToNext>> = <<"ROBOT_OFFLINE", 0>>

CommandShape(c) ==
  /\ c.retire \in 1 .. RETAIN_TICKS
  /\ c.targets \in Seq(Entry)
  /\ \A j \in DOMAIN c.targets :
       /\ EntryShape(c.targets[j])
       /\ c.targets[j].state \in InFlight => c.retire = RETAIN_TICKS
       /\ \A k \in DOMAIN c.targets : c.targets[k].pending = c.targets[j].pending

Types ==
  /\ elapsed \in Nat
  /\ robots \in [Known -> Motion]
  /\ issued \in 0 .. MaxCommands
  /\ DOMAIN commands \subseteq 1 .. issued
  /\ \A id \in DOMAIN commands : CommandShape(commands[id])

\* Of two commands that name robots the simulator has, the later one is never
\* ahead of the earlier one, nor is it forgotten before it.
Before(c, d) ==
  \A j \in DOMAIN c.targets, k \in DOMAIN d.targets :
    c.targets[j].robot \in Known /\ d.targets[k].robot \in Known =>
      Stage(d.targets[k]) <= Stage(c.targets[j]) /\ c.retire <= d.retire

InOrder == \A i, l \in DOMAIN commands : i <= l => Before(commands[i], commands[l])

FeedInv == Types /\ InOrder /\ LatestCommandRules

-----------------------------------------------------------------------------
(* The feed: what a tick does to a target and to a command. *)

LEMMA AdvancedCorrect ==
  ASSUME NEW t, EntryShape(t)
  PROVE  /\ EntryShape(Advanced(t))
         /\ Advanced(t).robot = t.robot /\ Advanced(t).pending = t.pending
         /\ Stage(t) \in 0 .. 3
         /\ t.robot \in Known =>
              /\ Stage(Advanced(t)) = IF Stage(t) = 3 THEN 3 ELSE Stage(t) + 1
              /\ Applies(t) <=> Stage(t) = 2
              /\ t.state = "APPLIED" <=> Stage(t) = 3
              /\ t.state \in InFlight <=> Stage(t) < 3
         /\ t.robot \notin Known => Advanced(t) = t /\ ~Applies(t)
         /\ \/ Advanced(t).state = t.state
            \/ t.state = "PENDING" /\ Advanced(t).state = "SENT"
            \/ t.state = "SENT" /\ Advanced(t).state = "APPLIED"
<1>1. t \in Entry /\ t = [robot |-> t.robot, state |-> t.state, ticksToNext |-> t.ticksToNext, pending |-> t.pending]
  BY DEF EntryShape, Entry
<1>2. CASE t.state = "PENDING" /\ t.ticksToNext = 1
  <2>0. [t EXCEPT !.state = "SENT"] = [robot |-> t.robot, state |-> "SENT", ticksToNext |-> t.ticksToNext, pending |-> t.pending]
    BY <1>1
  <2>1. Advanced(t) = [robot |-> t.robot, state |-> "SENT", ticksToNext |-> 2, pending |-> t.pending]
    <3>1. Advanced(t) = [[t EXCEPT !.state = "SENT"] EXCEPT !.ticksToNext = 2]
      BY <1>2 DEF Advanced, InFlight
    <3>2. DOMAIN [t EXCEPT !.state = "SENT"] = {"robot", "state", "ticksToNext", "pending"}
      BY <2>0
    <3> QED BY <2>0, <3>1, <3>2
  <2> QED BY <1>1, <1>2, <2>1 DEF EntryShape, Entry, Stage, Applies, InFlight
<1>3. CASE t.state = "SENT" /\ t.ticksToNext = 2
  <2>1. Advanced(t) = [robot |-> t.robot, state |-> "SENT", ticksToNext |-> 1, pending |-> t.pending]
    BY <1>1, <1>3 DEF Advanced, InFlight
  <2> QED BY <1>1, <1>3, <2>1 DEF EntryShape, Entry, Stage, Applies, InFlight
<1>4. CASE t.state = "SENT" /\ t.ticksToNext = 1
  <2>0. [t EXCEPT !.state = "APPLIED"] = [robot |-> t.robot, state |-> "APPLIED", ticksToNext |-> t.ticksToNext, pending |-> t.pending]
    BY <1>1
  <2>1. Advanced(t) = [robot |-> t.robot, state |-> "APPLIED", ticksToNext |-> 0, pending |-> t.pending]
    <3>1. Advanced(t) = [[t EXCEPT !.state = "APPLIED"] EXCEPT !.ticksToNext = 0]
      BY <1>4 DEF Advanced, InFlight
    <3>2. DOMAIN [t EXCEPT !.state = "APPLIED"] = {"robot", "state", "ticksToNext", "pending"}
      BY <2>0
    <3> QED BY <2>0, <3>1, <3>2
  <2> QED BY <1>1, <1>4, <2>1 DEF EntryShape, Entry, Stage, Applies, InFlight
<1>5. CASE t.state \notin InFlight
  <2>1. Advanced(t) = t
    BY <1>5 DEF Advanced
  <2> QED BY <1>1, <1>5, <2>1 DEF EntryShape, Entry, Stage, Applies, InFlight
<1>6. \/ t.state = "PENDING" /\ t.ticksToNext = 1
      \/ t.state = "SENT" /\ t.ticksToNext = 2
      \/ t.state = "SENT" /\ t.ticksToNext = 1
      \/ t.state \notin InFlight
  BY DEF EntryShape, InFlight
<1> QED BY <1>2, <1>3, <1>4, <1>5, <1>6

\* A command whose targets come one step further.  One that a tick may drop had
\* been settled before.
LEMMA AdvancedCommandCorrect ==
  ASSUME NEW c, CommandShape(c), NEW d, d = AdvancedCommand(c)
  PROVE  /\ DOMAIN d.targets = DOMAIN c.targets
         /\ \A j \in DOMAIN c.targets : d.targets[j] = Advanced(c.targets[j])
         /\ d.retire > 0 => CommandShape(d)
         /\ d.retire \in Int /\ c.retire \in Int /\ d.retire <= c.retire
         /\ \A j \in DOMAIN c.targets : c.targets[j].state \in InFlight => d.retire > 0
         /\ \/ d.retire = c.retire /\ \E j \in DOMAIN c.targets : d.targets[j].state \in InFlight
            \/ d.retire = c.retire - 1 /\ \A j \in DOMAIN c.targets : d.targets[j].state \notin InFlight
<1>1. /\ DOMAIN d.targets = DOMAIN c.targets
      /\ \A j \in DOMAIN c.targets : d.targets[j] = Advanced(c.targets[j])
      /\ d.targets = [j \in DOMAIN c.targets |-> Advanced(c.targets[j])]
  BY DEF AdvancedCommand
<1>2. DOMAIN c.targets = 1 .. Len(c.targets) /\ Len(c.targets) \in Nat
  BY DEF CommandShape
<1>3. \A j \in DOMAIN c.targets : EntryShape(c.targets[j]) /\ EntryShape(Advanced(c.targets[j]))
  BY AdvancedCorrect DEF CommandShape
<1>4. d.targets \in Seq(Entry)
  BY <1>1, <1>2, <1>3 DEF EntryShape
<1>5. c.retire \in 1 .. RETAIN_TICKS /\ RETAIN_TICKS \in Nat \ {0, 1}
  BY TicksAssumption DEF CommandShape
<1>6. \/ d.retire = c.retire /\ \E j \in DOMAIN c.targets : d.targets[j].state \in InFlight
      \/ d.retire = c.retire - 1 /\ \A j \in DOMAIN c.targets : d.targets[j].state \notin InFlight
  BY DEF AdvancedCommand
<1>7. \A j \in DOMAIN c.targets : c.targets[j].state \in InFlight => d.retire > 0
  BY <1>5, <1>6 DEF CommandShape
<1>8. ASSUME d.retire > 0 PROVE CommandShape(d)
  <2>1. d.retire \in 1 .. RETAIN_TICKS
    BY <1>5, <1>6, <1>8
  <2>2. ASSUME NEW j \in DOMAIN d.targets
        PROVE  /\ EntryShape(d.targets[j])
               /\ d.targets[j].state \in InFlight => d.retire = RETAIN_TICKS
               /\ \A k \in DOMAIN d.targets : d.targets[k].pending = d.targets[j].pending
    <3>1. d.targets[j].state \in InFlight => c.targets[j].state \in InFlight
      BY <1>1 DEF Advanced
    <3>2. \A k \in DOMAIN c.targets : d.targets[k].pending = c.targets[k].pending
      BY <1>1, <1>3, AdvancedCorrect
    <3>3. \A k \in DOMAIN c.targets : c.targets[k].pending = c.targets[j].pending
      BY <1>1 DEF CommandShape
    <3>4. d.targets[j].state \in InFlight => d.retire = RETAIN_TICKS
      BY <1>1, <1>6, <3>1 DEF CommandShape
    <3> QED BY <1>1, <1>3, <3>2, <3>3, <3>4
  <2> QED BY <1>4, <2>1, <2>2 DEF CommandShape
<1>9. d.retire \in Int /\ c.retire \in Int /\ d.retire <= c.retire
  BY <1>5, <1>6
<1> QED BY <1>1, <1>6, <1>7, <1>8, <1>9

-----------------------------------------------------------------------------
(* The feed: loops, what is applied one after the other. *)

\* Every set of numbers that is not empty has a first one.
LEMMA FirstOf ==
  ASSUME NEW T, T \subseteq Nat, T # {}
  PROVE  \E m \in T : \A k \in T : m <= k
<1> DEFINE R == {ss \in Nat \X Nat : ss[1] < ss[2]}
<1>1. IsWellFoundedOn(R, Nat)
  BY NatLessThanWellFounded DEF OpToRel
<1> HIDE DEF R
<1>2. PICK m \in T : \A k \in T : <<k, m>> \notin R
  BY <1>1, WFMin
<1>3. \A k \in T : ~(k < m)
  BY <1>2 DEF R
<1> QED BY <1>3

\* Induction, for a set of numbers.
LEMMA AllNumbers ==
  ASSUME NEW S, 0 \in S, \A n \in Nat : n \in S => n + 1 \in S
  PROVE  Nat \subseteq S
<1> SUFFICES ASSUME NEW x \in Nat, x \notin S PROVE FALSE
  OBVIOUS
<1> DEFINE T == {n \in Nat : n \notin S}
<1>1. PICK m \in T : \A k \in T : m <= k
  BY FirstOf
<1>2. m # 0 /\ m - 1 \in Nat
  OBVIOUS
<1>3. m - 1 \in S
  BY <1>1, <1>2
<1>4. (m - 1) + 1 = m
  BY <1>2
<1> QED BY <1>2, <1>3, <1>4

\* What the steps of a loop make of the states in S, and the states of a run.
StepsOf(n, S) == [1 .. n -> [S -> S]]

Runs(n, S, s0, next, g) ==
  g \in [0 .. n -> S] /\ g[0] = s0 /\ \A i \in 1 .. n : g[i] = next[i][g[i - 1]]

LEMMA LoopExists ==
  ASSUME NEW S, NEW s0 \in S, NEW n \in Nat, NEW next \in StepsOf(n, S)
  PROVE  \E g : Runs(n, S, s0, next, g)
<1> USE DEF StepsOf, Runs
<1> DEFINE T == {k \in Nat : k <= n => \E g : Runs(k, S, s0, next, g)}
<1>1. 0 \in T
  <2> DEFINE g == [i \in 0 .. 0 |-> s0]
  <2>1. Runs(0, S, s0, next, g)
    OBVIOUS
  <2> QED BY <2>1
<1>2. ASSUME NEW k \in Nat, k \in T PROVE k + 1 \in T
  <2> SUFFICES ASSUME k + 1 <= n PROVE \E h : Runs(k + 1, S, s0, next, h)
    OBVIOUS
  <2>1. PICK g : Runs(k, S, s0, next, g)
    BY <1>2
  <2> DEFINE h == [i \in 0 .. k + 1 |-> IF i = k + 1 THEN next[k + 1][g[k]] ELSE g[i]]
  <2>2. k \in 0 .. k /\ k + 1 \in 1 .. n /\ next[k + 1] \in [S -> S] /\ g[k] \in S
    BY <2>1
  <2>3. ASSUME NEW i \in 0 .. k + 1 PROVE h[i] \in S
    <3>1. CASE i = k + 1
      BY <2>2, <3>1
    <3>2. CASE i # k + 1
      <4>1. i \in 0 .. k
        BY <3>2
      <4> QED BY <2>1, <3>2, <4>1
    <3> QED BY <3>1, <3>2
  <2>4. ASSUME NEW i \in 1 .. k + 1 PROVE h[i] = next[i][h[i - 1]]
    <3>1. i - 1 \in 0 .. k /\ i - 1 \in 0 .. k + 1 /\ i - 1 # k + 1 /\ i \in 0 .. k + 1
      OBVIOUS
    <3>2. h[i - 1] = g[i - 1]
      BY <3>1
    <3>3. CASE i = k + 1
      BY <3>1, <3>2, <3>3
    <3>4. CASE i # k + 1
      <4>1. i \in 1 .. k /\ h[i] = g[i]
        BY <3>1, <3>4
      <4> QED BY <2>1, <3>2, <4>1
    <3> QED BY <3>3, <3>4
  <2>5. h[0] = s0
    BY <2>1
  <2>6. h \in [0 .. k + 1 -> S]
    BY <2>3
  <2> HIDE DEF h
  <2> QED BY <2>4, <2>5, <2>6
<1> HIDE DEF T
<1>3. n \in T
  BY <1>1, <1>2, AllNumbers
<1> QED BY <1>3 DEF T

Motions == [Known -> Motion]

\* The angle of a motion at the time of the tick.
Angle(m) == Rate(m) * elapsed' + m.theta0

LEMMA Rates == ASSUME NEW m \in Motion PROVE Rate(m) \in Int /\ m.theta0 \in Int
<1>1. m.speed \in Speed /\ m.radius \in Circle /\ m.theta0 \in Int
  BY DEF Motion
<1>2. Omega \in [Speed -> [Circle -> Int]]
  BY MotionAssumption
<1>3. Omega[m.speed] \in [Circle -> Int]
  BY <1>1, <1>2
<1> QED BY <1>1, <1>3 DEF Rate

\* Parameters that give a speed, or a radius of a circle.
Gives(p, field) == p[field] # None /\ (field = "radius" => p[field] > 0)

LEMMA ApplyCorrect ==
  ASSUME NEW robs \in Motions, NEW t \in Entry, t.robot \in Known, elapsed' \in Int,
         NEW out, out = applyParams(robs, t)
  PROVE  /\ out \in Motions
         /\ \A r \in Known \ {t.robot} : out[r] = robs[r]
         /\ \A field \in Fields :
              out[t.robot][field] = IF Gives(t.pending, field) THEN t.pending[field]
                                    ELSE robs[t.robot][field]
         /\ t.pending.theta = None => Angle(out[t.robot]) = Angle(robs[t.robot])
<1> DEFINE m == robs[t.robot]
           p == t.pending
           speed == Speeded(m, p)
           radius == Sized(m, p)
           theta0 == IF p.theta # None THEN p.theta
                     ELSE (Rate(m) * elapsed' + m.theta0) - Omega[speed][radius] * elapsed'
           new == [speed |-> speed, radius |-> radius, theta0 |-> theta0]
<1>1. out = [robs EXCEPT ![t.robot] = new]
  BY DEF applyParams
<1>2. m \in Motion
  BY DEF Motions
<1>3. /\ p.speed \in Speed \cup {None} /\ p.radius \in Radius \cup {None}
      /\ p.theta \in {0, None}
  <2>1. p \in ParamSets
    BY DEF Entry
  <2> QED BY <2>1, ParamsAssumption
<1> HIDE DEF m, p
<1>4. /\ speed \in Speed /\ speed = IF Gives(p, "speed") THEN p.speed ELSE m.speed
      /\ radius \in Circle /\ radius = IF Gives(p, "radius") THEN p.radius ELSE m.radius
  <2>1. m.speed \in Speed /\ m.radius \in Circle
    BY <1>2 DEF Motion
  <2>2. speed \in Speed /\ speed = IF Gives(p, "speed") THEN p.speed ELSE m.speed
    BY <1>3, <2>1 DEF Speeded, Gives
  <2>3. CASE p.radius = None
    BY <2>1, <2>2, <2>3 DEF Sized, Gives
  <2>4. CASE p.radius # None
    <3>1. p.radius \in Radius /\ p.radius \in Int
      BY <1>3, <2>4, MotionAssumption
    <3>2. Gives(p, "radius") <=> ~(p.radius <= 0)
      BY <2>4, <3>1 DEF Gives
    <3>3. CASE p.radius <= 0
      BY <2>1, <2>2, <3>2, <3>3 DEF Sized
    <3>4. CASE ~(p.radius <= 0)
      <4>1. radius = p.radius /\ p.radius > 0
        BY <2>4, <3>1, <3>4 DEF Sized
      <4> QED BY <2>2, <3>1, <3>2, <3>4, <4>1 DEF Circle
    <3> QED BY <3>3, <3>4
  <2> QED BY <2>3, <2>4
<1> HIDE DEF speed, radius
<1>5. Rate(m) * elapsed' \in Int /\ Omega[speed][radius] * elapsed' \in Int /\ m.theta0 \in Int
  <2>1. Rate(m) \in Int /\ m.theta0 \in Int
    BY <1>2, Rates
  <2>2. Omega[speed][radius] \in Int
    BY <1>4, MotionAssumption
  <2> QED BY <2>1, <2>2
<1>6. theta0 \in Int
  BY <1>3, <1>5
<1>7. p.theta = None => Omega[speed][radius] * elapsed' + theta0 = Rate(m) * elapsed' + m.theta0
  BY <1>3, <1>5
<1> HIDE DEF theta0
<1>8. /\ new \in Motion /\ new.theta0 = theta0 /\ Rate(new) = Omega[speed][radius]
      /\ new.speed = speed /\ new.radius = radius
  BY <1>4, <1>6 DEF Motion, Rate
<1> HIDE DEF new
<1>9. out \in Motions /\ out[t.robot] = new /\ \A r \in Known \ {t.robot} : out[r] = robs[r]
  BY <1>1, <1>8 DEF Motions
<1>10. \A field \in Fields : new[field] = IF Gives(p, field) THEN p[field] ELSE m[field]
  BY <1>4, <1>8 DEF Fields
<1> QED BY <1>7, <1>8, <1>9, <1>10 DEF Angle, m, p

\* The first k targets that are applied to robot r.
Reach(ts, k, r) == {j \in 1 .. k : ts[j].robot = r /\ Applies(ts[j])}

\* What the first k targets of a command make of a motion.
TargetsDo(ts, k, r, m, out) ==
  /\ Reach(ts, k, r) = {} => out = m
  /\ \A j \in Reach(ts, k, r), field \in Fields :
       out[field] = IF Gives(ts[j].pending, field) THEN ts[j].pending[field] ELSE m[field]
  /\ (\A j \in Reach(ts, k, r) : ts[j].pending.theta = None) => Angle(out) = Angle(m)

LEMMA TargetsStep ==
  ASSUME NEW robs \in Motions, elapsed' \in Int, NEW k \in Nat,
         NEW ts \in Seq(Entry), k + 1 <= Len(ts),
         \A j \in 1 .. Len(ts) : EntryShape(ts[j]),
         \A i, j \in 1 .. Len(ts) : ts[i].pending = ts[j].pending,
         NEW prev \in Motions, \A r \in Known : TargetsDo(ts, k, r, robs[r], prev[r]),
         NEW out, out = IF Applies(ts[k + 1]) THEN applyParams(prev, ts[k + 1]) ELSE prev
  PROVE  out \in Motions /\ \A r \in Known : TargetsDo(ts, k + 1, r, robs[r], out[r])
<1>1. k + 1 \in 1 .. Len(ts) /\ EntryShape(ts[k + 1]) /\ ts[k + 1] \in Entry
  BY DEF EntryShape
<1>2. \A r : Reach(ts, k + 1, r) = Reach(ts, k, r) \cup {j \in {k + 1} : ts[j].robot = r /\ Applies(ts[j])}
  BY DEF Reach
<1>3. CASE ~Applies(ts[k + 1])
  <2>1. \A r : Reach(ts, k + 1, r) = Reach(ts, k, r)
    BY <1>2, <1>3
  <2> QED BY <1>3, <2>1 DEF TargetsDo
<1>4. CASE Applies(ts[k + 1])
  <2> DEFINE t == ts[k + 1]
  <2>1. t.robot \in Known
    BY <1>1, <1>4, AdvancedCorrect
  <2>2. /\ out \in Motions
        /\ \A r \in Known \ {t.robot} : out[r] = prev[r]
        /\ \A field \in Fields :
             out[t.robot][field] = IF Gives(t.pending, field) THEN t.pending[field]
                                   ELSE prev[t.robot][field]
        /\ t.pending.theta = None => Angle(out[t.robot]) = Angle(prev[t.robot])
    BY <1>1, <1>4, <2>1, ApplyCorrect
  <2>3. ASSUME NEW r \in Known \ {t.robot} PROVE TargetsDo(ts, k + 1, r, robs[r], out[r])
    <3>1. Reach(ts, k + 1, r) = Reach(ts, k, r)
      BY <1>2
    <3> QED BY <2>2, <3>1 DEF TargetsDo
  <2>4. TargetsDo(ts, k + 1, t.robot, robs[t.robot], out[t.robot])
    <3> DEFINE r == t.robot
    <3>1. Reach(ts, k + 1, r) = Reach(ts, k, r) \cup {k + 1}
      BY <1>2, <1>4
    <3>2. \A j \in Reach(ts, k, r) : j \in 1 .. Len(ts) /\ ts[j].pending = t.pending
      BY <1>1 DEF Reach
    <3>3. TargetsDo(ts, k, r, robs[r], prev[r])
      BY <2>1
    <3>4. \A field \in Fields : \/ prev[r][field] = robs[r][field]
                                \/ prev[r][field] = t.pending[field] /\ Gives(t.pending, field)
      BY <3>2, <3>3 DEF TargetsDo
    <3>5. t.pending.theta = None => Angle(prev[r]) = Angle(robs[r])
      BY <3>2, <3>3 DEF TargetsDo
    <3>6. \A field \in Fields :
            out[r][field] = IF Gives(t.pending, field) THEN t.pending[field] ELSE robs[r][field]
      BY <2>2, <3>4
    <3>7. t.pending.theta = None => Angle(out[r]) = Angle(robs[r])
      BY <2>2, <3>5
    <3> HIDE DEF t, r
    <3> QED BY <3>1, <3>2, <3>6, <3>7 DEF TargetsDo, t, r
  <2> QED BY <2>2, <2>3, <2>4
<1> QED BY <1>3, <1>4

\* The loop over the targets of a command (AppliedTargets).
TargetsLoop(robs, ts, g) ==
  g = [j \in 0 .. Len(ts) |-> IF j = 0 THEN robs
                              ELSE IF Applies(ts[j]) THEN applyParams(g[j - 1], ts[j])
                              ELSE g[j - 1]]

LEMMA TargetsLoopExists ==
  ASSUME NEW robs \in Motions, elapsed' \in Int,
         NEW ts \in Seq(Entry), \A j \in 1 .. Len(ts) : EntryShape(ts[j])
  PROVE  \E g : TargetsLoop(robs, ts, g)
<1> DEFINE after(m, j) == IF Applies(ts[j]) THEN applyParams(m, ts[j]) ELSE m
           next == [j \in 1 .. Len(ts) |-> [m \in Motions |-> after(m, j)]]
<1>1. ASSUME NEW m \in Motions, NEW j \in 1 .. Len(ts) PROVE after(m, j) \in Motions
  <2>1. CASE Applies(ts[j])
    <3>1. ts[j] \in Entry /\ ts[j].robot \in Known
      BY <2>1, AdvancedCorrect DEF EntryShape
    <3>2. applyParams(m, ts[j]) \in Motions
      BY <3>1, ApplyCorrect
    <3> QED BY <2>1, <3>2
  <2> QED BY <2>1
<1>2. next \in StepsOf(Len(ts), Motions)
  BY <1>1 DEF StepsOf
<1>3. Len(ts) \in Nat
  OBVIOUS
<1> HIDE DEF after
<1>4. \A j \in 1 .. Len(ts), m \in Motions : next[j][m] = after(m, j)
  OBVIOUS
<1> HIDE DEF next
<1>5. PICK g : Runs(Len(ts), Motions, robs, next, g)
  BY <1>2, <1>3, LoopExists
<1>6. ASSUME NEW j \in 0 .. Len(ts), j # 0 PROVE g[j] = after(g[j - 1], j)
  <2>1. j \in 1 .. Len(ts) /\ j - 1 \in 0 .. Len(ts)
    BY <1>3, <1>6
  <2> QED BY <1>4, <1>5, <2>1 DEF Runs
<1>7. g = [j \in 0 .. Len(ts) |-> IF j = 0 THEN robs ELSE after(g[j - 1], j)]
  BY <1>5, <1>6 DEF Runs
<1> QED BY <1>7 DEF TargetsLoop, after

LEMMA TargetsEffect ==
  ASSUME NEW robs \in Motions, elapsed' \in Int,
         NEW ts \in Seq(Entry), \A j \in 1 .. Len(ts) : EntryShape(ts[j]),
         \A i, j \in 1 .. Len(ts) : ts[i].pending = ts[j].pending,
         NEW out, out = AppliedTargets(robs, ts)
  PROVE  out \in Motions /\ \A r \in Known : TargetsDo(ts, Len(ts), r, robs[r], out[r])
<1> DEFINE g == CHOOSE g : TargetsLoop(robs, ts, g)
           Good(k) == g[k] \in Motions /\ \A r \in Known : TargetsDo(ts, k, r, robs[r], g[k][r])
           T == {k \in Nat : k <= Len(ts) => Good(k)}
<1>1. out = g[Len(ts)]
  BY DEF AppliedTargets, TargetsLoop
<1>2. TargetsLoop(robs, ts, g)
  BY TargetsLoopExists
<1>3. Len(ts) \in Nat
  OBVIOUS
<1> HIDE DEF g
<1>4. g[0] = robs
  BY <1>2, <1>3 DEF TargetsLoop
<1>5. ASSUME NEW k \in Nat, k + 1 <= Len(ts)
      PROVE  g[k + 1] = IF Applies(ts[k + 1]) THEN applyParams(g[k], ts[k + 1]) ELSE g[k]
  <2>1. k + 1 \in 0 .. Len(ts) /\ k + 1 # 0 /\ (k + 1) - 1 = k
    BY <1>3, <1>5
  <2> QED BY <1>2, <2>1 DEF TargetsLoop
<1>6. 0 \in T
  <2>1. \A r : Reach(ts, 0, r) = {}
    BY DEF Reach
  <2> QED BY <1>4, <2>1 DEF TargetsDo
<1>7. ASSUME NEW k \in Nat, k \in T PROVE k + 1 \in T
  <2> SUFFICES ASSUME k + 1 <= Len(ts) PROVE Good(k + 1)
    OBVIOUS
  <2>1. k <= Len(ts)
    BY <1>3
  <2>2. Good(k)
    BY <1>7, <2>1
  <2> QED BY <1>5, <2>2, TargetsStep
<1> HIDE DEF T
<1>8. Len(ts) \in T
  BY <1>3, <1>6, <1>7, AllNumbers
<1> QED BY <1>1, <1>3, <1>8 DEF T

-----------------------------------------------------------------------------
(* The feed: what a tick applies, of all commands. *)

\* The entries of a command that are applied to robot r, and those that set
\* its speed or radius or its angle.
Due(id, r)      == {j \in At(id, r) : Applies(commands[id].targets[j])}
DueSet(id, r, field) == {j \in Due(id, r) : Gives(commands[id].targets[j].pending, field)}
DueTheta(id, r) == {j \in Due(id, r) : commands[id].targets[j].pending.theta # None}

\* What the commands up to number n make of a motion.
CommandsDo(n, r, m, out) ==
  LET upTo == {id \in DOMAIN commands : id <= n} IN
  /\ (\A id \in upTo : Due(id, r) = {}) => out = m
  /\ \A field \in Fields :
       /\ (\A id \in upTo : DueSet(id, r, field) = {}) => out[field] = m[field]
       /\ \A id \in upTo : (\A l \in upTo : l > id => DueSet(l, r, field) = {}) =>
            \A j \in DueSet(id, r, field) : out[field] = commands[id].targets[j].pending[field]
  /\ (\A id \in upTo : DueTheta(id, r) = {}) => Angle(out) = Angle(m)

LEMMA TypesOfTargets ==
  ASSUME Types, NEW id \in DOMAIN commands
  PROVE  /\ commands[id].targets \in Seq(Entry)
         /\ DOMAIN commands[id].targets = 1 .. Len(commands[id].targets)
         /\ \A j \in 1 .. Len(commands[id].targets) : EntryShape(commands[id].targets[j])
         /\ \A i, j \in 1 .. Len(commands[id].targets) :
              commands[id].targets[i].pending = commands[id].targets[j].pending
<1>1. CommandShape(commands[id])
  BY DEF Types
<1>2. commands[id].targets \in Seq(Entry)
  BY <1>1 DEF CommandShape
<1>3. DOMAIN commands[id].targets = 1 .. Len(commands[id].targets)
  BY <1>2
<1> QED BY <1>1, <1>2, <1>3 DEF CommandShape

LEMMA CommandsStep ==
  ASSUME Types, elapsed' \in Int, NEW n \in Nat,
         NEW prev \in Motions, \A r \in Known : CommandsDo(n, r, robots[r], prev[r]),
         NEW out, out = IF n + 1 \in DOMAIN commands
                        THEN AppliedTargets(prev, commands[n + 1].targets) ELSE prev
  PROVE  out \in Motions /\ \A r \in Known : CommandsDo(n + 1, r, robots[r], out[r])
<1> DEFINE upTo(k) == {id \in DOMAIN commands : id <= k}
<1>1. DOMAIN commands \subseteq Nat
  BY DEF Types
<1>2. CASE n + 1 \notin DOMAIN commands
  <2>1. upTo(n + 1) = upTo(n)
    BY <1>1, <1>2
  <2> QED BY <1>2, <2>1 DEF CommandsDo
<1>3. CASE n + 1 \in DOMAIN commands
  <2> DEFINE ts == commands[n + 1].targets
  <2>1. /\ ts \in Seq(Entry)
        /\ DOMAIN ts = 1 .. Len(ts)
        /\ \A j \in 1 .. Len(ts) : EntryShape(ts[j])
        /\ \A i, j \in 1 .. Len(ts) : ts[i].pending = ts[j].pending
    BY <1>3, TypesOfTargets
  <2>2. out = AppliedTargets(prev, ts)
    BY <1>3
  <2> HIDE DEF ts
  <2>3. out \in Motions /\ \A r \in Known : TargetsDo(ts, Len(ts), r, prev[r], out[r])
    BY <2>1, <2>2, TargetsEffect
  <2>4. upTo(n + 1) = upTo(n) \cup {n + 1} /\ \A id \in upTo(n) : id < n + 1
    BY <1>1, <1>3
  <2>5. ASSUME NEW r \in Known PROVE CommandsDo(n + 1, r, robots[r], out[r])
    <3>1. Due(n + 1, r) = Reach(ts, Len(ts), r)
      BY <2>1 DEF Due, At, Reach, ts
    <3>2. CommandsDo(n, r, robots[r], prev[r]) /\ TargetsDo(ts, Len(ts), r, prev[r], out[r])
      BY <2>3
    <3>4. DueTheta(n + 1, r) = {j \in Due(n + 1, r) : ts[j].pending.theta # None}
      BY DEF DueTheta, ts
    <3>5. Due(n + 1, r) = {} => out[r] = prev[r]
      BY <3>1, <3>2 DEF TargetsDo
    <3>8. DueTheta(n + 1, r) = {} => Angle(out[r]) = Angle(prev[r])
      BY <3>1, <3>2, <3>4 DEF TargetsDo
    <3>9. (\A id \in upTo(n + 1) : Due(id, r) = {}) => out[r] = robots[r]
      BY <2>4, <3>2, <3>5 DEF CommandsDo
    <3>11. (\A id \in upTo(n + 1) : DueTheta(id, r) = {}) => Angle(out[r]) = Angle(robots[r])
      BY <2>4, <3>2, <3>8 DEF CommandsDo
    <3>12. ASSUME NEW field \in Fields
           PROVE  /\ (\A id \in upTo(n + 1) : DueSet(id, r, field) = {}) => out[r][field] = robots[r][field]
                  /\ \A id \in upTo(n + 1) : (\A l \in upTo(n + 1) : l > id => DueSet(l, r, field) = {}) =>
                       \A j \in DueSet(id, r, field) :
                         out[r][field] = commands[id].targets[j].pending[field]
      <4>1. DueSet(n + 1, r, field) = {j \in Due(n + 1, r) : Gives(ts[j].pending, field)}
        BY DEF DueSet, ts
      <4>2. DueSet(n + 1, r, field) = {} => out[r][field] = prev[r][field]
        <5>1. CASE Due(n + 1, r) = {}
          BY <3>5, <5>1
        <5>2. CASE Due(n + 1, r) # {}
          BY <3>1, <3>2, <4>1, <5>2 DEF TargetsDo
        <5> QED BY <5>1, <5>2
      <4>3. \A j \in DueSet(n + 1, r, field) : out[r][field] = ts[j].pending[field]
        BY <3>1, <3>2, <4>1 DEF TargetsDo
      <4>4. (\A id \in upTo(n + 1) : DueSet(id, r, field) = {}) => out[r][field] = robots[r][field]
        BY <2>4, <3>2, <4>2 DEF CommandsDo
      <4>5. ASSUME NEW id \in upTo(n + 1), \A l \in upTo(n + 1) : l > id => DueSet(l, r, field) = {},
                   NEW j \in DueSet(id, r, field)
            PROVE  out[r][field] = commands[id].targets[j].pending[field]
        <5>1. CASE id = n + 1
          BY <4>3, <5>1 DEF ts
        <5>2. CASE id # n + 1
          <6>1. id \in upTo(n) /\ n + 1 > id /\ n + 1 \in upTo(n + 1)
            BY <1>1, <2>4, <5>2
          <6>2. DueSet(n + 1, r, field) = {} /\ \A l \in upTo(n) : l > id => DueSet(l, r, field) = {}
            BY <2>4, <4>5, <6>1
          <6>3. prev[r][field] = commands[id].targets[j].pending[field]
            BY <3>2, <4>5, <6>1, <6>2 DEF CommandsDo
          <6> QED BY <4>2, <6>2, <6>3
        <5> QED BY <5>1, <5>2
      <4> QED BY <4>4, <4>5
    <3> QED BY <3>9, <3>11, <3>12 DEF CommandsDo
  <2> QED BY <2>3, <2>5
<1> QED BY <1>2, <1>3

\* The loop over the commands (Applied).
CommandsLoop(g) ==
  g = [id \in 0 .. issued |-> IF id = 0 THEN robots
                              ELSE IF id \in DOMAIN commands THEN AppliedTargets(g[id - 1], commands[id].targets)
                              ELSE g[id - 1]]

LEMMA CommandsLoopExists == ASSUME Types, elapsed' \in Int PROVE \E g : CommandsLoop(g)
<1> DEFINE after(m, id) == IF id \in DOMAIN commands THEN AppliedTargets(m, commands[id].targets) ELSE m
           next == [id \in 1 .. issued |-> [m \in Motions |-> after(m, id)]]
<1>1. ASSUME NEW m \in Motions, NEW id \in 1 .. issued PROVE after(m, id) \in Motions
  <2>1. CASE id \in DOMAIN commands
    <3>1. AppliedTargets(m, commands[id].targets) \in Motions
      BY <2>1, TypesOfTargets, TargetsEffect
    <3> QED BY <2>1, <3>1
  <2> QED BY <2>1
<1>2. next \in StepsOf(issued, Motions)
  BY <1>1 DEF StepsOf
<1>3. issued \in Nat /\ robots \in Motions
  BY TicksAssumption DEF Types, Motions
<1> HIDE DEF after
<1>4. \A id \in 1 .. issued, m \in Motions : next[id][m] = after(m, id)
  OBVIOUS
<1> HIDE DEF next
<1>5. PICK g : Runs(issued, Motions, robots, next, g)
  BY <1>2, <1>3, LoopExists
<1>6. ASSUME NEW id \in 0 .. issued, id # 0 PROVE g[id] = after(g[id - 1], id)
  <2>1. id \in 1 .. issued /\ id - 1 \in 0 .. issued
    BY <1>3, <1>6
  <2> QED BY <1>4, <1>5, <2>1 DEF Runs
<1>7. g = [id \in 0 .. issued |-> IF id = 0 THEN robots ELSE after(g[id - 1], id)]
  BY <1>5, <1>6 DEF Runs
<1> QED BY <1>7 DEF CommandsLoop, after

\* Of several commands that are due in one tick the last one rules.
LEMMA AppliedCorrect ==
  ASSUME Types, elapsed' \in Int
  PROVE  Applied \in Motions /\ \A r \in Known : CommandsDo(issued, r, robots[r], Applied[r])
<1> DEFINE g == CHOOSE g : CommandsLoop(g)
           Good(n) == g[n] \in Motions /\ \A r \in Known : CommandsDo(n, r, robots[r], g[n][r])
           T == {n \in Nat : n <= issued => Good(n)}
<1>1. Applied = g[issued]
  BY DEF Applied, CommandsLoop
<1>2. CommandsLoop(g)
  BY CommandsLoopExists
<1>3. issued \in Nat /\ robots \in Motions /\ DOMAIN commands \subseteq 1 .. issued
  BY TicksAssumption DEF Types, Motions
<1> HIDE DEF g
<1>4. g[0] = robots
  BY <1>2, <1>3 DEF CommandsLoop
<1>5. ASSUME NEW n \in Nat, n + 1 <= issued
      PROVE  g[n + 1] = IF n + 1 \in DOMAIN commands
                        THEN AppliedTargets(g[n], commands[n + 1].targets) ELSE g[n]
  <2>1. n + 1 \in 0 .. issued /\ n + 1 # 0 /\ (n + 1) - 1 = n
    BY <1>3, <1>5
  <2> QED BY <1>2, <2>1 DEF CommandsLoop
<1>6. 0 \in T
  <2>1. {id \in DOMAIN commands : id <= 0} = {}
    BY <1>3
  <2> QED BY <1>3, <1>4, <2>1 DEF CommandsDo
<1>7. ASSUME NEW n \in Nat, n \in T PROVE n + 1 \in T
  <2> SUFFICES ASSUME n + 1 <= issued PROVE Good(n + 1)
    OBVIOUS
  <2>1. n <= issued
    BY <1>3
  <2>2. Good(n)
    BY <1>7, <2>1
  <2> QED BY <1>5, <2>2, CommandsStep
<1> HIDE DEF T
<1>8. issued \in T
  BY <1>3, <1>6, <1>7, AllNumbers
<1> QED BY <1>1, <1>3, <1>8 DEF T

-----------------------------------------------------------------------------
(* The feed: the steps. *)

LEMMA SetByIs ==
  \A id, r, field : SetBy(id, r, field) =
    {j \in At(id, r) : commands[id].targets[j].state = "APPLIED" /\ Gives(commands[id].targets[j].pending, field)}
BY DEF SetBy, AppliedWith, Gives

LEMMA FeedInitHolds == ASSUME FakeInit PROVE FeedInv
<1>1. DOMAIN commands = {}
  BY DEF FakeInit
<1>2. robots \in [Known -> Motion]
  BY MotionAssumption DEF FakeInit
<1>3. Types
  BY <1>1, <1>2, TicksAssumption DEF FakeInit, Types
<1> QED BY <1>1, <1>3 DEF FeedInv, InOrder, LatestCommandRules

\* A command as sendCommand makes it.
LEMMA NewCommand ==
  ASSUME NEW targets \in TargetLists, NEW params \in ParamSets,
         NEW c, c = [retire  |-> RETAIN_TICKS,
                     targets |-> [j \in DOMAIN targets |-> Target(targets[j], params)]]
  PROVE  /\ CommandShape(c) /\ c.retire = RETAIN_TICKS
         /\ DOMAIN c.targets = DOMAIN targets
         /\ \A j \in DOMAIN targets :
              /\ c.targets[j].robot = targets[j]
              /\ c.targets[j].state \in {"PENDING", "ROBOT_OFFLINE"}
              /\ targets[j] \in Known => Stage(c.targets[j]) = 0
<1>1. targets \in Seq(RobotId) /\ DOMAIN targets = 1 .. Len(targets) /\ Len(targets) \in Nat
  BY TargetsAssumption
<1>2. ASSUME NEW j \in DOMAIN targets
      PROVE  LET t == Target(targets[j], params) IN
             /\ EntryShape(t) /\ t.robot = targets[j] /\ t.pending = params
             /\ t.state \in {"PENDING", "ROBOT_OFFLINE"}
             /\ targets[j] \in Known => Stage(t) = 0
  <2>1. targets[j] \in RobotId
    BY <1>1
  <2> QED BY <2>1 DEF Target, EntryShape, Entry, Stage, InFlight
<1>3. \A j \in DOMAIN targets : c.targets[j] = Target(targets[j], params)
  OBVIOUS
<1>4. DOMAIN c.targets = DOMAIN targets /\ c.retire = RETAIN_TICKS /\ RETAIN_TICKS \in 1 .. RETAIN_TICKS
  BY TicksAssumption
<1>5. c.targets \in Seq(Entry)
  BY <1>1, <1>2 DEF EntryShape
<1>6. CommandShape(c)
  BY <1>2, <1>3, <1>4, <1>5 DEF CommandShape
<1> QED BY <1>2, <1>3, <1>4, <1>6

LEMMA SendStep ==
  ASSUME FeedInv, NEW targets \in TargetLists, NEW params \in ParamSets, sendCommand(targets, params)
  PROVE  FeedInv'
<1> DEFINE c == [retire  |-> RETAIN_TICKS,
                 targets |-> [j \in DOMAIN targets |-> Target(targets[j], params)]]
<1>1. /\ CommandShape(c) /\ c.retire = RETAIN_TICKS
      /\ DOMAIN c.targets = DOMAIN targets
      /\ \A j \in DOMAIN c.targets :
           /\ c.targets[j].robot = targets[j]
           /\ c.targets[j].state \in {"PENDING", "ROBOT_OFFLINE"}
           /\ c.targets[j].robot \in Known => Stage(c.targets[j]) = 0
  BY NewCommand
<1>2. /\ issued' = issued + 1 /\ issued < MaxCommands
      /\ DOMAIN commands' = DOMAIN commands \cup {issued'}
      /\ \A id \in DOMAIN commands' : commands'[id] = IF id = issued' THEN c ELSE commands[id]
      /\ UNCHANGED <<elapsed, robots, running>>
  BY DEF sendCommand
<1> HIDE DEF c
<1>3. /\ Types /\ InOrder /\ LatestCommandRules
      /\ issued \in Nat /\ MaxCommands \in Nat
      /\ DOMAIN commands \subseteq 1 .. issued
  BY TicksAssumption DEF FeedInv, Types
<1>4. issued' \notin DOMAIN commands /\ \A id \in DOMAIN commands : id < issued' /\ commands'[id] = commands[id]
  BY <1>2, <1>3
<1>5. commands'[issued'] = c
  BY <1>2
<1>6. Types'
  BY <1>1, <1>2, <1>3, <1>4, <1>5 DEF Types
<1>7. InOrder'
  <2> SUFFICES ASSUME NEW i \in DOMAIN commands', NEW l \in DOMAIN commands', i <= l
               PROVE  Before(commands'[i], commands'[l])
    BY DEF InOrder
  <2>1. CASE l \in DOMAIN commands
    <3>1. i \in DOMAIN commands
      BY <1>2, <1>3, <1>4, <2>1
    <3> QED BY <1>3, <1>4, <2>1, <3>1 DEF InOrder
  <2>2. CASE l = issued'
    <3>1. CommandShape(commands'[i])
      BY <1>6 DEF Types
    <3>2. \A j \in DOMAIN commands'[i].targets : Stage(commands'[i].targets[j]) \in 0 .. 3
      BY <3>1, AdvancedCorrect DEF CommandShape
    <3>3. commands'[i].retire \in Int /\ commands'[i].retire <= RETAIN_TICKS
      BY <3>1, TicksAssumption DEF CommandShape
    <3> QED BY <1>1, <1>5, <2>2, <3>2, <3>3 DEF Before
  <2> QED BY <1>2, <2>1, <2>2
<1>8. LatestCommandRules'
  <2>1. \A r, field : \A id \in DOMAIN commands : SetBy(id, r, field)' = SetBy(id, r, field)
    BY <1>4 DEF SetBy, AppliedWith, At
  <2>2. \A r, field : \A id \in DOMAIN commands' \ DOMAIN commands : SetBy(id, r, field)' = {}
    <3>1. \A id \in DOMAIN commands' \ DOMAIN commands : commands'[id] = c
      BY <1>2, <1>5
    <3> QED BY <1>1, <3>1 DEF SetBy, AppliedWith, At
  <2> SUFFICES ASSUME NEW field \in Fields, NEW r \in Known, NEW i \in DOMAIN commands',
                      NEW j \in SetBy(i, r, field)',
                      \A l \in DOMAIN commands' : l > i => SetBy(l, r, field)' = {}
               PROVE  robots'[r][field] = commands'[i].targets[j].pending[field]
    BY DEF LatestCommandRules
  <2>3. i \in DOMAIN commands /\ j \in SetBy(i, r, field)
    BY <1>2, <2>1, <2>2
  <2>4. \A l \in DOMAIN commands : l > i => SetBy(l, r, field) = {}
    BY <1>2, <2>1
  <2> QED BY <1>2, <1>3, <1>4, <2>3, <2>4 DEF LatestCommandRules
<1> QED BY <1>6, <1>7, <1>8 DEF FeedInv

\* What a tick makes of the commands.
LEMMA TickOfCommand ==
  ASSUME Types, tick, NEW id \in DOMAIN commands
  PROVE  LET c == commands[id]  d == AdvancedCommand(commands[id]) IN
         /\ id \in DOMAIN commands' <=> d.retire > 0
         /\ id \in DOMAIN commands' =>
              /\ commands'[id] = d
              /\ CommandShape(d)
         /\ CommandShape(c)
         /\ \A r : id \in DOMAIN commands' => At(id, r)' = At(id, r)
<1>1. CommandShape(commands[id])
  BY DEF Types
<1>2. /\ id \in DOMAIN commands' <=> AdvancedCommand(commands[id]).retire > 0
      /\ id \in DOMAIN commands' => commands'[id] = AdvancedCommand(commands[id])
  BY DEF tick, advanceCommands
<1>3. AdvancedCommand(commands[id]).retire > 0 => CommandShape(AdvancedCommand(commands[id]))
  BY <1>1, AdvancedCommandCorrect
<1>4. \A r : id \in DOMAIN commands' => At(id, r)' = At(id, r)
  <2> SUFFICES ASSUME id \in DOMAIN commands' PROVE \A r : At(id, r)' = At(id, r)
    OBVIOUS
  <2>1. DOMAIN commands'[id].targets = DOMAIN commands[id].targets
    BY <1>1, <1>2, AdvancedCommandCorrect
  <2>2. \A j \in DOMAIN commands[id].targets : commands'[id].targets[j].robot = commands[id].targets[j].robot
    BY <1>1, <1>2, AdvancedCommandCorrect, AdvancedCorrect DEF CommandShape
  <2> QED BY <2>1, <2>2 DEF At
<1> QED BY <1>1, <1>2, <1>3, <1>4

LEMMA TickTypes == ASSUME Types, tick PROVE Types'
<1>1. elapsed' \in Nat /\ issued' = issued /\ robots' = Applied
  BY DEF tick, advanceCommands, Types
<1>2. Applied \in Motions
  BY <1>1, AppliedCorrect
<1>3. DOMAIN commands' \subseteq DOMAIN commands
  BY DEF tick, advanceCommands
<1>4. \A id \in DOMAIN commands' : CommandShape(commands'[id])
  BY <1>3, TickOfCommand
<1> QED BY <1>1, <1>2, <1>3, <1>4 DEF Types, Motions

\* Commands keep their order: a tick takes all of them one step further, and one
\* that is settled after an earlier one is forgotten after it.
LEMMA BeforeStep ==
  ASSUME NEW a, CommandShape(a), NEW b, CommandShape(b), Before(a, b), Before(a, a),
         NEW c, c = AdvancedCommand(a), NEW d, d = AdvancedCommand(b)
  PROVE  Before(c, d)
<1> SUFFICES ASSUME NEW j \in DOMAIN c.targets, NEW k \in DOMAIN d.targets,
                    c.targets[j].robot \in Known, d.targets[k].robot \in Known
             PROVE  Stage(d.targets[k]) <= Stage(c.targets[j]) /\ c.retire <= d.retire
  BY DEF Before
<1>1. /\ DOMAIN c.targets = DOMAIN a.targets
      /\ \A i \in DOMAIN a.targets : EntryShape(a.targets[i]) /\ c.targets[i] = Advanced(a.targets[i])
      /\ c.retire \in Int /\ a.retire \in Int /\ c.retire <= a.retire
      /\ (\A i \in DOMAIN a.targets : c.targets[i].state \notin InFlight) => c.retire = a.retire - 1
  BY AdvancedCommandCorrect DEF CommandShape
<1>2. /\ DOMAIN d.targets = DOMAIN b.targets
      /\ EntryShape(b.targets[k]) /\ d.targets[k] = Advanced(b.targets[k])
      /\ d.retire \in Int /\ b.retire \in Int
      /\ \/ d.retire = b.retire
         \/ d.retire = b.retire - 1 /\ d.targets[k].state \notin InFlight
  BY AdvancedCommandCorrect DEF CommandShape
<1>3. /\ \A i \in DOMAIN a.targets : c.targets[i].robot = a.targets[i].robot
      /\ d.targets[k].robot = b.targets[k].robot
  BY <1>1, <1>2, AdvancedCorrect
<1>4. /\ \A i \in DOMAIN a.targets : a.targets[i].robot \in Known =>
           /\ Stage(a.targets[i]) \in 0 .. 3
           /\ Stage(c.targets[i]) = IF Stage(a.targets[i]) = 3 THEN 3 ELSE Stage(a.targets[i]) + 1
           /\ c.targets[i].state \in InFlight => Stage(a.targets[i]) < 2
      /\ Stage(b.targets[k]) \in 0 .. 3
      /\ Stage(d.targets[k]) = IF Stage(b.targets[k]) = 3 THEN 3 ELSE Stage(b.targets[k]) + 1
      /\ d.targets[k].state \notin InFlight => Stage(b.targets[k]) >= 2
  <2>1. ASSUME NEW t, EntryShape(t), t.robot \in Known
        PROVE  /\ Stage(t) \in 0 .. 3
               /\ Stage(Advanced(t)) = IF Stage(t) = 3 THEN 3 ELSE Stage(t) + 1
               /\ Advanced(t).state \in InFlight <=> Stage(t) < 2
    <3>1. EntryShape(Advanced(t)) /\ Advanced(t).robot \in Known
      BY <2>1, AdvancedCorrect
    <3>2. Advanced(t).state \in InFlight <=> Stage(Advanced(t)) < 3
      BY <3>1, AdvancedCorrect
    <3>3. Stage(t) \in 0 .. 3 /\ Stage(Advanced(t)) = IF Stage(t) = 3 THEN 3 ELSE Stage(t) + 1
      BY <2>1, AdvancedCorrect
    <3> QED BY <3>2, <3>3
  <2> QED BY <1>1, <1>2, <1>3, <2>1
<1>5. \A i \in DOMAIN a.targets : a.targets[i].robot \in Known => Stage(b.targets[k]) <= Stage(a.targets[i])
  BY <1>2, <1>3 DEF Before
<1>6. a.retire <= b.retire
  BY <1>1, <1>2, <1>3 DEF Before
<1>7. Stage(d.targets[k]) <= Stage(c.targets[j])
  BY <1>1, <1>3, <1>4, <1>5
<1>8. ASSUME d.retire = b.retire - 1, d.targets[k].state \notin InFlight PROVE c.retire = a.retire - 1
  <2>1. \A i \in DOMAIN a.targets : a.targets[i].robot \in Known => c.targets[i].state \notin InFlight
    BY <1>4, <1>5, <1>8
  <2>2. \A i \in DOMAIN a.targets : a.targets[i].robot \notin Known => c.targets[i].state \notin InFlight
    BY <1>1, AdvancedCorrect DEF EntryShape, InFlight
  <2> QED BY <1>1, <2>1, <2>2
<1>9. c.retire <= d.retire
  BY <1>1, <1>2, <1>6, <1>8
<1> QED BY <1>7, <1>9

LEMMA TickOrder == ASSUME Types, InOrder, tick PROVE InOrder'
<1> SUFFICES ASSUME NEW i \in DOMAIN commands', NEW l \in DOMAIN commands', i <= l
             PROVE  Before(commands'[i], commands'[l])
  BY DEF InOrder
<1>1. i \in DOMAIN commands /\ l \in DOMAIN commands
  BY DEF tick, advanceCommands
<1>2. /\ CommandShape(commands[i]) /\ commands'[i] = AdvancedCommand(commands[i])
      /\ CommandShape(commands[l]) /\ commands'[l] = AdvancedCommand(commands[l])
  BY <1>1, TickOfCommand
<1>3. i <= i
  BY <1>1 DEF Types
<1>4. Before(commands[i], commands[l]) /\ Before(commands[i], commands[i])
  BY <1>1, <1>3 DEF InOrder
<1> QED BY <1>2, <1>4, BeforeStep

\* What is due in a tick is APPLIED after it, and what is APPLIED after it was
\* due in it or APPLIED before it.
LEMMA TickSetBy ==
  ASSUME Types, tick, NEW id \in DOMAIN commands, NEW r \in Known, NEW field \in Fields
  PROVE  /\ \A j \in DueSet(id, r, field) : id \in DOMAIN commands' /\ j \in SetBy(id, r, field)'
         /\ id \in DOMAIN commands' => SetBy(id, r, field)' = SetBy(id, r, field) \cup DueSet(id, r, field)
         /\ \A j \in SetBy(id, r, field) : Stage(commands[id].targets[j]) = 3
         /\ \A j \in DueSet(id, r, field) : Stage(commands[id].targets[j]) = 2
<1> DEFINE ts == commands[id].targets
           d  == AdvancedCommand(commands[id])
<1>1. /\ CommandShape(commands[id])
      /\ id \in DOMAIN commands' <=> d.retire > 0
      /\ id \in DOMAIN commands' => commands'[id] = d /\ At(id, r)' = At(id, r)
  BY TickOfCommand
<1>2. \A j \in DOMAIN ts : /\ EntryShape(ts[j])
                           /\ d.targets[j] = Advanced(ts[j])
                           /\ ts[j].state \in InFlight => d.retire > 0
  BY <1>1, AdvancedCommandCorrect DEF CommandShape
<1> HIDE DEF d
<1>3. \A j \in At(id, r) : /\ j \in DOMAIN ts
                           /\ Advanced(ts[j]).pending = ts[j].pending
                           /\ ts[j].state = "APPLIED" <=> Stage(ts[j]) = 3
                           /\ Applies(ts[j]) <=> Stage(ts[j]) = 2
                           /\ ts[j].state \in InFlight <=> Stage(ts[j]) < 3
                           /\ Stage(ts[j]) \in 0 .. 3
                           /\ Advanced(ts[j]).state = "APPLIED" <=> ts[j].state = "APPLIED" \/ Applies(ts[j])
  <2> SUFFICES ASSUME NEW j \in At(id, r)
               PROVE  /\ j \in DOMAIN ts
                      /\ Advanced(ts[j]).pending = ts[j].pending
                      /\ ts[j].state = "APPLIED" <=> Stage(ts[j]) = 3
                      /\ Applies(ts[j]) <=> Stage(ts[j]) = 2
                      /\ ts[j].state \in InFlight <=> Stage(ts[j]) < 3
                      /\ Stage(ts[j]) \in 0 .. 3
                      /\ Advanced(ts[j]).state = "APPLIED" <=> ts[j].state = "APPLIED" \/ Applies(ts[j])
    OBVIOUS
  <2>1. j \in DOMAIN ts /\ ts[j].robot \in Known /\ EntryShape(ts[j])
    BY <1>2 DEF At
  <2>2. Advanced(ts[j]).state = "APPLIED" <=> ts[j].state = "APPLIED" \/ Applies(ts[j])
    BY DEF Applies, Advanced, InFlight
  <2> QED BY <2>1, <2>2, AdvancedCorrect
<1>4. \A j \in SetBy(id, r, field) : Stage(ts[j]) = 3
  BY <1>3, SetByIs
<1>5. \A j \in DueSet(id, r, field) : Stage(ts[j]) = 2 /\ ts[j].state \in InFlight /\ j \in DOMAIN ts
  BY <1>3 DEF DueSet, Due
<1>6. ASSUME id \in DOMAIN commands' PROVE SetBy(id, r, field)' = SetBy(id, r, field) \cup DueSet(id, r, field)
  <2>1. \A j \in At(id, r) : commands'[id].targets[j] = Advanced(ts[j])
    BY <1>1, <1>2, <1>3, <1>6
  <2>2. SetBy(id, r, field)' = {j \in At(id, r) : commands'[id].targets[j].state = "APPLIED"
                                            /\ Gives(commands'[id].targets[j].pending, field)}
    BY <1>1, <1>6 DEF SetBy, AppliedWith, Gives
  <2>3. SetBy(id, r, field) = {j \in At(id, r) : ts[j].state = "APPLIED" /\ Gives(ts[j].pending, field)}
    BY SetByIs
  <2>4. DueSet(id, r, field) = {j \in At(id, r) : Applies(ts[j]) /\ Gives(ts[j].pending, field)}
    BY DEF DueSet, Due
  <2> HIDE DEF ts
  <2> QED BY <1>3, <2>1, <2>2, <2>3, <2>4
<1>7. \A j \in DueSet(id, r, field) : id \in DOMAIN commands' /\ j \in SetBy(id, r, field)'
  BY <1>1, <1>2, <1>5, <1>6
<1> QED BY <1>4, <1>5, <1>6, <1>7

LEMMA TickRules == ASSUME FeedInv, tick PROVE LatestCommandRules'
<1> SUFFICES ASSUME NEW field \in Fields, NEW r \in Known, NEW i \in DOMAIN commands',
                    NEW j \in SetBy(i, r, field)',
                    \A l \in DOMAIN commands' : l > i => SetBy(l, r, field)' = {}
             PROVE  robots'[r][field] = commands'[i].targets[j].pending[field]
  BY DEF LatestCommandRules
<1>1. /\ Types /\ InOrder /\ LatestCommandRules
      /\ elapsed' \in Int /\ robots' = Applied
      /\ DOMAIN commands' \subseteq DOMAIN commands
      /\ DOMAIN commands \subseteq 1 .. issued /\ issued \in Nat
  BY TicksAssumption DEF FeedInv, Types, tick, advanceCommands
<1>2. i \in DOMAIN commands /\ i \in Nat /\ i <= issued
  BY <1>1
<1>3. CommandsDo(issued, r, robots[r], robots'[r])
  BY <1>1, AppliedCorrect
<1>4. {id \in DOMAIN commands : id <= issued} = DOMAIN commands
  BY <1>1
<1>5. \A l \in DOMAIN commands : l > i => DueSet(l, r, field) = {}
  BY <1>1, TickSetBy
<1>6. SetBy(i, r, field)' = SetBy(i, r, field) \cup DueSet(i, r, field)
  BY <1>1, <1>2, TickSetBy
<1>7. j \in At(i, r) /\ j \in DOMAIN commands[i].targets /\ commands[i].targets[j].robot = r
  <2>1. SetBy(i, r, field) \subseteq At(i, r) /\ DueSet(i, r, field) \subseteq At(i, r)
    BY SetByIs DEF DueSet, Due
  <2> QED BY <1>6, <2>1 DEF At
<1>8. /\ CommandShape(commands[i])
      /\ EntryShape(commands[i].targets[j])
      /\ commands'[i] = AdvancedCommand(commands[i])
      /\ commands'[i].retire > 0
  BY <1>1, <1>2, <1>7, TickOfCommand DEF CommandShape
<1>9. commands'[i].targets[j].pending = commands[i].targets[j].pending
  BY <1>7, <1>8, AdvancedCommandCorrect, AdvancedCorrect
<1>10. CASE j \in DueSet(i, r, field)
  <2>1. robots'[r][field] = commands[i].targets[j].pending[field]
    BY <1>2, <1>3, <1>4, <1>5, <1>10 DEF CommandsDo
  <2> QED BY <1>9, <2>1
<1>11. CASE j \in SetBy(i, r, field)
  <2>1. Stage(commands[i].targets[j]) = 3
    BY <1>1, <1>2, <1>11, TickSetBy
  <2>2. ASSUME NEW l \in DOMAIN commands, NEW k \in DueSet(l, r, field) PROVE FALSE
    <3>1. k \in DOMAIN commands[l].targets /\ commands[l].targets[k].robot = r
      BY DEF DueSet, Due, At
    <3>2. Stage(commands[l].targets[k]) = 2
      BY <1>1, TickSetBy
    <3>3. l <= i
      BY <1>1, <1>2, <1>5, <2>2
    <3>4. Before(commands[l], commands[i])
      BY <1>1, <1>2, <3>3 DEF InOrder
    <3>5. Stage(commands[i].targets[j]) <= Stage(commands[l].targets[k])
      BY <1>7, <3>1, <3>4 DEF Before
    <3> QED BY <2>1, <3>2, <3>5
  <2>3. robots'[r][field] = robots[r][field]
    BY <1>3, <1>4, <2>2 DEF CommandsDo
  <2>4. commands'[i].retire = commands[i].retire - 1 /\ commands[i].retire \in Int
    <3>1. i <= i
      BY <1>2
    <3>2. Before(commands[i], commands[i])
      BY <1>1, <1>2, <3>1 DEF InOrder
    <3>3. ASSUME NEW k \in DOMAIN commands[i].targets
          PROVE  Advanced(commands[i].targets[k]).state \notin InFlight
      <4>1. EntryShape(commands[i].targets[k])
        BY <1>8 DEF CommandShape
      <4>2. CASE commands[i].targets[k].robot \in Known
        <5>1. 3 <= Stage(commands[i].targets[k])
          BY <1>7, <2>1, <3>2, <4>2 DEF Before
        <5>2. commands[i].targets[k].state \notin InFlight
          BY <4>1, <4>2, <5>1, AdvancedCorrect
        <5> QED BY <5>2 DEF Advanced
      <4>3. CASE commands[i].targets[k].robot \notin Known
        BY <4>1, <4>3, AdvancedCorrect DEF EntryShape, InFlight
      <4> QED BY <4>2, <4>3
    <3> QED BY <1>8, <3>3, AdvancedCommandCorrect
  <2>5. ASSUME NEW l \in DOMAIN commands, l > i, NEW k \in SetBy(l, r, field) PROVE FALSE
    <3>1. k \in DOMAIN commands[l].targets /\ commands[l].targets[k].robot = r
      BY SetByIs DEF At
    <3>2. Before(commands[i], commands[l])
      BY <1>1, <1>2, <2>5 DEF InOrder
    <3>3. commands[i].retire <= commands[l].retire
      BY <1>7, <3>1, <3>2 DEF Before
    <3>4. /\ CommandShape(commands[l])
          /\ l \in DOMAIN commands' <=> AdvancedCommand(commands[l]).retire > 0
      BY <1>1, TickOfCommand
    <3>5. /\ AdvancedCommand(commands[l]).retire >= commands[l].retire - 1
          /\ AdvancedCommand(commands[l]).retire \in Int /\ commands[l].retire \in Int
      BY <3>4, AdvancedCommandCorrect
    <3>6. l \in DOMAIN commands'
      BY <1>8, <2>4, <3>3, <3>4, <3>5
    <3>7. k \in SetBy(l, r, field)'
      BY <1>1, <3>6, TickSetBy
    <3> QED BY <2>5, <3>6, <3>7
  <2>6. robots[r][field] = commands[i].targets[j].pending[field]
    BY <1>1, <1>2, <1>11, <2>5 DEF LatestCommandRules
  <2> QED BY <1>9, <2>3, <2>6
<1> QED BY <1>6, <1>10, <1>11

LEMMA TickStep == ASSUME FeedInv, tick PROVE FeedInv'
BY TickTypes, TickOrder, TickRules DEF FeedInv

LEMMA FeedNextStep == ASSUME FeedInv, [FakeNext]_fakeVars PROVE FeedInv'
<1>1. CASE \E targets \in TargetLists, params \in ParamSets : sendCommand(targets, params)
  BY <1>1, SendStep
<1>2. CASE tick
  BY <1>2, TickStep
<1>3. CASE stop \/ UNCHANGED fakeVars
  <2>1. UNCHANGED <<elapsed, robots, commands, issued>>
    BY <1>3 DEF stop, fakeVars
  <2>2. Types' /\ InOrder' /\ LatestCommandRules'
    BY <2>1 DEF FeedInv, Types, InOrder, LatestCommandRules, SetBy, AppliedWith, At
  <2> QED BY <2>2 DEF FeedInv
<1> QED BY <1>1, <1>2, <1>3 DEF FakeNext

LEMMA FeedInvariance == FakeSpec => []FeedInv
<1>1. FakeInit => FeedInv
  BY FeedInitHolds
<1>2. FeedInv /\ [FakeNext]_fakeVars => FeedInv'
  BY FeedNextStep
<1> QED BY <1>1, <1>2, PTL DEF FakeSpec

\* Of the commands to a robot that are listed as APPLIED the latest one to give a
\* speed, and the latest one to give a radius above zero, rules:
\* the loop applies the oldest first, and none is listed that has come further
\* than an earlier one (fakeSource.ts:162-186).
THEOREM LatestRules == FakeSpec => []LatestCommandRules
<1>1. FeedInv => LatestCommandRules
  BY DEF FeedInv
<1> QED BY <1>1, FeedInvariance, PTL

-----------------------------------------------------------------------------
(* The feed: it implements the life cycle. *)

\* The state of a target is that of an entry of its robot.
LEMMA StateOfEntry ==
  ASSUME Types, NEW id, NEW r
  PROVE  /\ StateOf(id, r) \in Lifecycle!Status
         /\ id \notin DOMAIN commands => StateOf(id, r) = "NONE"
         /\ StateOf(id, r) # "NONE" =>
              \E j \in DOMAIN commands[id].targets : commands[id].targets[j].state = StateOf(id, r)
<1>1. CASE id \in DOMAIN commands /\ At(id, r) # {}
  <2> DEFINE j == CHOOSE j \in At(id, r) : TRUE
  <2>1. j \in At(id, r) /\ StateOf(id, r) = commands[id].targets[j].state
    BY <1>1 DEF StateOf
  <2> HIDE DEF j
  <2>2. j \in DOMAIN commands[id].targets
    BY <2>1 DEF At
  <2>3. commands[id].targets[j] \in Entry
    BY <1>1, <2>2 DEF Types, CommandShape, EntryShape
  <2>4. StateOf(id, r) \in {"PENDING", "SENT", "APPLIED", "ROBOT_OFFLINE"}
    BY <2>1, <2>3 DEF Entry, InFlight
  <2> QED BY <1>1, <2>1, <2>2, <2>4 DEF Lifecycle!Status, Lifecycle!Final
<1>2. CASE ~(id \in DOMAIN commands /\ At(id, r) # {})
  BY <1>2 DEF StateOf, Lifecycle!Status
<1> QED BY <1>1, <1>2

LEMMA StatesKnown == Types => \A id, r : StateOf(id, r) \in Lifecycle!Status
BY StateOfEntry

LEMMA NextStatus == ASSUME Types' PROVE Status' \in [1 .. MaxCommands -> [RobotId -> Lifecycle!Status]]
<1>1. \A id \in 1 .. MaxCommands, r \in RobotId : StateOf(id, r)' \in Lifecycle!Status
  <2>1. (\A id, r : StateOf(id, r) \in Lifecycle!Status)'
    BY StatesKnown, PTL
  <2> QED BY <2>1 DEF Lifecycle!Status, Lifecycle!Final
<1> QED BY <1>1 DEF Status

LEMMA SendRefines ==
  ASSUME Types, NEW targets \in TargetLists, NEW params \in ParamSets, sendCommand(targets, params),
         NEW id \in 1 .. MaxCommands
  PROVE  Lifecycle!Issue(id) \/ Lifecycle!Progress(id)
<1> DEFINE c == [retire  |-> RETAIN_TICKS,
                 targets |-> [j \in DOMAIN targets |-> Target(targets[j], params)]]
<1>1. /\ issued' = issued + 1 /\ issued \in Nat
      /\ DOMAIN commands \subseteq 1 .. issued
      /\ DOMAIN commands' = DOMAIN commands \cup {issued'}
      /\ \A i \in DOMAIN commands' : commands'[i] = IF i = issued' THEN c ELSE commands[i]
  BY TicksAssumption DEF sendCommand, Types
<1>2. /\ DOMAIN c.targets = DOMAIN targets
      /\ \A j \in DOMAIN c.targets : c.targets[j].state \in {"PENDING", "ROBOT_OFFLINE"}
  BY NewCommand
<1> HIDE DEF c
<1>3. CASE id = issued'
  <2>1. id \notin DOMAIN commands /\ id \in DOMAIN commands' /\ commands'[id] = c
    BY <1>1, <1>3
  <2>2. Status[id] = Lifecycle!Untracked
    BY <2>1 DEF Status, StateOf, Lifecycle!Untracked
  <2>3. ASSUME NEW r \in RobotId PROVE StateOf(id, r)' \in {"NONE", "PENDING", "ROBOT_OFFLINE"}
    <3>1. CASE At(id, r)' = {}
      BY <3>1 DEF StateOf
    <3>2. CASE At(id, r)' # {}
      <4> DEFINE j == CHOOSE j \in At(id, r)' : TRUE
      <4>1. j \in At(id, r)' /\ StateOf(id, r)' = commands'[id].targets[j].state
        BY <2>1, <3>2 DEF StateOf
      <4> HIDE DEF j
      <4>2. j \in DOMAIN c.targets
        BY <2>1, <4>1 DEF At
      <4> QED BY <1>2, <2>1, <4>1, <4>2
    <3> QED BY <3>1, <3>2
  <2>4. \A r \in RobotId : Status'[id][r] \in {"NONE", "PENDING", "ROBOT_OFFLINE"}
    BY <2>3 DEF Status
  <2> QED BY <2>2, <2>4 DEF Lifecycle!Issue
<1>4. CASE id # issued'
  <2>1. /\ id \in DOMAIN commands' <=> id \in DOMAIN commands
        /\ id \in DOMAIN commands => commands'[id] = commands[id]
    BY <1>1, <1>4
  <2>2. \A r \in RobotId : StateOf(id, r)' = StateOf(id, r)
    <3> SUFFICES ASSUME NEW r \in RobotId PROVE StateOf(id, r)' = StateOf(id, r)
      OBVIOUS
    <3>1. CASE id \notin DOMAIN commands
      BY <2>1, <3>1 DEF StateOf
    <3>2. CASE id \in DOMAIN commands
      <4>1. At(id, r)' = At(id, r)
        BY <2>1, <3>2 DEF At
      <4>2. CASE At(id, r) = {}
        BY <4>1, <4>2 DEF StateOf
      <4>3. CASE At(id, r) # {}
        <5> DEFINE j == CHOOSE j \in At(id, r) : TRUE
        <5>1. /\ StateOf(id, r) = commands[id].targets[j].state
              /\ StateOf(id, r)' = commands'[id].targets[j].state
          BY <2>1, <3>2, <4>1, <4>3 DEF StateOf
        <5> HIDE DEF j
        <5> QED BY <2>1, <3>2, <5>1
      <4> QED BY <4>2, <4>3
    <3> QED BY <3>1, <3>2
  <2>3. \A r \in RobotId : Status'[id][r] = Status[id][r]
    BY <2>2 DEF Status
  <2> QED BY <2>3 DEF Lifecycle!Progress
<1> QED BY <1>3, <1>4

LEMMA TickRefines ==
  ASSUME Types, Types', tick, NEW id \in 1 .. MaxCommands
  PROVE  Lifecycle!Progress(id) \/ Lifecycle!Retire(id)
<1>1. DOMAIN commands' \subseteq DOMAIN commands
  BY DEF tick, advanceCommands
<1>2. /\ \A r \in RobotId : Status[id][r] = StateOf(id, r)
      /\ \A r \in RobotId : Status'[id][r] = StateOf(id, r)'
  BY DEF Status
<1>3. CASE id \in DOMAIN commands'
  <2>1. ASSUME NEW r \in RobotId
        PROVE  \/ StateOf(id, r)' = StateOf(id, r)
               \/ <<StateOf(id, r), StateOf(id, r)'>> \in Lifecycle!Forward
    <3>1. /\ CommandShape(commands[id]) /\ commands'[id] = AdvancedCommand(commands[id])
          /\ At(id, r)' = At(id, r)
      BY <1>1, <1>3, TickOfCommand
    <3>2. CASE At(id, r) = {}
      BY <3>1, <3>2 DEF StateOf
    <3>3. CASE At(id, r) # {}
      <4> DEFINE j == CHOOSE j \in At(id, r) : TRUE
      <4>1. /\ j \in At(id, r)
            /\ StateOf(id, r) = commands[id].targets[j].state
            /\ StateOf(id, r)' = commands'[id].targets[j].state
        BY <1>1, <1>3, <3>1, <3>3 DEF StateOf
      <4> HIDE DEF j
      <4>2. j \in DOMAIN commands[id].targets
        BY <4>1 DEF At
      <4>3. /\ EntryShape(commands[id].targets[j])
            /\ commands'[id].targets[j] = Advanced(commands[id].targets[j])
        BY <3>1, <4>2, AdvancedCommandCorrect DEF CommandShape
      <4>4. \/ StateOf(id, r)' = StateOf(id, r)
            \/ StateOf(id, r) = "PENDING" /\ StateOf(id, r)' = "SENT"
            \/ StateOf(id, r) = "SENT" /\ StateOf(id, r)' = "APPLIED"
        BY <4>1, <4>3, AdvancedCorrect
      <4> QED BY <4>4 DEF Lifecycle!Forward
    <3> QED BY <3>2, <3>3
  <2> QED BY <1>2, <2>1 DEF Lifecycle!Progress
<1>4. CASE id \in DOMAIN commands /\ id \notin DOMAIN commands'
  <2>1. /\ CommandShape(commands[id])
        /\ ~(AdvancedCommand(commands[id]).retire > 0)
    BY <1>4, TickOfCommand
  <2>2. \A j \in DOMAIN commands[id].targets : commands[id].targets[j].state \notin InFlight
    BY <2>1, AdvancedCommandCorrect
  <2>3. \A r \in RobotId : StateOf(id, r) \in Lifecycle!Final \cup {"NONE"}
    BY <2>2, StateOfEntry DEF Lifecycle!Status, Lifecycle!Final, InFlight
  <2>4. Status'[id] = Lifecycle!Untracked
    BY <1>4 DEF Status, StateOf, Lifecycle!Untracked
  <2> QED BY <1>2, <2>3, <2>4 DEF Lifecycle!Retire
<1>5. CASE id \notin DOMAIN commands
  <2>1. \A r \in RobotId : StateOf(id, r)' = StateOf(id, r)
    BY <1>1, <1>5 DEF StateOf
  <2> QED BY <1>2, <2>1 DEF Lifecycle!Progress
<1> QED BY <1>3, <1>4, <1>5

LEMMA StepRefines == ASSUME FeedInv, [FakeNext]_fakeVars PROVE [Lifecycle!Next]_Status
<1>1. Types /\ Types'
  BY FeedNextStep DEF FeedInv
<1>2. Status' \in [1 .. MaxCommands -> [RobotId -> Lifecycle!Status]]
  BY <1>1, NextStatus
<1>3. CASE \E targets \in TargetLists, params \in ParamSets : sendCommand(targets, params)
  <2>1. \A id \in 1 .. MaxCommands : Lifecycle!Issue(id) \/ Lifecycle!Progress(id)
    BY <1>1, <1>3, SendRefines
  <2> QED BY <1>2, <2>1 DEF Lifecycle!Next
<1>4. CASE tick
  <2>1. \A id \in 1 .. MaxCommands : Lifecycle!Progress(id) \/ Lifecycle!Retire(id)
    BY <1>1, <1>4, TickRefines
  <2> QED BY <1>2, <2>1 DEF Lifecycle!Next
<1>5. CASE stop \/ UNCHANGED fakeVars
  <2>1. commands' = commands
    BY <1>5 DEF stop, fakeVars
  <2> QED BY <2>1 DEF Status, StateOf, At
<1> QED BY <1>3, <1>4, <1>5 DEF FakeNext

LEMMA InitRefines == ASSUME FakeInit PROVE Lifecycle!Init
<1>1. DOMAIN commands = {}
  BY DEF FakeInit
<1> QED BY <1>1 DEF Status, StateOf, Lifecycle!Init, Lifecycle!Untracked

\* Every call and every tick of the demo feed is a step of the life cycle that
\* the tracker keeps, or a stutter: it drops no command of which something is
\* in flight (fakeSource.ts:162-186, 207-222).
THEOREM FeedRefines == FakeSpec => ImplementsLifecycle
<1>1. FeedInv /\ [FakeNext]_fakeVars => [Lifecycle!Next]_Status
  BY StepRefines
<1>2. FakeInit => Lifecycle!Init
  BY InitRefines
<1> QED
  BY <1>1, <1>2, FeedInvariance, PTL DEF FakeSpec, ImplementsLifecycle, Lifecycle!Spec

-----------------------------------------------------------------------------
(* The feed: the angle from frame to frame. *)

LEMMA TickAngle ==
  ASSUME Types, tick, NEW r \in Known
  PROVE  /\ elapsed \in Nat /\ elapsed' = elapsed + 1
         /\ robots[r] \in Motion /\ robots'[r] \in Motion
         /\ ~GivenTheta(r) => Angle(robots'[r]) = Angle(robots[r])
         /\ ~Given(r) => robots'[r] = robots[r]
<1>1. elapsed \in Nat /\ elapsed' = elapsed + 1 /\ robots' = Applied /\ robots \in Motions
  BY DEF tick, advanceCommands, Types, Motions
<1>2. robots' \in Motions /\ CommandsDo(issued, r, robots[r], robots'[r])
  BY <1>1, AppliedCorrect
<1>3. ~GivenTheta(r) => \A id \in DOMAIN commands : DueTheta(id, r) = {}
  BY DEF GivenTheta, DueTheta, Due
<1>4. ~Given(r) => \A id \in DOMAIN commands : Due(id, r) = {}
  BY DEF Given, Due
<1>5. ~GivenTheta(r) => Angle(robots'[r]) = Angle(robots[r])
  BY <1>2, <1>3 DEF CommandsDo
<1>6. ~Given(r) => robots'[r] = robots[r]
  BY <1>2, <1>4 DEF CommandsDo
<1> QED BY <1>1, <1>2, <1>5, <1>6 DEF Motions

\* While a link is down the tick and its place in the cycle go on together.
LEMMA TickPhase ==
  ASSUME Types, tick, NEW r \in Known, LinkDown(r), LinkDown(r)'
  PROVE  elapsed' - (Phase(r)' - LIVE) = elapsed - (Phase(r) - LIVE)
<1> DEFINE p == LIVE + STALE + LOST
<1>1. elapsed \in Nat /\ elapsed' = elapsed + 1 /\ LIVE \in Nat \ {0} /\ p \in Nat \ {0}
  BY TicksAssumption DEF tick, Types
<1>2. r \in Cycling
  BY <1>1 DEF LinkDown, Phase
<1>3. Phase(r) = elapsed % p /\ Phase(r)' = (elapsed + 1) % p
  BY <1>1, <1>2 DEF Phase
<1> HIDE DEF p
<1>4. Phase(r) \in Nat /\ Phase(r)' \in Nat /\ Phase(r)' >= LIVE
  <2>1. Phase(r) \in 0 .. p - 1 /\ Phase(r)' \in 0 .. p - 1
    BY <1>1, <1>3, Division
  <2> QED BY <1>1, <2>1 DEF LinkDown
<1>5. Phase(r)' = Phase(r) + 1
  <2>1. (elapsed + 1) % p = (elapsed % p) + 1 \/ (elapsed + 1) % p = 0
    BY <1>1, CycleStep
  <2>2. Phase(r)' = Phase(r) + 1 \/ Phase(r)' = 0
    BY <1>3, <2>1
  <2> QED BY <1>1, <1>4, <2>2
<1> QED BY <1>1, <1>4, <1>5

LEMMA Further ==
  ASSUME NEW a \in Int, NEW b \in Int, NEW c \in Int
  PROVE  a * (b + 1) + c = (a * b + c) + a
BY SMT

\* A robot goes on along its circle from where it was, also when the rate
\* changes, and one whose link is down stays where it went down unless something
\* is applied to it (fakeSource.ts:121-145, 188-204).
THEOREM PhaseSteady == FakeSpec => PhaseIsSteady
<1> DEFINE Steady ==
      \A r \in Known :
        /\ ~LinkDown(r) /\ ~LinkDown(r)' /\ ~GivenTheta(r) =>
             Reported(r)' = Reported(r) + Rate(robots[r])
        /\ LinkDown(r) /\ LinkDown(r)' /\ ~Given(r) => Reported(r)' = Reported(r)
<1>1. ASSUME Types, tick, NEW r \in Known, ~LinkDown(r), ~LinkDown(r)', ~GivenTheta(r)
      PROVE  Reported(r)' = Reported(r) + Rate(robots[r])
  <2>1. /\ elapsed \in Nat /\ elapsed' = elapsed + 1
        /\ robots[r] \in Motion /\ Angle(robots'[r]) = Angle(robots[r])
    BY <1>1, TickAngle
  <2>2. Reported(r) = Rate(robots[r]) * elapsed + robots[r].theta0 /\ Reported(r)' = Angle(robots'[r])
    BY <1>1 DEF Reported, Angle
  <2>3. Rate(robots[r]) \in Int /\ robots[r].theta0 \in Int
    BY <2>1, Rates
  <2>4. Angle(robots[r]) = Rate(robots[r]) * (elapsed + 1) + robots[r].theta0
    BY <2>1 DEF Angle
  <2> DEFINE a == Rate(robots[r])
             c == robots[r].theta0
  <2>5. a * (elapsed + 1) + c = (a * elapsed + c) + a
    <3>1. a \in Int /\ c \in Int /\ elapsed \in Int
      BY <2>1, <2>3
    <3> HIDE DEF a, c
    <3> QED BY <3>1, Further
  <2> QED BY <2>1, <2>2, <2>4, <2>5
<1>2. ASSUME Types, tick, NEW r \in Known, LinkDown(r), LinkDown(r)', ~Given(r)
      PROVE  Reported(r)' = Reported(r)
  <2>1. robots'[r] = robots[r] /\ elapsed' - (Phase(r)' - LIVE) = elapsed - (Phase(r) - LIVE)
    BY <1>2, TickAngle, TickPhase
  <2> QED BY <1>2, <2>1 DEF Reported
<1>3. ASSUME Types, [FakeNext]_fakeVars, elapsed' # elapsed PROVE Steady
  <2>1. tick
    BY <1>3 DEF FakeNext, sendCommand, stop, fakeVars
  <2> QED BY <1>1, <1>2, <1>3, <2>1
<1>4. FeedInv /\ [FakeNext]_fakeVars => [elapsed' # elapsed => Steady]_fakeVars
  BY <1>3 DEF FeedInv
<1> HIDE DEF Steady
<1>5. FakeSpec => [][elapsed' # elapsed => Steady]_fakeVars
  BY <1>4, FeedInvariance, PTL DEF FakeSpec
<1> QED BY <1>5 DEF Steady, PhaseIsSteady
=============================================================================
