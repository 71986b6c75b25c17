------------------------------ MODULE MapLayers ------------------------------
(***************************************************************************)
(* What the layer components draw into the style of the map: the bands of  *)
(* MAP_LAYER_ORDER, the setup effect of every component, and the order of  *)
(* the layers they leave.  A band is the run of layers one component owns  *)
(* at one height; its content is the sequence of the inputs it was drawn   *)
(* from.  An input is "none", or one of a few values, or "pending" where   *)
(* the component tells an answer that has not come from one that is empty. *)
(***************************************************************************)
EXTENDS Naturals, Sequences, SequencesExt

\* From the bottom to the top.
MapLayerOrder ==
    << "landuse", "osm-parking", "radius", "start-pick", "cluster-lines",
       "caches", "cache-parking", "al-pins", "cache-rings", "cache-badges", "cluster-marks",
       "tour-line", "leader", "dropped", "stacks", "stops", "tour-parking",
       "leg-alt", "leg-via", "parking-preview", "owner-link", "user-location", "follow-target",
       "walking-graph", "test-route", "tour-hit" >>

Bands == ToSet(MapLayerOrder)

\* The components in the order App renders them, and what each is drawn from.
Components ==
    << "landuse", "osm-parking", "radius", "start-pick", "caches", "clusters", "tour", "leg-alt",
       "leg-via", "parking-preview", "owner-link", "walking-graph", "test-route",
       "user-location", "follow-target" >>

Inputs == {"landuse", "shown", "facilities", "centre", "pick", "caches", "selected", "clusters",
           "plan", "edit", "alternative", "via", "parkings", "owner", "graph", "test",
           "position", "target"}

Blank == [layers |-> <<>>, data |-> [b \in Bands |-> <<>>]]

Has(s, b) == Contains(s.layers, b)

Position(s, b) == CHOOSE i \in DOMAIN s.layers : s.layers[i] = b

\* The source is set; a layer that is missing is added, below the first of
\* the anchors there is, or on top.
Show(s, b, content, anchors) ==
    LET above == SelectSeq(anchors, LAMBDA a : Has(s, a)) IN
    [s EXCEPT !.data[b] = content,
              !.layers = IF Has(s, b) THEN @
                         ELSE IF above = <<>> THEN Append(@, b)
                         ELSE InsertAt(@, Position(s, Head(above)), b)]

Drop(s, b) == [s EXCEPT !.data[b] = <<>>, !.layers = Remove(@, b)]

ApplyLayerOrder(s) == [s EXCEPT !.layers = SelectSeq(MapLayerOrder, LAMBDA b : Has(s, b))]

----------------------------------------------------------------------------
(* The components.  w is what is asked for: [Inputs -> value].  was is what *)
(* was asked for when the effects last ran; where the code has several      *)
(* effects, only those with a changed dependency run again.                 *)

\* The layers stay when the toggle is off, and are hidden.
Landuse(s, w) == Show(s, "landuse", <<w["landuse"], w["shown"]>>, <<"radius", "caches">>)

OsmParking(s, w) == Show(s, "osm-parking", <<w["facilities"]>>, <<>>)

Radius(s, w) == Show(s, "radius", <<w["centre"]>>, <<"caches">>)

\* The pick is not drawn once there is a plan.
StartPick(s, w) ==
    Show(s, "start-pick", IF w["plan"] = "none" THEN <<w["pick"]>> ELSE <<"none">>, <<>>)

\* What the caches are drawn from: the list with the plan's caches, the
\* selection, and the ids the tour owns.
CacheContent(w) == <<w["caches"], w["selected"], w["plan"]>>

CacheShapes(s, w)  == Show(s, "caches", CacheContent(w), <<>>)
CacheBadges(s, w)  == Show(s, "cache-badges", CacheContent(w), <<>>)
AlPins(s, w)       == Show(s, "al-pins", CacheContent(w), <<>>)
ParkingPins(s, w)  == Show(s, "cache-parking", CacheContent(w), <<>>)
CacheRings(s, w)   == Show(s, "cache-rings", CacheContent(w), <<>>)

Caches(s, w) ==
    ApplyLayerOrder(CacheRings(ParkingPins(AlPins(CacheBadges(CacheShapes(s, w), w), w), w), w))

\* Both recede when there is a plan.
ClusterMarks(s, w) ==
    ApplyLayerOrder(Show(s, "cluster-marks", <<w["clusters"], w["caches"], w["plan"]>>, <<>>))
ClusterLines(s, w) ==
    ApplyLayerOrder(Show(s, "cluster-lines", <<w["clusters"], w["caches"], w["plan"]>>, <<>>))

TourLine(s, w)    == Show(s, "tour-line", <<w["plan"], w["edit"]>>, <<>>)
TourParking(s, w) == Show(s, "tour-parking", <<w["plan"]>>, <<>>)

\* The first effect empties the leader's source; the later one, whose
\* dependencies do not hold the edits, fills it.
LeaderEmptied(s, w) == Show(s, "leader", <<"none">>, <<>>)
Leader(s, w)        == Show(s, "leader", <<w["plan"]>>, <<>>)

\* The first effect only makes sure that these are there.
Seeded(s, b) == IF Has(s, b) THEN s ELSE Show(s, b, <<"none">>, <<>>)

\* The zoom effect groups and draws them.
Stops(s, w)   == Show(s, "stops", <<w["plan"]>>, <<>>)
Stacks(s, w)  == Show(s, "stacks", <<w["plan"]>>, <<>>)
Dropped(s, w) == Show(s, "dropped", <<w["plan"]>>, <<>>)

\* Only a tour that is edited can be clicked.
TourHit(s, w) ==
    IF w["plan"] # "none" /\ w["edit"] # "none" THEN Show(s, "tour-hit", <<w["plan"]>>, <<>>)
    ELSE IF Has(s, "tour-hit") THEN Drop(s, "tour-hit") ELSE s

Tour(s, w, anew) ==
    LET drawn == ApplyLayerOrder(
                   TourHit(FoldLeft(Seeded, LeaderEmptied(TourParking(TourLine(s, w), w), w),
                                    <<"stops", "stacks", "dropped">>), w))
    IN  IF anew THEN Leader(Stacks(Stops(Dropped(drawn, w), w), w), w) ELSE drawn

LegAlternative(s, w) ==
    ApplyLayerOrder(Show(s, "leg-alt", <<w["plan"], w["alternative"]>>, <<>>))

LegVia(s, w) == ApplyLayerOrder(Show(s, "leg-via", <<w["via"]>>, <<>>))

\* Not asked, or asked and not answered: no data.
Data(v) == IF v = "pending" THEN "none" ELSE v

\* Drawn below the tour when the data changes; taken away when nothing is
\* asked for.
ParkingPreview(s, w, anew) ==
    LET drawn == IF anew THEN Show(s, "parking-preview", <<Data(w["parkings"])>>, <<"tour-line">>)
                 ELSE s
    IN  IF w["parkings"] = "none" /\ Has(drawn, "parking-preview")
        THEN Drop(drawn, "parking-preview") ELSE drawn

OwnerLink(s, w) == Show(s, "owner-link", <<w["owner"], w["caches"]>>, <<>>)

WalkingGraph(s, w) ==
    IF w["graph"] = "none"
    THEN IF Has(s, "walking-graph") THEN Drop(s, "walking-graph") ELSE s
    ELSE IF w["graph"] = "pending" THEN s
    ELSE Show(s, "walking-graph", <<w["graph"]>>, <<>>)

TestRoute(s, w) ==
    IF w["test"] = "none" THEN IF Has(s, "test-route") THEN Drop(s, "test-route") ELSE s
    ELSE Show(s, "test-route", <<w["test"]>>, <<>>)

UserLocation(s, w) == ApplyLayerOrder(Show(s, "user-location", <<w["position"]>>, <<>>))

\* Mutant: the component that comes last does not put the layers in order.
FollowTargetOnTop(s, w) == Show(s, "follow-target", <<w["target"]>>, <<>>)

FollowTarget(s, w) == ApplyLayerOrder(Show(s, "follow-target", <<w["target"]>>, <<>>))

----------------------------------------------------------------------------
(* A commit *)

DependsOn(c) ==
    CASE c = "landuse"         -> {"landuse", "shown"}
      [] c = "osm-parking"     -> {"facilities"}
      [] c = "radius"          -> {"centre"}
      [] c = "start-pick"      -> {"pick", "plan"}
      [] c = "caches"          -> {"caches", "selected", "plan"}
      [] c = "clusters"        -> {"clusters", "caches", "plan"}
      [] c = "tour"            -> {"plan", "edit", "caches"}
      [] c = "leg-alt"         -> {"plan", "alternative"}
      [] c = "leg-via"         -> {"via"}
      [] c = "parking-preview" -> {"parkings"}
      [] c = "owner-link"      -> {"owner", "caches"}
      [] c = "walking-graph"   -> {"graph"}
      [] c = "test-route"      -> {"test"}
      [] c = "user-location"   -> {"position"}
      [] c = "follow-target"   -> {"target"}

Changed(inputs, w, was) == \E i \in inputs : w[i] # was[i]

\* The effects of component c.  anew: the map or its readiness has changed.
Effects(s, c, w, was, anew) ==
    CASE c = "landuse"         -> Landuse(s, w)
      [] c = "osm-parking"     -> OsmParking(s, w)
      [] c = "radius"          -> Radius(s, w)
      [] c = "start-pick"      -> StartPick(s, w)
      [] c = "caches"          -> Caches(s, w)
      [] c = "clusters"        -> ClusterLines(ClusterMarks(s, w), w)
      [] c = "tour"            -> Tour(s, w, anew \/ Changed({"plan", "caches"}, w, was))
      [] c = "leg-alt"         -> LegAlternative(s, w)
      [] c = "leg-via"         -> LegVia(s, w)
      [] c = "parking-preview" -> ParkingPreview(s, w, anew \/ Data(w["parkings"]) # Data(was["parkings"]))
      [] c = "owner-link"      -> OwnerLink(s, w)
      [] c = "walking-graph"   -> WalkingGraph(s, w)
      [] c = "test-route"      -> TestRoute(s, w)
      [] c = "user-location"   -> UserLocation(s, w)
      [] c = "follow-target"   -> FollowTarget(s, w)

Running(w, was, anew) ==
    SelectSeq(Components, LAMBDA c : anew \/ Changed(DependsOn(c), w, was))

Committed(s, w, was, anew) ==
    FoldLeft(LAMBDA t, c : Effects(t, c, w, was, anew), s, Running(w, was, anew))

----------------------------------------------------------------------------
(* What should be seen: the content of every band, but of the graph that    *)
(* waits for its data.                                                      *)

Asked(w) ==
    [b \in Bands |->
        CASE b = "landuse"         -> <<w["landuse"], w["shown"]>>
          [] b = "osm-parking"     -> <<w["facilities"]>>
          [] b = "radius"          -> <<w["centre"]>>
          [] b = "start-pick"      -> <<IF w["plan"] = "none" THEN w["pick"] ELSE "none">>
          [] b \in {"caches", "cache-parking", "al-pins", "cache-rings", "cache-badges"}
                                   -> <<w["caches"], w["selected"], w["plan"]>>
          [] b \in {"cluster-lines", "cluster-marks"}
                                   -> <<w["clusters"], w["caches"], w["plan"]>>
          [] b = "tour-line"       -> <<w["plan"], w["edit"]>>
          [] b \in {"leader", "stops", "stacks", "dropped", "tour-parking"} -> <<w["plan"]>>
          [] b = "leg-alt"         -> <<w["plan"], w["alternative"]>>
          [] b = "leg-via"         -> <<w["via"]>>
          [] b = "parking-preview" -> <<w["parkings"]>>
          [] b = "owner-link"      -> <<w["owner"], w["caches"]>>
          [] b = "walking-graph"   -> <<w["graph"]>>
          [] b = "test-route"      -> <<w["test"]>>
          [] b = "user-location"   -> <<w["position"]>>
          [] b = "follow-target"   -> <<w["target"]>>
          [] b = "tour-hit"        -> <<IF w["edit"] = "none" THEN "none" ELSE w["plan"]>>]

\* No layer, an empty source or hidden layers: nothing is seen.
Seen(content) == IF content = <<>> THEN "none" ELSE Head(content)

\* Every band shows what is asked for, but that those of `empty' may be empty.
ShowsWhatIsAsked(s, w, empty) ==
    \A b \in Bands :
      LET want == Asked(w)[b] IN
      \/ want = <<"pending">>
      \/ s.data[b] = want /\ Has(s, b)
      \/ (want = <<"none">> \/ b \in empty) /\ Seen(s.data[b]) = "none"

\* The bands that are there from the first effects on, and the one only the
\* tour adds.  The other three come and go, and nobody puts them in order.
Ordered == Bands \ {"parking-preview", "walking-graph", "test-route"}

InOrder(s) ==
    SelectSeq(s.layers, LAMBDA b : b \in Ordered)
        = SelectSeq(MapLayerOrder, LAMBDA b : b \in Ordered /\ Has(s, b))

=============================================================================
