----------------------------- MODULE MC_Renderers -----------------------------
(* One of the two renderers of a session, or of the programs that share its filters, *)
(* for TLC: loudspeakers, or fixed binaural filters.                                 *)
EXTENDS SpeakerRenderer, BinauralFilters

CONSTANTS bed, object, home, near
VARIABLE renderer

RenderersInit ==
  /\ renderer \in {"speakers", "filters"}
  /\ Init /\ FilterInit
  /\ renderer # "speakers" => stereo /\ ~linked
  /\ renderer # "filters" =>
       driver = "session" /\ ~withLfe /\ chunk = 1 /\ lfeDelay = NewDelay(0)

\* Bound: after a reset of the speakers a stream has one block.
OneBlockAfterReset == epoch > 0 /\ fed # <<>> => call' = None

RenderersNext ==
  /\ UNCHANGED renderer
  /\ OneBlockAfterReset
  /\ \/ renderer = "speakers" /\ Next /\ UNCHANGED filterVars
     \/ renderer = "filters" /\ FilterNext /\ UNCHANGED vars

RenderersSpec == RenderersInit /\ [][RenderersNext]_<<renderer, vars, filterVars>>

\* Both renderers keep their variables in their types; a filter never reads past its queue.
RenderersTypeOK == TypeOK /\ FilterTypeOK

MCSetups == {<<FALSE, TRUE>>, <<TRUE, FALSE>>}
MCObjects == {bed, object}
MCCoordinates == <<[family |-> "base", object |-> bed], [family |-> "dynamic", object |-> object]>>
MCPlaces == {home, near}
MCLevel == [p \in MCPlaces |-> IF p = home THEN 16 ELSE 40]

\* Three partitions against less than one; a delay as long as a partition.
MCTaps == <<5, 1>>
MCBlocks == {1, 3}
MCDelays == {0, 2}

\* Sources that overlap, one inside the other, and a scene without a sample.
Span(from, n) == [start |-> from, length |-> n]
MCScenes == {<<Span(0, 3), Span(2, 3)>>, <<Span(1, 3), Span(0, 1)>>, <<Span(0, 0), Span(0, 0)>>}
=============================================================================
