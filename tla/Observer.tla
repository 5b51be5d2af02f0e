------------------------------- MODULE Observer -------------------------------
(***************************************************************************)
(* An observer's screen, the API it reads from, and the projection behind  *)
(* it. The screen restores itself from a snapshot and a page of the feed,  *)
(* then follows a stream; each event makes it fetch the snapshot again.    *)
(* Fetches are answered in any order. The API reads the projection in      *)
(* statements of which each sees what is committed when it runs.           *)
(*                                                                         *)
(* The rows of the feed never change (FeedIsWhole), so that a position     *)
(* stands for its event here.                                              *)
(***************************************************************************)
EXTENDS Projection, SequencesExt

CONSTANTS
  FeedLimit,    (* FEED_LIMIT: events shown                                *)
  PageLimit,    (* MAX_EVENT_PAGE                                          *)
  Requests,     (* bound: snapshot fetches under way at once               *)
  MaxVisits     (* bound: times the page is opened                         *)

ASSUME ScreenAssumption == FeedLimit \in Nat \ {0} /\ PageLimit \in Nat \ {0}

VARIABLES
  request,      (* fetchSnapshot and the handler that answers it           *)
  screen,       (* WorldView: its phase, cursor, feed and snapshot         *)
  stream,       (* EventSource and the handler of /v1/stream               *)
  visits

screenVars == <<request, screen, stream, visits>>
projection == <<journal, tables, builder, faults, rebuilds>>
allVars == <<projection, screenVars>>

(* The snapshot: null, or the position and the agents that were read. What *)
(* a request was made after is history: the last event delivered then.     *)
Unasked == [step |-> "free", purpose |-> "none", after |-> 0, position |-> None, cards |-> <<>>]

(* History: the event the map was asked for after; whether a page ended    *)
(* before the cursor; whether the stream said reset; whether rows were read*)
(* from a torn feed, or by a stream that was opened again after a reset.   *)
Blank == [phase |-> "closed", cursor |-> 0, shown |-> <<>>, map |-> None, loaded |-> None,
          mapAfter |-> 0, short |-> FALSE, restarted |-> FALSE, strayed |-> FALSE]
Off == [state |-> "off", last |-> 0, page |-> {}]

ObserverInit ==
  /\ Init
  /\ request = [r \in Requests |-> Unasked]
  /\ screen = Blank /\ stream = Off /\ visits = 0

-----------------------------------------------------------------------------
(* The API.                                                                *)

(* The first so many of these positions.                                   *)
FirstOf(positions, limit) ==
  {p \in positions : Cardinality({q \in positions : q <= p}) <= limit}

(* Not the code: the position is counted from 0 and those of rows from 1.  *)
RowsAfterNext(after, limit) == FirstOf({p \in DOMAIN feed : p > after + 1}, limit)

(* The first feed rows after a position; loadObserverEvents asks for the   *)
(* first row there is (Behind) in a second query, here in the same step.   *)
RowsAfter(after, limit) == FirstOf({p \in DOMAIN feed : p > after}, limit)

(* Not the code: a viewer who has seen nothing yet is behind as well.      *)
BehindFromTheStart(last) ==
  DOMAIN feed = {} \/ \A p \in DOMAIN feed : last + 1 < p

(* Where the viewer stopped is not there any more.                         *)
Behind(last) ==
  last > 0 /\ (DOMAIN feed = {} \/ \A p \in DOMAIN feed : last + 1 < p)

(* order by projection_sequence.                                           *)
InOrder(positions) ==
  [i \in 1 .. Cardinality(positions) |->
     CHOOSE p \in positions : Cardinality({q \in positions : q <= p}) = i]

Ask(r, purpose, after) ==
  /\ request[r].step = "free"
  /\ request' = [request EXCEPT ![r] =
       [Unasked EXCEPT !.step = "asked", !.purpose = purpose, !.after = after]]

(* Not the code: the browser answers from its cache.                       *)
ReadSnapshotCached(r) ==
  /\ request[r].step = "asked"
  /\ request' = [request EXCEPT ![r].step = "answered",
       ![r].position = IF screen.map = None THEN position ELSE screen.map.position,
       ![r].cards = IF screen.map = None THEN agents ELSE screen.map.cards]

(* Not the code: the agents first, the position in the second statement.   *)
ReadAgentsFirst(r) ==
  \/ /\ request[r].step = "asked"
     /\ request' = [request EXCEPT ![r].step = IF position = None THEN "answered" ELSE "half",
                                   ![r].cards = agents]
  \/ /\ request[r].step = "half"
     /\ request' = [request EXCEPT ![r].step = "answered", ![r].position = position]

(* loadObserverSnapshot: in one transaction, in which each statement has a *)
(* snapshot of its own (read committed).                                   *)
ReadSnapshot(r) ==
  \/ /\ request[r].step = "asked"
     /\ request' = [request EXCEPT ![r].step = IF position = None THEN "answered" ELSE "half",
                                   ![r].position = position]
  \/ /\ request[r].step = "half"
     /\ request' = [request EXCEPT ![r].step = "answered", ![r].cards = agents]

Answer(r) == IF request[r].position = None THEN None
             ELSE [position |-> request[r].position, cards |-> request[r].cards]

-----------------------------------------------------------------------------
(* The screen.                                                             *)

(* The page is opened, or reloaded; what was under way is forgotten.       *)
OpenPage ==
  /\ visits < MaxVisits /\ visits' = visits + 1
  /\ \E r \in Requests :
       request' = [q \in Requests |->
         IF q = r THEN [Unasked EXCEPT !.step = "asked", !.purpose = "restore"] ELSE Unasked]
  /\ screen' = [Blank EXCEPT !.phase = "restoring"]
  /\ stream' = Off

(* setSnapshot, and the effect that runs when there is a snapshot where    *)
(* there was none, or none where there was one.                            *)
StreamFor(map) ==
  IF map = None THEN Off
  ELSE IF screen.map = None THEN [Off EXCEPT !.state = "connecting", !.last = screen.cursor]
  ELSE stream

(* restore: no snapshot, no screen, and nobody asks again.                 *)
Restored(r) ==
  /\ request[r].step = "answered" /\ request[r].purpose = "restore"
  /\ \/ /\ Answer(r) = None
        /\ screen' = [screen EXCEPT !.phase = "failed", !.map = None]
        /\ stream' = StreamFor(None)
     \/ /\ Answer(r) # None
        /\ screen' = [screen EXCEPT !.phase = "paging", !.loaded = Answer(r),
                                    !.cursor = Answer(r).position.sequence]
        /\ UNCHANGED stream
  /\ request' = [request EXCEPT ![r] = Unasked]
  /\ UNCHANGED visits

(* The second half of restore. After a reset there was a snapshot before:  *)
(* nothing opens the stream again.                                         *)
Paged ==
  /\ screen.phase = "paging"
  /\ LET from == IF screen.cursor > FeedLimit THEN screen.cursor - FeedLimit ELSE 0
         rows == RowsAfter(from, FeedLimit)
     IN screen' = [screen EXCEPT !.phase = "shown", !.map = screen.loaded, !.loaded = None,
                                 !.mapAfter = 0, !.shown = InOrder(rows),
                                 !.short = \A p \in rows \cup {0} : p < screen.cursor,
                                 !.strayed = @ \/ torn]
  /\ stream' = StreamFor(screen.loaded)
  /\ UNCHANGED <<request, visits>>

(* A fetch that fails: restore shows an error, a refresh is dropped.       *)
Lost(r) ==
  /\ request[r].step # "free"
  /\ screen' = IF request[r].purpose = "restore" THEN [screen EXCEPT !.phase = "failed"] ELSE screen
  /\ request' = [request EXCEPT ![r] = Unasked]
  /\ UNCHANGED <<stream, visits>>

PageLost ==
  /\ screen.phase = "paging"
  /\ screen' = [screen EXCEPT !.phase = "failed", !.loaded = None]
  /\ UNCHANGED <<request, stream, visits>>

(* A refresh that is answered replaces the snapshot, whichever it was.     *)
Refreshed(r) ==
  /\ request[r].step = "answered" /\ request[r].purpose = "refresh"
  /\ screen' = [screen EXCEPT !.map = Answer(r), !.mapAfter = request[r].after]
  /\ stream' = StreamFor(Answer(r))
  /\ request' = [request EXCEPT ![r] = Unasked]
  /\ UNCHANGED visits

(* Not the code: the browser says what it was sent, not what it received.  *)
LastSent == Max(stream.page \cup {stream.last})
(* Last-Event-ID, or the cursor with which the stream was opened.          *)
LastReceived == stream.last

(* The next rows for a viewer who has those up to the last; history: where *)
(* they come from.                                                         *)
Bring ==
  /\ stream' = [stream EXCEPT !.state = "open", !.page = RowsAfter(stream.last, PageLimit)]
  /\ screen' = [screen EXCEPT !.strayed = @ \/ torn \/ screen.restarted]
  /\ UNCHANGED request

(* /v1/stream answers with a reset, which ends it, or with the first rows. *)
Connect ==
  /\ stream.state = "connecting"
  /\ \/ /\ Behind(stream.last)
        /\ \E r \in Requests : Ask(r, "restore", 0)
        /\ stream' = Off
        /\ screen' = [screen EXCEPT !.phase = "restoring", !.restarted = TRUE]
     \/ ~Behind(stream.last) /\ Bring
  /\ UNCHANGED visits

Poll ==
  /\ stream.state = "open" /\ stream.page = {}
  /\ RowsAfter(stream.last, PageLimit) # {}
  /\ Bring /\ UNCHANGED visits

Appended(shown, p) ==
  IF Contains(shown, p) THEN shown
  ELSE LET all == Append(shown, p)
       IN SubSeq(all, IF Len(all) > FeedLimit THEN Len(all) - FeedLimit + 1 ELSE 1, Len(all))

Deliver ==
  /\ stream.state = "open"
  /\ \E p \in stream.page :
       /\ \A q \in stream.page : p <= q
       /\ stream' = [stream EXCEPT !.last = p, !.page = @ \ {p}]
       /\ screen' = [screen EXCEPT !.cursor = IF @ > p THEN @ ELSE p,
                                   !.shown = Appended(@, p)]
       /\ \E r \in Requests : Ask(r, "refresh", p)
  /\ UNCHANGED visits

(* The connection breaks; the browser opens it again.                      *)
Break ==
  /\ stream.state = "open"
  /\ stream' = [state |-> "connecting", last |-> LastReceived, page |-> {}]
  /\ UNCHANGED <<request, screen, visits>>

Fetch(r) ==
  \/ ReadSnapshot(r) /\ UNCHANGED <<screen, stream, visits>>
  \/ Restored(r) \/ Refreshed(r)
Follow == Paged \/ Connect \/ Poll \/ Deliver

Trouble ==
  /\ faults < MaxFaults /\ faults' = faults + 1
  /\ Break \/ PageLost \/ \E r \in Requests : Lost(r)
  /\ UNCHANGED <<journal, tables, builder, rebuilds>>

ObserverNext ==
  \/ Next /\ UNCHANGED screenVars
  \/ (OpenPage \/ Follow \/ \E r \in Requests : Fetch(r)) /\ UNCHANGED projection
  \/ Trouble

ObserverSpec == ObserverInit /\ [][ObserverNext]_allVars

(* Requests are answered and what is answered is shown; the handler polls  *)
(* and the browser reconnects.                                             *)
ObserverFairSpec ==
  /\ ObserverSpec
  /\ \A b \in Builders : WF_allVars(Work(b) /\ UNCHANGED screenVars)
  /\ \A r \in Requests : WF_allVars(Fetch(r) /\ UNCHANGED projection)
  /\ WF_allVars(Follow /\ UNCHANGED projection)

-----------------------------------------------------------------------------
Snapshots == {Answer(r) : r \in {q \in Requests : request[q].step = "answered"}} \ {None}

(* The feed on the screen has no gap and shows nothing twice, over broken  *)
(* connections, an overlap of the page with the stream, the edge of what is*)
(* shown, and rebuilds - unless one erased rows between the snapshot and   *)
(* the page, was torn by a builder beside it, or made the screen start over*)
(* while its stream was opened anew (restore and the effect do not wait for*)
(* each other).                                                            *)
FeedUnbroken ==
  ~screen.short /\ ~screen.strayed =>
    \A i \in 1 .. Len(screen.shown) - 1 : screen.shown[i + 1] = screen.shown[i] + 1

(* The stream resumes at the position of the snapshot, so the snapshot may *)
(* not lack an event up to there: it would never be brought.               *)
SnapshotMissesNothing ==
  rebuilds = 0 => \A s \in Snapshots : IsPrefix([i \in 1 .. s.position.event |-> i], s.cards)

(* Answers come in any order and an older one may replace a newer, but the *)
(* map always tells the event it was fetched for: whoever was brought an   *)
(* event by the stream finds it in every snapshot he asks for from then on.*)
MapTellsItsEvent ==
  rebuilds = 0 =>
    /\ \A r \in Requests : request[r].step = "answered" /\ Answer(r) # None =>
         request[r].after <= request[r].position.sequence
    /\ screen.map # None => screen.mapAfter <= screen.map.position.sequence

(* A map is on the screen.                                                 *)
Watching == screen.phase = "shown" /\ screen.map # None

(* Whoever watches has a stream that is open or about to be, as long as he *)
(* was not told to start over; and he is told so only if rows were erased. *)
SilentOnlyAfterReset ==
  /\ Watching /\ ~screen.restarted => stream.state # "off"
  /\ screen.restarted => rebuilds > 0

(* Whoever looks sees what has happened, in the end, until he is told to   *)
(* start over; rebuilds he is not told of included.                        *)
ViewerFollows ==
  \A n \in Events :
    journal >= n ~> \/ NobodyBuilds \/ Stranded \/ ~Watching \/ screen.restarted
                    \/ screen.cursor >= n
=============================================================================
