----------------------------- MODULE Dashboard -----------------------------
(***************************************************************************)
(* autoManage, the page: the dashboard of one agent, that lists the agent  *)
(* and its events over HTTP, follows the stream of server-sent events, and *)
(* whose requests for agents and events make the server start the service  *)
(* (the stream's request does not).  A request and the stream are separate *)
(* connections: what the server answers may arrive after what it streams   *)
(* later.                                                                  *)
(***************************************************************************)
EXTENDS Ingestion

CONSTANTS ViewerCap, AlertCap

ASSUME DashboardAssumption == {ViewerCap, AlertCap} \subseteq Nat

VARIABLES
  page,        \* the page is open
  reloads,
  selected,    \* the agent's card is selected
  card,        \* the agent as shown, or None
  viewer,      \* the events shown, newest first
  alerts,      \* the alerts shown, newest first
  agentsCall,  \* the request /api/agents: "none", "sent", "answered"
  eventsCall,  \* the request /api/agents/<id>/events
  agentsBody,  \* its answer
  eventsBody,
  fromStream   \* the card was last set by the present stream connection

callVars == <<agentsCall, agentsBody, eventsCall, eventsBody>>
pageVars == <<page, reloads, selected, card, viewer, alerts, callVars, fromStream>>
allVars  == <<vars, pageVars>>

Init ==
  /\ IngestionInit
  /\ page = FALSE /\ reloads = 0 /\ selected = FALSE
  /\ card = None /\ viewer = <<>> /\ alerts = <<>>
  /\ agentsCall = "none" /\ eventsCall = "none"
  /\ agentsBody = None /\ eventsBody = <<>>
  /\ fromStream = FALSE

(* Loading the page, again too, forgets everything; the first effect asks  *)
(* for the agents.                                                         *)
OpenPage ==
  /\ phase # "down" /\ reloads < budget.pages
  /\ page' = TRUE /\ reloads' = reloads + 1
  /\ selected' = FALSE /\ card' = None /\ viewer' = <<>> /\ alerts' = <<>>
  /\ agentsCall' = "sent" /\ eventsCall' = "none"
  /\ agentsBody' = None /\ eventsBody' = <<>>
  /\ fromStream' = FALSE
  /\ listening' = FALSE /\ bus' = <<>>
  /\ UNCHANGED <<fileVars, life, phase, tailVars, rows, fresh, agent, disk, spoiled>>

(* The EventSource, when the page opens and after every break.             *)
Connect ==
  /\ page /\ phase # "down" /\ ~listening
  /\ listening' = TRUE
  /\ UNCHANGED <<fileVars, serviceVars, pageVars>>

(* Either request makes the service; one of somebody else's too.           *)
RequestStartsService == GetIngestionService /\ UNCHANGED pageVars

AnswerAgents ==
  /\ phase = "watching" /\ agentsCall = "sent"
  /\ agentsCall' = "answered" /\ agentsBody' = agent
  /\ UNCHANGED <<vars, page, reloads, selected, card, viewer, alerts,
                 eventsCall, eventsBody, fromStream>>

AnswerEvents ==
  /\ phase = "watching" /\ eventsCall = "sent"
  /\ eventsCall' = "answered" /\ eventsBody' = Reverse(rows)
  /\ UNCHANGED <<vars, page, reloads, selected, card, viewer, alerts,
                 agentsCall, agentsBody, fromStream>>

(* A request to a server that is down, or whose service cannot open its    *)
(* database, is rejected and never made again.                             *)
CallsFail ==
  /\ phase = "down" \/ (phase = "serving" /\ disk = None)
  /\ "sent" \in {agentsCall, eventsCall}
  /\ agentsCall' = IF agentsCall = "sent" THEN "none" ELSE agentsCall
  /\ eventsCall' = IF eventsCall = "sent" THEN "none" ELSE eventsCall
  /\ UNCHANGED <<vars, page, reloads, selected, card, viewer, alerts,
                 agentsBody, eventsBody, fromStream>>

(* Selecting the card runs both effects again: their earlier requests are  *)
(* cancelled.                                                              *)
Select ==
  /\ selected' = TRUE
  /\ agentsCall' = "sent" /\ agentsBody' = None
  /\ eventsCall' = "sent" /\ eventsBody' = <<>>

ClickCard ==
  /\ card # None /\ ~selected
  /\ Select
  /\ UNCHANGED <<vars, page, reloads, card, viewer, alerts, fromStream>>

HydrateAgents ==
  /\ agentsCall = "answered"
  /\ card' = agentsBody
  /\ fromStream' = FALSE
  /\ IF ~selected /\ agentsBody # None
     THEN Select
     ELSE /\ agentsCall' = "none" /\ agentsBody' = None
          /\ UNCHANGED <<selected, eventsCall, eventsBody>>
  /\ UNCHANGED <<vars, page, reloads, viewer, alerts>>

HydrateEvents ==
  /\ eventsCall = "answered"
  /\ viewer' = eventsBody
  /\ eventsCall' = "none" /\ eventsBody' = <<>>
  /\ UNCHANGED <<vars, page, reloads, selected, card, alerts, agentsCall,
                 agentsBody, fromStream>>

Newest(s, cap) == SubSeq(s, 1, IF Len(s) < cap THEN Len(s) ELSE cap)

ApplyStreamEvent ==
  /\ bus # <<>>
  /\ bus' = Tail(bus)
  /\ LET m == Head(bus)
     IN  /\ card' = IF m.type = "agent_updated" THEN m.of ELSE card
         /\ fromStream' = (fromStream \/ m.type = "agent_updated")
         /\ viewer' = IF m.type = "new_event"
                      THEN Newest(<<m.of>> \o viewer, ViewerCap) ELSE viewer
         /\ alerts' = IF m.type = "alert"
                      THEN Newest(<<m.of>> \o alerts, AlertCap) ELSE alerts
  /\ UNCHANGED <<fileVars, life, phase, tailVars, rows, fresh, agent, disk,
                 spoiled, listening, page, reloads, selected, callVars>>

(* With the process its connections end.                                   *)
ServerDies ==
  /\ CrashNext
  /\ fromStream' = FALSE
  /\ UNCHANGED <<page, reloads, selected, card, viewer, alerts, callVars>>

PageNext ==
  \/ OpenPage \/ Connect \/ CallsFail \/ ClickCard
  \/ HydrateAgents \/ HydrateEvents \/ ApplyStreamEvent

ServerNext ==
  \/ (WatcherNext \/ StartServer) /\ UNCHANGED pageVars
  \/ RequestStartsService \/ AnswerAgents \/ AnswerEvents \/ ServerDies

Next == (AgentNext /\ UNCHANGED pageVars) \/ PageNext \/ ServerNext

(* Every change of a file is reported in the end.                          *)
Fairness == \A f \in Runs : WF_dirty(Notified(f))

Spec == Init /\ [][Next]_allVars /\ Fairness

-----------------------------------------------------------------------------
(* Properties.                                                             *)

(* A card that the stream has set shows, once the stream is drained, the   *)
(* agent as the service has it: updates are applied in the order they were *)
(* published and none is lost.  Of a card set by a listing nothing of the  *)
(* kind holds: the listing may have been overtaken by the stream           *)
(* (applyStreamEvent against hydrate_agents).                              *)
CardFollowsStream ==
  phase = "watching" /\ fromStream /\ bus = <<>> /\ spoiled = {}
    => card = agent

=============================================================================
