------------------------------ MODULE Routing ------------------------------
(***************************************************************************)
(* Where an event is delivered: the action or the webhook string of a      *)
(* request (deriveActionFromRequest in internal/handlers/event_handler.go) *)
(* and the two columns a row keeps of it (deriveAndSetAction and           *)
(* populateWebhookFromAction in internal/repository/event_repository.go).  *)
(*                                                                         *)
(* A string is a sequence of tokens, one of which is the prefix "q:".      *)
(* Optional fields are sequences of at most one element.  An action's      *)
(* target is the url or the client_name among its parameters, <<>> when    *)
(* it is missing.                                                          *)
(***************************************************************************)
EXTENDS Integers, Sequences, FiniteSets

Action(type, target) == [type |-> type, target |-> target]

\* A string that begins with "q:" and does not end there names a client.
ActionOfWebhook(s) ==
    IF Len(s) > 1 /\ s[1] = "q:" THEN Action("websocket", Tail(s)) ELSE Action("webhook", s)

WebhookOfAction(a) == IF a.type = "websocket" THEN <<"q:">> \o a.target ELSE a.target

Row(a, s) == [action |-> a, webhook |-> s]

\* <<row>>, or <<>> for an error.  The action wins over the webhook; of the
\* types only these two are known.
deriveActionFromRequest(webhook, action) ==
    IF action # <<>>
    THEN IF action[1].type \in {"webhook", "websocket"} /\ action[1].target # <<>>
         THEN <<Row(action[1], WebhookOfAction(action[1]))>> ELSE <<>>
    ELSE IF webhook \notin {<<>>, <<<<>>>>}
         THEN <<Row(ActionOfWebhook(webhook[1]), webhook[1])>> ELSE <<>>

populateWebhookFromAction(row) == [row EXCEPT !.webhook = WebhookOfAction(row.action)]

\* Before every INSERT and UPDATE: the webhook wins over the action.
deriveAndSetAction(row) ==
    IF row.webhook # <<>> THEN [row EXCEPT !.action = ActionOfWebhook(row.webhook)]
    ELSE populateWebhookFromAction(row)

\* Mutant: the new action is set next to the old webhook.
ApplyActionOnly(row, req) ==
    LET new == IF req.action # <<>> THEN deriveActionFromRequest(<<>>, req.action)
               ELSE deriveActionFromRequest(req.webhook, <<>>)
    IN IF req.action = <<>> /\ req.webhook = <<>> THEN <<row>>
       ELSE IF new = <<>> THEN <<>> ELSE <<Row(new[1].action, row.webhook)>>

\* UpdateEvent: <<row>> with what the request replaces, or <<>> for an error.
Apply(row, req) ==
    IF req.action # <<>> THEN deriveActionFromRequest(<<>>, req.action)
    ELSE IF req.webhook # <<>> THEN deriveActionFromRequest(req.webhook, <<>>)
    ELSE <<row>>

\* Reference: what a request that was accepted asks for.
Asks(req) ==
    IF req.action # <<>> THEN {req.action[1]}
    ELSE {ActionOfWebhook(s) : s \in {req.webhook[i] : i \in 1..Len(req.webhook)}}
=============================================================================
