---------------------------- MODULE MCWebSocket ----------------------------
(* An instance of module WebSocket for TLC. *)
EXTENDS WebSocket, TLC

Hello(type, token, name, tags) ==
    [type |-> type, token |-> token, name |-> name, tags |-> tags]
SomeHandshakes ==
    {Hello("client-hook", "t", <<"a">>, {}), Hello("client-hook", "", <<"a">>, {}),
     Hello("client-hook", "t", <<>>, {}), Hello("tag-listener", "t", <<>>, {<<"x">>, <<"y">>})}

Ask(action, webhook) == [action |-> action, webhook |-> webhook]
ToClient == Ask(<<Action("websocket", <<"a">>)>>, <<>>)
ToUrl == Ask(<<Action("webhook", <<"u">>)>>, <<<<"q:", "a">>>>)
SomeCreates == {ToClient, Ask(<<>>, <<<<"q:", "a">>>>), Ask(<<>>, <<<<"q:">>>>), Ask(<<>>, <<<<>>>>)}
SomeUpdates ==
    {ToClient, ToUrl, Ask(<<>>, <<>>), Ask(<<Action("apicall", <<"u">>)>>, <<>>)}
=============================================================================
