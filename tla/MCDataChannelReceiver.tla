------------------------ MODULE MCDataChannelReceiver ------------------------
(* Messages for TLC: text, bytes that are no text, and JSON values.        *)
EXTENDS DataChannelReceiver, JsonConversion

Text == <<"none", "">>
Json(j) == [binary |-> FALSE, utf8 |-> TRUE, json |-> j]

Binary == [binary |-> TRUE, utf8 |-> FALSE, json |-> Text]
SomeJson ==
    { <<"object", [k \in {"a", "b"} |->
                     IF k = "a" THEN <<"bool", "true">>
                     ELSE <<"array", <<Null, <<"int", "1">>, <<"real", "1">>>>>>]>>,
      <<"object", [k \in {"a"} |-> <<"uint", "huge">>]>>,
      <<"array", <<<<"int", "1">>, <<"string", "s">>>>>>,
      <<"int", "1">>, Text }

SomeMessages ==
    [ t \in HandlerTypes |->
        CASE t = "json" -> {Json(j) : j \in SomeJson}
          [] t = "string" -> {Json(Text), Binary}
          [] OTHER -> {Binary} ]
=============================================================================
