-------------------------- MODULE MCMqttSubscriber --------------------------
EXTENDS MqttSubscriber

Sub(f, t, k, p) == [filter |-> f, template |-> t, kind |-> k, payload |-> p]

\* Overlapping filters, a "#" that may stand for nothing, a template that asks
\* for more than its filter captures.
MCSubs == <<Sub(<<"z2m", "+", "state">>, {1}, "static", "json"),
            Sub(<<"z2m", "#">>, {0}, "field", "json"),
            Sub(<<"+", "raw">>, {1, 2}, "static", "csv")>>

MCTopics == {<<"z2m", "lamp", "state">>, <<"z2m">>, <<"z2m", "raw">>, <<"esp", "raw">>}
=============================================================================
