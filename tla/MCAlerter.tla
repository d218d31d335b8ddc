------------------------------ MODULE MCAlerter ------------------------------
(* Two channels of one type, one that cannot fail, one that nothing sends to. *)
EXTENDS Alerter

CONSTANTS push1, push2, file, pager

MCChannelLists == {<<push1, push2>>}
MCDefaultChannels == <<file, pager>>
MCTypeOf == [ch \in {push1, push2, file, pager} |->
                 CASE ch = file -> "log" [] ch = pager -> "pager" [] OTHER -> "ntfy"]
=============================================================================
