--------------------------- MODULE MCAnalyticsReads ---------------------------
(* Instances of AnalyticsReads for TLC. *)
EXTENDS AnalyticsReads

Event(id, name, type, at, language) ==
  [id |-> id, name |-> name, type |-> type, at |-> at, language |-> language]

(* Two hours of two ticks make a day. Repository 1 gets stars on two days; *)
(* repository 2 takes its name over and gets one that is still in the hour *)
(* at the border of a window of two ticks, but not in the window.          *)
SomeKinds == {Event(1, "a", "WatchEvent", 1, ""), Event(1, "a", "WatchEvent", 6, "go"),
              Event(2, "a", "PushEvent", 3, "go"), Event(2, "b", "WatchEvent", 4, "go")}
=============================================================================
