------------------------ MODULE MCSuppressionWindow ------------------------
(* One tick is half a second: the window of 1.5 s is three ticks, a post to a *)
(* dead peer takes up to four.  PromptPoll stands for every interval up to    *)
(* half a second (the shipped 200 ms), WaylandPoll for the two seconds that   *)
(* async_clipboard_lifespan imposes under Wayland.                            *)
EXTENDS SuppressionWindow

CONSTANTS a, b, c

Three       == {a, b, c}
PromptPoll  == 1
WaylandPoll == 4
TTL         == 3
DeadPeer    == 4
=============================================================================
