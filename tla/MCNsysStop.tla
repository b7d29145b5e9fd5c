----------------------------- MODULE MCNsysStop -----------------------------
(* Instances of NsysStop for TLC.  One unit of time stands for 10 seconds: *)
(* nsys_report_timeout 120, slack 10, drain 300, at least 15.              *)
EXTENDS NsysStop

CONSTANTS yolo, seg, container

TwoChildren == {yolo, seg}
OneForeign == {container}
Prompt == {0, 1}
Quick == {3, 11}
Slow == {3, 20}

SelfOrNot == [selfStop : BOOLEAN, writes : {Quick, Slow}]
SlowStop == {[selfStop |-> FALSE, writes |-> Slow]}
=============================================================================
