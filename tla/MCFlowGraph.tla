----------------------------- MODULE MCFlowGraph -----------------------------
EXTENDS FlowGraph, TLC
fa == <<"fuse", "a">>
fb == <<"fuse", "b">>
fc == <<"fuse", "c">>
fd == <<"fuse", "d">>
ft == <<"fuse", "t">>
fw == <<"fuse", "w">>
fk == <<"fuse", "k">>
ps == <<"plan", "s">>
pv == <<"plan", "v">>
lz == <<"log", "z">>
ltf == <<"log", "tf">>
MCEndpoints == {fa, fb, fc, fd, ft, fw, fk, ps, pv, lz, ltf}
MCKind == (fa :> "sub") @@ (fb :> "sub") @@ (fc :> "sub") @@ (fd :> "sub") @@ (ft :> "tmr") @@ (fw :> "waitable") @@ (fk :> "cli")
       @@ (ps :> "sub") @@ (pv :> "serv") @@ (lz :> "sub") @@ (ltf :> "sub")
MCOn == (fa :> "left") @@ (fb :> "right") @@ (fc :> "extra") @@ (fd :> "speed") @@ (ft :> "-") @@ (fw :> "-") @@ (fk :> "srv")
     @@ (ps :> "fused") @@ (pv :> "srv") @@ (lz :> "fused") @@ (ltf :> "tf")
MCTwice == {fb}
MCIntra == {fa}
MCBare == {lz}
MCSynchronised == {fa, fb, fd}
MCDataTopics == {"left", "right", "extra", "speed", "fused"}
MCTypeOf == [x \in {"left", "extra"} |-> "cloud"] @@ ("right" :> "pose") @@ ("speed" :> "twist") @@ ("fused" :> "path") @@ ("tf" :> "tf")
MCExecOf == ("fuse" :> "e1") @@ ("plan" :> "e2") @@ ("log" :> "e1")

Recorded(pubs, fired, calls, receives, polled, tf, groups, split) ==
    [publishes |-> pubs, fired |-> fired, calls |-> calls, receives |-> receives,
     polled |-> polled, tf |-> tf, groups |-> groups, split |-> split]

Main1(e) == Copy(e, 1)

\* inputs that are combined, deposited, polled or sent on inside a node
Inside ==
    {Recorded(P, F, {}, {}, D, {}, {}, FALSE) :
        P \in SUBSET {<<Copy(fa, 1), "fused">>, <<Copy(fa, 2), "fused">>, <<Copy(fb, 1), "fused">>,
                      <<Copy(fb, 2), "left">>, <<Main1(ft), "fused">>, <<Main1(fc), "fused">>},
        F \in {{Copy(fb, 2), Main1(fc), Main1(fd)} \cup X : X \in {Copies(fa) \cup {Copy(fb, 1)}} \cup SUBSET Copies(fa)},
        D \in {{}, {<<fb, ft>>}, {<<fb, fa>>}}}

\* calls between nodes and in a node, and messages between the same endpoints
Between ==
    {Recorded(P, {Copy(fa, 2), Main1(ps)}, C, {<<Main1(pv), "fused">>}, {}, {}, {}, s) :
        P \in SUBSET {<<Main1(pv), "left">>, <<Copy(fa, 2), "fused">>, <<Main1(fk), "right">>, <<Main1(ps), "right">>},
        C \in {D \in SUBSET ({Copy(fa, 2), Main1(ft), Main1(fk), Main1(ps), Main1(pv)} \X {"srv"}) : Cardinality(D) <= 2},
        s \in BOOLEAN}

\* tf reads, GXF graphs and takes by callbacks of other endpoints
Aside ==
    {Recorded(P, {Copy(fa, 1), Main1(ltf)}, {}, R, {}, T, G, FALSE) :
        P \in SUBSET {<<Main1(fw), "fused">>, <<Copy(fa, 1), "fused">>, <<Main1(ps), "left">>, <<Copy(fa, 1), "right">>},
        R \in SUBSET {<<Main1(fw), "right">>, <<Main1(ft), "right">>},
        T \in SUBSET {<<ltf, ft>>, <<ltf, fa>>, <<fa, fb>>},
        G \in SUBSET {[ingress |-> {fa}, egress |-> {fw}]}}

\* A publication fires its callback.
Possible(a) == \A p \in a.publishes : Kind[<<p[1][1], p[1][2]>>] # "sub" \/ p[1] \in a.fired
MCApplications == {a \in Inside : Possible(a)} \cup Between \cup Aside
=============================================================================
