--------------------------- MODULE MCCallbackFlow ---------------------------
EXTENDS CallbackFlow
CONSTANTS t1, t2
MCThreads == {t1, t2}
MCSymmetry == Permutations(MCThreads)
MCTopicOf == ("sub" :> "in") @@ ("poll" :> "in2")
MCNodeOf == ("sub" :> "n") @@ ("tmr" :> "n") @@ ("poll" :> "n")
MCPubTopic == ("drive" :> "in") @@ ("out" :> "in") @@ ("aux" :> "in2")
MCPubNode == ("drive" :> "d") @@ ("out" :> "n") @@ ("aux" :> "n")
MCWrites == ("sub" :> {"aux"}) @@ ("tmr" :> {"out"})
MCMaxEvents == ("messages" :> 8) @@ ("containers" :> 8) @@ ("pointers" :> 9)
MCMaxLost == ("messages" :> 1) @@ ("containers" :> 0) @@ ("pointers" :> 0)
=============================================================================
