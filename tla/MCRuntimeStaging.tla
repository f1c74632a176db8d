-------------------------- MODULE MCRuntimeStaging --------------------------
(* Small instances of RuntimeStaging. *)
EXTENDS RuntimeStaging, TLC

CONSTANTS p, q, a, b, bad

\* Package layouts: file n of directory d for every pair in the table, no
\* file elsewhere.
Layout(table) ==
    [d \in Dirs |-> [n \in Names |->
       IF \E e \in table : e[1] = d /\ e[2] = n
         THEN (CHOOSE e \in table : e[1] = d /\ e[2] = n)[3] ELSE NoFile]]

Bin(r) == <<r, "bin">>
Rel(r) == <<r, "Release">>

Request(roots, tool, excl) ==
    [roots |-> roots, cfg |-> "Release", tool |-> tool, excl |-> excl]

\* Two packages that agree on DLL 1; DLL 2 comes from one of them.
AgreeingLayout ==
    Layout({<<Rel(p), 1, a>>, <<Bin(q), 1, a>>, <<Rel(q), 2, b>>,
            <<ToolBin, 1, a>>})
\* Two packages that ship different DLLs under the name 1.
CollidingLayout ==
    Layout({<<Rel(p), 1, a>>, <<Bin(q), 1, b>>, <<Bin(q), 2, bad>>,
            <<ToolBin, 1, a>>})

TwoLayouts == {AgreeingLayout, CollidingLayout}

\* Two targets that agree or disagree about one name.
OneName == {1}
SharedLayouts ==
    {Layout({<<Rel(p), 1, a>>, <<Bin(q), 1, i>>}) : i \in {a, b}}
SharedRequests == {Request(<<p>>, {}, {}), Request(<<q>>, {}, {})}

\* One target: its packages are republished, removed and reconfigured; a DLL
\* that the toolchain list declares may be a retired one.
SingleRequests ==
    {Request(<<p, q>>, {1}, {}), Request(<<q>>, {}, {2}), Request(<<q>>, {1}, {1}),
     [Request(<<p>>, {}, {1}) EXCEPT !.cfg = "RelWithDebInfo"]}

\* One package with one DLL.
OneDllLayouts == {Layout({<<Rel(p), 1, a>>})}
OneDllRequests == {Request(<<p>>, {}, {})}

=============================================================================
