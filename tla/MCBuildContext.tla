--------------------------- MODULE MCBuildContext ---------------------------
EXTENDS BuildContext, TLC

MCPath == { <<"a">>, <<"a", "b">>, <<"a", "a">>, <<"a", "a", "b">>, <<"a", "Dockerfile">>,
            <<"b">>, <<"l">>, <<"s">>, <<"ab">>, <<"Dockerfile">>, <<".dockerignore">> }

MCTrees == { MCPath,
             { <<"a">>, <<"a", "b">>, <<"a", "Dockerfile">>, <<".dockerignore">> },
             { <<"a">>, <<"a", "a">>, <<"a", "a", "b">>, <<"b">>, <<"Dockerfile">> } }

\* "a" begins "ab" and no other name begins another one.
MCBegins == { <<"a", "ab">> }

Part == {"a", "b", "*", "**"}
Dirs == { <<x>> : x \in Part } \union { <<x, y>> : x \in Part, y \in Part \ {"**"} }
        \union { <<>>, <<"ab">>, <<"a", "a", "b">>, <<"*", "a", "b">>, <<"a", "**">> }
Kept == { <<"a">>, <<"b">>, <<"ab">>, <<"a", "b">>, <<"a", "a", "b">>, <<"*", "b">>, <<"**">> }
MCIgnores == { <<>> } \union { <<Pattern(d)>> : d \in Dirs }
             \union { << Pattern(d), Exception(e) >> : d \in Dirs, e \in Kept }
             \union { << Exception(<<"a">>), Pattern(d), Exception(<<"a", "b">>) >> : d \in Dirs }
MCDockerfiles == { <<>>, <<"a", "Dockerfile">>, Outside }
=============================================================================
