-------------------------------- MODULE MCPanel --------------------------------
(* A small panel: a shop and its staging clone, two versions of PHP, ...    *)
EXTENDS Panel, TLC

CONSTANTS shop, staging, blog, ann, bob, app1, app2

MCStagingOf == (shop :> staging) @@ (staging :> None)
MCUnStacks == {<<"shop">>, <<"shop", "api">>}
\* Two services, with a domain each, and the domain of a site before them.
MCZdHosts == <<"a.site", "b.shop", "c.blog">>
MCZdServiceOf == ("a.site" :> None) @@ ("b.shop" :> shop) @@ ("c.blog" :> blog)
\* Two apps of one account, or of two.
MCGsOwners == {(app1 :> ann) @@ (app2 :> bob), (app1 :> ann) @@ (app2 :> ann)}
================================================================================
