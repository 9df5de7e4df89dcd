------------------------------ MODULE PanelProofs ------------------------------
(***************************************************************************)
(* What is proved of a part alone, in the modules for accounts, sites and  *)
(* hosts, holds of it in the panel, too: the panel starts each part as the *)
(* part starts, and a step of the panel is a step of the part or leaves it *)
(* as it is.                                                               *)
(***************************************************************************)
EXTENDS Panel, AccountProofs, SiteProofs, HostProofs

LEMMA PartsInit ==
    PanelInit => /\ SesInit /\ AccInit /\ BkInit /\ DbInit /\ PushInit
                 /\ ImpInit /\ EditInit /\ NoteInit /\ DnsInit /\ AppInit
                 /\ SaInit /\ FmInit /\ GsInit /\ RsInit /\ ZdInit /\ SiteInit
  BY DEF PanelInit

LEMMA PartsNext ==
    [PanelNext]_panelVars =>
        /\ [SesNext]_sesVars /\ [AccNext]_accVars /\ [BkNext]_bkVars /\ [DbNext]_dbVars
        /\ [PushNext]_pushVars /\ [ImpNext]_impVars /\ [EditNext]_editVars /\ [NoteNext]_noteVars
        /\ [DnsNext]_dnsVars /\ [AppNext]_appVars /\ [SaNext]_saVars /\ [FmNext]_fmVars
        /\ [GsNext]_gsVars /\ [RsNext]_rsVars /\ [ZdNext]_zdVars /\ [SiteNext]_siteVars
<1> SUFFICES ASSUME [PanelNext]_panelVars
             PROVE  /\ [SesNext]_sesVars /\ [AccNext]_accVars /\ [BkNext]_bkVars /\ [DbNext]_dbVars
                    /\ [PushNext]_pushVars /\ [ImpNext]_impVars /\ [EditNext]_editVars /\ [NoteNext]_noteVars
                    /\ [DnsNext]_dnsVars /\ [AppNext]_appVars /\ [SaNext]_saVars /\ [FmNext]_fmVars
                    /\ [GsNext]_gsVars /\ [RsNext]_rsVars /\ [ZdNext]_zdVars /\ [SiteNext]_siteVars
  OBVIOUS
<1>1. CASE UNCHANGED panelVars
  BY <1>1 DEF panelVars
<1>2. CASE PanelNext
  <2>1. [SesNext]_sesVars
    BY <1>2 DEF PanelNext, PanelRest
  <2>2. [AccNext]_accVars
    BY <1>2 DEF PanelNext, PanelRest
  <2>3. [BkNext]_bkVars
    BY <1>2 DEF PanelNext, PanelRest
  <2>4. [DbNext]_dbVars
    BY <1>2 DEF PanelNext, PanelRest
  <2>5. [PushNext]_pushVars
    BY <1>2 DEF PanelNext, PanelRest
  <2>6. [ImpNext]_impVars
    BY <1>2 DEF PanelNext, PanelRest
  <2>7. [EditNext]_editVars
    BY <1>2 DEF PanelNext, PanelRest
  <2>8. [NoteNext]_noteVars
    BY <1>2 DEF PanelNext, PanelRest
  <2>9. [DnsNext]_dnsVars
    BY <1>2 DEF PanelNext, PanelRest
  <2>10. [AppNext]_appVars
    BY <1>2 DEF PanelNext, PanelRest
  <2>11. [SaNext]_saVars
    BY <1>2 DEF PanelNext, PanelRest
  <2>12. [FmNext]_fmVars
    BY <1>2 DEF PanelNext, PanelRest
  <2>13. [GsNext]_gsVars
    BY <1>2 DEF PanelNext, PanelRest
  <2>14. [RsNext]_rsVars
    BY <1>2 DEF PanelNext, PanelRest
  <2>15. [ZdNext]_zdVars
    BY <1>2 DEF PanelNext, PanelRest
  <2>16. [SiteNext]_siteVars
    BY <1>2 DEF PanelNext, PanelRest
  <2> QED
    BY <2>1, <2>2, <2>3, <2>4, <2>5, <2>6, <2>7, <2>8, <2>9, <2>10, <2>11, <2>12, <2>13,
       <2>14, <2>15, <2>16
<1> QED
  BY <1>1, <1>2

-----------------------------------------------------------------------------
LEMMA PanelInitStrong ==
    PanelInit => /\ SesStrong /\ AccStrong /\ BkStrong /\ DbStrong /\ PushStrong
                 /\ ImpStrong /\ EditStrong /\ NoteStrong /\ DnsStrong /\ AppStrong
                 /\ SaStrong /\ FmStrong /\ GsStrong /\ RsStrong /\ ZdStrong /\ SiteStrong
  BY PartsInit, SesInitStrong, AccInitStrong, BkInitStrong, DbInitStrong, PushInitStrong,
     ImpInitStrong, EditInitStrong, NoteInitStrong, DnsInitStrong, AppInitStrong,
     SaInitStrong, FmInitStrong, GsInitStrong, RsInitStrong, ZdInitStrong, SiteInitStrong

LEMMA PanelNextStrong ==
    /\ SesStrong /\ AccStrong /\ BkStrong /\ DbStrong /\ PushStrong
    /\ ImpStrong /\ EditStrong /\ NoteStrong /\ DnsStrong /\ AppStrong
    /\ SaStrong /\ FmStrong /\ GsStrong /\ RsStrong /\ ZdStrong /\ SiteStrong
    /\ [PanelNext]_panelVars
    => /\ SesStrong' /\ AccStrong' /\ BkStrong' /\ DbStrong' /\ PushStrong'
       /\ ImpStrong' /\ EditStrong' /\ NoteStrong' /\ DnsStrong' /\ AppStrong'
       /\ SaStrong' /\ FmStrong' /\ GsStrong' /\ RsStrong' /\ ZdStrong' /\ SiteStrong'
  BY PartsNext, SesNextStrong, AccNextStrong, BkNextStrong, DbNextStrong, PushNextStrong,
     ImpNextStrong, EditNextStrong, NoteNextStrong, DnsNextStrong, AppNextStrong,
     SaNextStrong, FmNextStrong, GsNextStrong, RsNextStrong, ZdNextStrong, SiteNextStrong

LEMMA PanelStrong ==
    PanelSpec => [](/\ SesStrong /\ AccStrong /\ BkStrong /\ DbStrong /\ PushStrong
                    /\ ImpStrong /\ EditStrong /\ NoteStrong /\ DnsStrong /\ AppStrong
                    /\ SaStrong /\ FmStrong /\ GsStrong /\ RsStrong /\ ZdStrong /\ SiteStrong)
  BY PanelInitStrong, PanelNextStrong, PTL DEF PanelSpec

\* What the sixteen parts promise by themselves they promise in the composition
\* that the panel is checked as, too: none of them is written by another.
THEOREM PanelKeeps ==
    PanelSpec => [](/\ SessionsEndTogether /\ TenantsAccounted /\ BackupsKept /\ DatabasesAgree
                    /\ PushedSiteSelfContained /\ ImportsSound /\ StackEditsSound /\ NoticesSound
                    /\ ZonesAgree /\ AppsConsistent /\ ActionsSound /\ FilesSound /\ SourcesSound
                    /\ ServersSound /\ DeploysSound /\ SitesSound)
<1>1. /\ SesStrong /\ AccStrong /\ BkStrong /\ DbStrong /\ PushStrong
      /\ ImpStrong /\ EditStrong /\ NoteStrong /\ DnsStrong /\ AppStrong
      /\ SaStrong /\ FmStrong /\ GsStrong /\ RsStrong /\ ZdStrong /\ SiteStrong
      => /\ SessionsEndTogether /\ TenantsAccounted /\ BackupsKept /\ DatabasesAgree
         /\ PushedSiteSelfContained /\ ImportsSound /\ StackEditsSound /\ NoticesSound
         /\ ZonesAgree /\ AppsConsistent /\ ActionsSound /\ FilesSound /\ SourcesSound
         /\ ServersSound /\ DeploysSound /\ SitesSound
  BY SesStrongImplies, AccStrongImplies, BkStrongImplies, DbStrongImplies, PushStrongImplies,
     ImpStrongImplies, EditStrongImplies, NoteStrongImplies, DnsStrongImplies,
     AppStrongImplies, SaStrongImplies, FmStrongImplies, GsStrongImplies, RsStrongImplies,
     ZdStrongImplies, SiteStrongImplies
<1> QED
  BY <1>1, PanelStrong, PTL

\* Backups implement the archive store in the composition, too.
THEOREM PanelImplementsStore == PanelSpec => ImplementsStore
<1>1. PanelInit => Store!StoreInit
  BY PartsInit, StoreInitImplied
<1>2. BkStrong /\ BkStrong' /\ [PanelNext]_panelVars => [Store!StoreNext]_Store!storeVars
  BY PartsNext, StoreNextImplied
<1> QED
  BY PanelStrong, <1>1, <1>2, PTL DEF PanelSpec, ImplementsStore, Store!StoreSpec
================================================================================
