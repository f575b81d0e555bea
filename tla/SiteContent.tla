------------------------------ MODULE SiteContent ------------------------------
(***************************************************************************)
(* What staff put on the site besides the catalogue: photos and the        *)
(* location of the hotel.  The two share nothing but the server.           *)
(***************************************************************************)
EXTENDS Uploads, Location

siteVars == <<uploadVars, locationVars>>

SiteInit == UploadsInit /\ LocationInit

SiteNext ==
  \/ UploadsNext /\ UNCHANGED locationVars
  \/ LocationNext /\ UNCHANGED uploadVars

SiteSpec == SiteInit /\ [][SiteNext]_siteVars

SiteTypeOK == UploadsTypeOK /\ LocationTypeOK
=============================================================================
