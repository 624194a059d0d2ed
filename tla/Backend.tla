------------------------------- MODULE Backend -------------------------------
(***************************************************************************)
(* The requests of the backend that share users, roles and permissions:    *)
(* their administration, OAuth callbacks and uploads, at once.             *)
(***************************************************************************)
EXTENDS OAuthLogin, Uploads

allVars == <<vars, oauthVars, uploadVars>>

BackendInit == Init /\ OAuthInit /\ UploadsInit

Administration == Next /\ UNCHANGED <<oauthVars, uploadVars>>
OAuth          == OAuthNext /\ UNCHANGED uploadVars
Uploading      == UploadsNext /\ UNCHANGED oauthVars

\* A slot has one request.
OneEach == \A s \in Slots : req[s] = Idle \/ jobs[s] = NoJob

BackendNext == (Administration \/ OAuth \/ Uploading) /\ OneEach'

BackendSpec == BackendInit /\ [][BackendNext]_allVars

(* BackendTypeOK: rows, requests and files.                                 *)
BackendTypeOK == TypeOK /\ OAuthTypeOK /\ UploadsTypeOK
=============================================================================
