----------------------------- MODULE MCSendInfo -----------------------------
(***************************************************************************)
(* send_info.c alone: one caller, requests of every kind one after the     *)
(* other, ubusd that may go, a context that on_disconnect may free.        *)
(***************************************************************************)
EXTENDS SendInfo
=============================================================================
