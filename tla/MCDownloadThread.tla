-------------------------- MODULE MCDownloadThread --------------------------
(* The instance of DownloadThread for TLC: a version of two packages. *)
EXTENDS DownloadThread

TwoPackages == <<3, 4>>
=============================================================================
