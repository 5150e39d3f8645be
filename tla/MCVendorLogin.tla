--------------------------- MODULE MCVendorLogin ---------------------------
(* A small instance of VendorLogin for TLC.                                *)
EXTENDS VendorLogin

=============================================================================
