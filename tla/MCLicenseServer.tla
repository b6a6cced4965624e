--------------------------- MODULE MCLicenseServer --------------------------
(* The licence server on small sets; ranks stand for serials and clients.  *)
EXTENDS LicenseServer

MCSerial == {1, 2}
MCClient == {1, 2}
OneSerial == {1}
ThreeClients == {1, 2, 3}
=============================================================================
