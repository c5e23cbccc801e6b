--------------------------- MODULE MCUartReceive ---------------------------
(* UartReceive on a small instance for TLC: a queue that holds two bytes,  *)
(* and a few more bytes than fit.                                          *)
EXTENDS UartReceive

=============================================================================
