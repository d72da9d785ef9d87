---------------------------- MODULE RunnerDevices ----------------------------
(***************************************************************************)
(* The runners of the test program, and what the opening of their devices  *)
(* leaves (src/main.c 97-120 and the *_init functions it calls).           *)
(***************************************************************************)

Runner == {"rack", "audio", "gpio", "uart", "stm32"}

\* The state of the device and the code that is returned.  rack_initialize loses
\* its errors in an unsigned `ret` and may return 0 over a device that is closed,
\* or open while an ioctl of spi_init failed; alsa_device_open returns a device whose set-up failed;
\* elite_slave_ready_gpio_init has no return statement.
Opened(r) ==
  CASE r = "rack"  -> {<<"ready", "ok">>, <<"ready", "failed">>,
                       <<"half", "ok">>, <<"closed", "ok">>}
    [] r = "audio" -> {<<"ready", "ok">>, <<"half", "ok">>, <<"closed", "failed">>}
    [] r = "gpio"  -> {"ready", "half", "closed"} \X {"ok", "failed"}
    [] OTHER       -> {<<"ready", "ok">>, <<"half", "failed">>, <<"closed", "failed">>}
=============================================================================
