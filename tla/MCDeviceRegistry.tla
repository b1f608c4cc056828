-------------------------- MODULE MCDeviceRegistry --------------------------
EXTENDS DeviceRegistry, TLC

\* Users, devices and secrets are interchangeable model values.
Symmetry == Permutations(Users) \cup Permutations(Devices) \cup Permutations(Secrets)
=============================================================================
